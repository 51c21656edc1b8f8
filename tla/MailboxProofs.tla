--------------------------- MODULE MailboxProofs ---------------------------
(***************************************************************************)
(* Proofs about Mailbox, for any letters, boxes, limits, senders,          *)
(* deliveries of events and clocks.                                        *)
(***************************************************************************)
EXTENDS Mailbox, SumProofs

-----------------------------------------------------------------------------
(* Types.  A letter in flight is in the hands of one sender, and a bounce in *)
(* the hands of one delivery: the claims are conditional, the row is locked. *)

OneHander ==
    /\ \A p \in Senders : send[p].at # "idle" => send[p].letter \in Letters
    /\ \A p, q \in Senders :
         send[p].at = "handing" /\ send[q].at = "handing" /\ send[p].letter = send[q].letter
           => p = q

HookRows ==
    /\ \A h \in Hooks : hook[h] # Silent => hook[h].letter \in Letters
    /\ \A h \in Hooks : hook[h].letter \in Letters => letter[hook[h].letter].status = "sent"
    /\ \A g, h \in Hooks : hook[g].letter \in Letters /\ hook[g].letter = hook[h].letter => g = h

Rows == TypeOK /\ OneHander /\ HookRows

LEMMA NoMoment ==
    /\ now \in Time => now \in Moment /\ now \in Int /\ now >= 0
    /\ NEVER \in Moment /\ Moment \subseteq Int
BY BoundAssumption DEF Time, Moment, NEVER

LEMMA InitRows == Init => Rows
<1> SUFFICES ASSUME Init PROVE Rows
  OBVIOUS
<1> USE NoMoment DEF Init
<1>1. now \in Time /\ lost \in 0..MaxLost /\ back \in 0..MaxBack
  BY BoundAssumption DEF Time
<1>2. letter \in [Letters -> Letter]
  BY DEF Fresh, Letter, Trouble
<1>3. box \in [Boxes -> Box]
  BY <1>1 DEF Box
<1>4. send \in [Senders -> Send] /\ \A p \in Senders : send[p].at = "idle"
  BY DEF Rest, Send
<1>5. hook \in [Hooks -> Hook] /\ \A h \in Hooks : hook[h] = Silent
  BY DEF Silent, Hook, Trouble
<1>6. \A h \in Hooks : hook[h].letter \notin Letters
  BY <1>5, BoundAssumption DEF Silent
<1>7. /\ mailed \in [Boxes -> Nat] /\ freed \in [Boxes -> Nat]
      /\ before \in [Boxes -> Nat] /\ woke \in [Boxes -> Moment]
  OBVIOUS
<1> QED
  BY <1>1, <1>2, <1>3, <1>4, <1>5, <1>6, <1>7 DEF Rows, TypeOK, OneHander, HookRows

\* Tables of the history and of the boxes that the operations write.
LEMMA Updates ==
    ASSUME TypeOK, NEW b \in Boxes \cup {NoBox}, NEW l \in Letters
    PROVE  /\ Taken(l, b) => mailed' \in [Boxes -> Nat] /\ woke' \in [Boxes -> Moment]
           /\ Freed(l) => freed' \in [Boxes -> Nat]
           /\ \A at \in Moment : Marked(b, at) \in [Boxes -> Box]
           /\ \A s \in {"queued", "sending", "sent", "bounced"} :
                [letter EXCEPT ![l].status = s] \in [Letters -> Letter]
<1> USE NoMoment DEF TypeOK
<1>1. letter[l] \in Letter
  OBVIOUS
<1>2. ASSUME Taken(l, b) PROVE mailed' \in [Boxes -> Nat] /\ woke' \in [Boxes -> Moment]
  <2>1. letter[l].at \in Moment
    BY <1>1 DEF Letter
  <2>2. CASE b \in Boxes
    BY <1>2, <2>1, <2>2 DEF Taken, Least
  <2>3. CASE b \notin Boxes
    BY <1>2, <2>3 DEF Taken
  <2> QED
    BY <2>2, <2>3
<1>3. ASSUME Freed(l) PROVE freed' \in [Boxes -> Nat]
  <2>1. CASE freed' = freed
    BY <2>1
  <2>2. CASE freed' = [freed EXCEPT ![letter[l].box] = @ + 1]
    <3>1. CASE letter[l].box \in Boxes
      BY <2>2, <3>1
    <3>2. CASE letter[l].box \notin Boxes
      BY <2>2, <3>2
    <3> QED
      BY <3>1, <3>2
  <2> QED
    BY <1>3, <2>1, <2>2 DEF Freed
<1>4. ASSUME NEW at \in Moment PROVE Marked(b, at) \in [Boxes -> Box]
  BY <1>4 DEF Marked, Box
<1>5. ASSUME NEW s \in {"queued", "sending", "sent", "bounced"}
      PROVE  [letter EXCEPT ![l].status = s] \in [Letters -> Letter]
  BY <1>5 DEF Letter
<1> QED
  BY <1>2, <1>3, <1>4, <1>5

\* What the steps of one sender do to the rows it does not hold.
LEMMA SenderRows ==
    ASSUME Rows, NEW p \in Senders, Sending(p)
    PROVE  Rows'
<1> DEFINE s == send[p]
<1> USE NoMoment
<1>0. /\ now \in Time /\ now \in Moment
      /\ s \in Send /\ s.box \in Boxes \cup {NoBox} /\ s.was \in Boxes \cup {NoBox}
      /\ Rest \in Send /\ Rest.at = "idle"
  BY DEF Rows, TypeOK, Send, Rest
<1>1. ASSUME NEW l \in Letters, choose(p, l) PROVE Rows'
  <2>1. PICK b \in Boxes :
          send' = [send EXCEPT ![p] = [at |-> "chosen", letter |-> l, box |-> b,
                                       was |-> letter[l].box]]
    BY <1>1 DEF choose
  <2>2. letter[l].box \in Boxes \cup {NoBox}
    BY DEF Rows, TypeOK, Letter
  <2>3. send' \in [Senders -> Send]
    BY <2>1, <2>2 DEF Rows, TypeOK, Send
  <2>4. \A q \in Senders : q # p => send'[q] = send[q]
    BY <2>1 DEF Rows, TypeOK
  <2>5. send'[p].at = "chosen" /\ send'[p].letter = l
    BY <2>1 DEF Rows, TypeOK
  <2>6. TypeOK'
    BY <1>1, <2>3, <2>4, <2>5 DEF choose, Rows, TypeOK, history
  <2>7. OneHander'
    BY <2>4, <2>5 DEF Rows, OneHander
  <2> QED
    BY <1>1, <2>6, <2>7 DEF choose, Rows, HookRows
<1>2. CASE _claim(p)
  <2>1. s.letter \in Letters
    BY <1>2 DEF _claim, Rows, OneHander
  <2>2. CASE letter[s.letter].status = "queued"
    <3>1. /\ letter' = [letter EXCEPT ![s.letter].status = "sending",
                                      ![s.letter].box = s.box,
                                      ![s.letter].at = now]
          /\ send' = [send EXCEPT ![p].at = "handing"]
          /\ UNCHANGED <<now, box, hook, lost, back, history>>
      BY <1>2, <2>2 DEF _claim
    <3>2. letter' \in [Letters -> Letter] /\ send' \in [Senders -> Send]
      <4>1. letter' \in [Letters -> Letter]
        <5>1. s.box \in Boxes \cup {NoBox} /\ now \in Moment
          BY <1>0
        <5> HIDE DEF s
        <5> QED
          BY <2>1, <3>1, <5>1 DEF Rows, TypeOK, Letter
      <4>2. send' \in [Senders -> Send]
        BY <3>1 DEF Rows, TypeOK, Send
      <4> QED
        BY <4>1, <4>2
    <3>3. /\ \A q \in Senders : q # p => send'[q] = send[q]
          /\ send'[p].at = "handing" /\ send'[p].letter = s.letter /\ send'[p].box = s.box
      BY <3>1 DEF Rows, TypeOK, Send
    <3>4. /\ \A l \in Letters : l # s.letter => letter'[l] = letter[l]
          /\ letter'[s.letter].status = "sending" /\ letter'[s.letter].box = s.box
      BY <2>1, <3>1 DEF Rows, TypeOK, Letter
    <3>5. \A q \in Senders : send[q].at = "handing" => send[q].letter # s.letter
      BY <2>2 DEF Rows, TypeOK
    <3>6. \A q \in Senders : send[q].at = "handing" => send[q].letter \in Letters
      BY DEF Rows, OneHander
    <3>7. TypeOK'
      BY <3>1, <3>2, <3>3, <3>4, <3>5, <3>6 DEF Rows, TypeOK, history
    <3>8. OneHander'
      BY <2>1, <3>3, <3>5 DEF Rows, OneHander
    <3>9. HookRows'
      <4>1. \A h \in Hooks : hook[h].letter \in Letters => hook[h].letter # s.letter
        BY <2>2 DEF Rows, HookRows
      <4>2. \A h \in Hooks : hook[h].letter \in Letters => letter'[hook[h].letter].status = "sent"
        BY <3>4, <4>1 DEF Rows, HookRows
      <4>3. HookRows /\ hook' = hook
        BY <3>1 DEF Rows
      <4> QED
        BY <4>2, <4>3 DEF HookRows
    <3> QED
      BY <3>7, <3>8, <3>9 DEF Rows
  <2>3. CASE letter[s.letter].status # "queued"
    <3>1. send' = [send EXCEPT ![p] = Rest] /\ UNCHANGED letter
          /\ UNCHANGED <<now, box, hook, lost, back, history>>
      BY <1>2, <2>3 DEF _claim
    <3>2. TypeOK'
      BY <1>0, <3>1 DEF Rows, TypeOK, history
    <3> QED
      BY <1>0, <3>1, <3>2 DEF Rows, OneHander, HookRows, TypeOK
  <2> QED
    BY <2>2, <2>3
<1>3. ASSUME s.at = "handing", send' = [send EXCEPT ![p] = Rest],
             letter' \in [Letters -> Letter],
             \A l \in Letters : l # s.letter => letter'[l] = letter[l],
             box' \in [Boxes -> Box], UNCHANGED <<now, hook, back, freed, before>>,
             lost' \in 0..MaxLost, mailed' \in [Boxes -> Nat], woke' \in [Boxes -> Moment]
      PROVE  Rows'
  <2>1. /\ send' \in [Senders -> Send]
        /\ \A q \in Senders : q # p => send'[q] = send[q]
        /\ send'[p].at = "idle"
    BY <1>0, <1>3 DEF Rows, TypeOK
  <2>2. \A q \in Senders : q # p /\ send[q].at = "handing" =>
          send[q].letter \in Letters /\ send[q].letter # s.letter
    BY <1>3 DEF Rows, OneHander
  <2>3. TypeOK'
    BY <1>3, <2>1, <2>2 DEF Rows, TypeOK
  <2>4. OneHander'
    BY <2>1 DEF Rows, OneHander
  <2>5. \A h \in Hooks : hook[h].letter \in Letters => hook[h].letter # s.letter
    BY <1>3 DEF Rows, HookRows, TypeOK
  <2>6. HookRows'
    BY <1>3, <2>5 DEF Rows, HookRows
  <2> QED
    BY <2>3, <2>4, <2>6 DEF Rows
<1>4. ASSUME s.at = "handing" PROVE s.letter \in Letters
  BY <1>4 DEF Rows, OneHander
<1>5. CASE _settle(p)
  <2>1. letter' \in [Letters -> Letter] /\ \A l \in Letters : l # s.letter => letter'[l] = letter[l]
    BY <1>0, <1>4, <1>5 DEF _settle, Rows, TypeOK, Letter
  <2>2. box' \in [Boxes -> Box] /\ mailed' \in [Boxes -> Nat] /\ woke' \in [Boxes -> Moment]
    BY <1>0, <1>4, <1>5, Updates DEF _settle, Rows
  <2> QED
    BY <1>3, <1>5, <2>1, <2>2 DEF _settle, Rows, TypeOK
<1>6. CASE Refused(p)
  <2>1. letter' \in [Letters -> Letter] /\ \A l \in Letters : l # s.letter => letter'[l] = letter[l]
    BY <1>0, <1>4, <1>6 DEF Refused, Rows, TypeOK, Letter
  <2> QED
    BY <1>3, <1>6, <2>1 DEF Refused, Rows, TypeOK, history
<1>7. CASE Broken(p)
  <2>1. lost' \in 0..MaxLost
    BY <1>7, BoundAssumption DEF Broken, Rows, TypeOK
  <2>2. letter' \in [Letters -> Letter] /\ \A l \in Letters : l # s.letter => letter'[l] = letter[l]
    BY <1>0, <1>4, <1>7 DEF Broken, Rows, TypeOK, Letter
  <2>3. mailed' \in [Boxes -> Nat] /\ woke' \in [Boxes -> Moment]
    BY <1>0, <1>4, <1>7, Updates DEF Broken, Rows, TypeOK
  <2> QED
    BY <1>3, <1>7, <2>1, <2>2, <2>3 DEF Broken, Rows, TypeOK
<1> QED
  BY <1>1, <1>2, <1>5, <1>6, <1>7 DEF Sending

\* A letter nobody has in hand may be rewritten.
LEMMA LooseLetter ==
    ASSUME Rows, NEW l \in Letters, ~Handing(l), \A h \in Hooks : hook[h].letter # l,
           letter' \in [Letters -> Letter],
           \A k \in Letters : k # l => letter'[k] = letter[k],
           box' \in [Boxes -> Box], back' \in 0..MaxBack, freed' \in [Boxes -> Nat],
           UNCHANGED <<now, send, hook, lost, mailed, before, woke>>
    PROVE  Rows'
<1>1. \A p \in Senders : send[p].at = "handing" => send[p].letter \in Letters /\ send[p].letter # l
  BY DEF Rows, OneHander, Handing
<1>2. TypeOK'
  BY <1>1 DEF Rows, TypeOK
<1>3. OneHander'
  BY DEF Rows, OneHander
<1>4. HookRows'
  BY DEF Rows, HookRows
<1> QED
  BY <1>2, <1>3, <1>4 DEF Rows

LEMMA OtherRows ==
    ASSUME Rows,
           NEW l \in Letters, ByEvent(l) \/ _back(l) \/ _return(l)
    PROVE  Rows'
<1> USE NoMoment
<1>0. /\ letter[l] \in Letter /\ now \in Moment
      /\ letter[l].at \in Moment /\ letter[l].box \in Boxes \cup {NoBox}
  BY DEF Rows, TypeOK, Letter
<1>1. letter[l].status # "sent" => \A h \in Hooks : hook[h].letter # l
  BY DEF Rows, HookRows
<1>2. letter[l].status # "sending" => ~Handing(l)
  BY DEF Rows, TypeOK, Handing
<1>3. CASE ByEvent(l)
  <2>1. PICK at \in Moment :
          /\ letter' = [letter EXCEPT ![l].status = "sent", ![l].at = at]
          /\ box' = Marked(letter[l].box, at)
    BY <1>0, <1>3 DEF ByEvent
  <2>2. letter' \in [Letters -> Letter]
    <3>1. [letter[l] EXCEPT !.status = "sent", !.at = at] \in Letter
      BY <1>0 DEF Letter
    <3>2. letter' = [letter EXCEPT ![l] = [letter[l] EXCEPT !.status = "sent", !.at = at]]
      BY <2>1 DEF Rows, TypeOK, Letter
    <3> QED
      BY <3>1, <3>2 DEF Rows, TypeOK
  <2>3. \A k \in Letters : k # l => letter'[k] = letter[k]
    BY <2>1 DEF Rows, TypeOK
  <2>4. box' \in [Boxes -> Box]
    BY <1>0, <2>1, Updates DEF Rows
  <2>5. ~Handing(l) /\ letter[l].status # "sent"
        /\ UNCHANGED <<now, send, hook, lost, back, history>>
    BY <1>3 DEF ByEvent
  <2> QED
    BY <1>1, <2>2, <2>3, <2>4, <2>5, LooseLetter DEF history, Rows, TypeOK
<1>4. ASSUME back < MaxBack, back' = back + 1 PROVE back' \in 0..MaxBack
  BY <1>4, BoundAssumption DEF Rows, TypeOK
<1>5. CASE _back(l)
  <2>1. letter' \in [Letters -> Letter] /\ freed' \in [Boxes -> Nat] /\ back' \in 0..MaxBack
    BY <1>0, <1>4, <1>5, Updates DEF _back, Rows
  <2>2. \A k \in Letters : k # l => letter'[k] = letter[k]
    BY <1>5 DEF _back, Rows, TypeOK
  <2>3. ~Handing(l) /\ letter[l].status # "sent"
        /\ UNCHANGED <<now, box, send, hook, lost, mailed, before, woke>>
    BY <1>5 DEF _back
  <2> QED
    BY <1>1, <2>1, <2>2, <2>3, LooseLetter DEF Rows, TypeOK
<1>6. CASE _return(l)
  <2>1. [Fresh EXCEPT !.box = letter[l].box] \in Letter
    BY <1>0 DEF Fresh, Letter, Trouble
  <2>2. letter' \in [Letters -> Letter] /\ freed' \in [Boxes -> Nat] /\ back' \in 0..MaxBack
    BY <1>0, <1>4, <1>6, <2>1, Updates DEF _return, Rows, TypeOK
  <2>3. \A k \in Letters : k # l => letter'[k] = letter[k]
    BY <1>6 DEF _return, Rows, TypeOK
  <2>4. letter[l].status = "bounced"
        /\ UNCHANGED <<now, box, send, hook, lost, mailed, before, woke>>
    BY <1>6 DEF _return
  <2> QED
    BY <1>1, <1>2, <2>2, <2>3, <2>4, LooseLetter DEF Rows, TypeOK
<1> QED
  BY <1>3, <1>5, <1>6

LEMMA listenRows ==
    ASSUME Rows, NEW h \in Hooks, NEW l \in Letters, listen(h, l)
    PROVE  Rows'
<1> USE NoMoment
<1>1. PICK why \in {"box", "dns"}, at \in EventTime(l), pause \in BOOLEAN :
        hook' = [hook EXCEPT ![h] = [letter |-> l, trouble |-> why, at |-> at, pause |-> pause]]
  BY DEF listen
<1>2. /\ letter[l].status = "sent" /\ \A g \in Hooks : hook[g].letter # l
      /\ UNCHANGED <<now, letter, box, send, lost, back, history>>
  BY DEF listen
<1>3. letter[l].taken \in Moment
  BY DEF Rows, TypeOK, Letter
<1>4. at \in Moment
  BY <1>3, BoundAssumption DEF EventTime, Rows, TypeOK, Time, Moment, NEVER
<1>5. hook' \in [Hooks -> Hook]
  BY <1>1, <1>4 DEF Rows, TypeOK, Hook, Trouble
<1>6. \A g \in Hooks : g # h => hook'[g] = hook[g]
  BY <1>1 DEF Rows, TypeOK
<1>7. hook'[h].letter = l
  BY <1>1 DEF Rows, TypeOK
<1>8. TypeOK' /\ OneHander'
  BY <1>2, <1>5 DEF Rows, TypeOK, OneHander, history
<1>9. HookRows'
  BY <1>2, <1>6, <1>7 DEF Rows, HookRows
<1> QED
  BY <1>8, <1>9 DEF Rows

LEMMA CommitRows ==
    ASSUME Rows, NEW h \in Hooks, Commit(h)
    PROVE  Rows'
<1> DEFINE l == hook[h].letter
<1> USE NoMoment
<1>1. l \in Letters /\ letter[l].status = "sent"
  BY DEF Commit, Rows, HookRows
<1>2. /\ letter' = [letter EXCEPT ![l].status = "bounced", ![l].trouble = hook[h].trouble]
      /\ hook' = [hook EXCEPT ![h] = Silent]
      /\ UNCHANGED <<now, send, lost, back, history>>
  BY DEF Commit
<1>3. hook[h].trouble \in Trouble /\ hook[h].at \in Moment
  BY DEF Rows, TypeOK, Hook
<1>4. letter' \in [Letters -> Letter] /\ \A k \in Letters : k # l => letter'[k] = letter[k]
  BY <1>1, <1>2, <1>3 DEF Rows, TypeOK, Letter
<1>5. box' \in [Boxes -> Box]
  <2>1. CASE box' = box
    BY <2>1 DEF Rows, TypeOK
  <2>2. CASE box' = [box EXCEPT ![letter[l].box].enabled = FALSE,
                                ![letter[l].box].paused = Most(@, hook[h].at)]
    BY <1>3, <2>2 DEF Rows, TypeOK, Box, Most
  <2> QED
    BY <2>1, <2>2 DEF Commit
<1>6. hook' \in [Hooks -> Hook]
  BY <1>2 DEF Rows, TypeOK, Hook, Silent, Trouble
<1>7. \A g \in Hooks : g # h => hook'[g] = hook[g] /\ (hook[g].letter \in Letters => hook[g].letter # l)
  BY <1>1, <1>2 DEF Rows, TypeOK, HookRows
<1>8. hook'[h] = Silent /\ Silent.letter \notin Letters
  BY <1>2, BoundAssumption DEF Rows, TypeOK, Silent
<1>9. \A p \in Senders : send[p].at = "handing" => send[p].letter \in Letters /\ send[p].letter # l
  BY <1>1 DEF Rows, TypeOK, OneHander
<1>10. TypeOK'
  BY <1>2, <1>4, <1>5, <1>6, <1>9 DEF Rows, TypeOK, history
<1>11. OneHander'
  BY <1>2 DEF Rows, OneHander
<1>12. HookRows'
  BY <1>4, <1>7, <1>8 DEF Rows, HookRows
<1> QED
  BY <1>10, <1>11, <1>12 DEF Rows

LEMMA DayRows ==
    ASSUME Rows, Tick \/ \E b \in Boxes : enable(b)
    PROVE  Rows'
<1> USE NoMoment
<1>1. CASE Tick
  <2>1. now' \in Time
    BY <1>1, BoundAssumption DEF Tick, Rows, TypeOK, Time
  <2>2. mailed' \in [Boxes -> Nat] /\ freed' \in [Boxes -> Nat] /\ before' \in [Boxes -> Nat]
    BY <1>1 DEF Tick, Rows, TypeOK
  <2> QED
    BY <1>1, <2>1, <2>2 DEF Tick, Rows, TypeOK, OneHander, HookRows
<1>2. ASSUME NEW b \in Boxes, enable(b) PROVE Rows'
  <2>1. now \in Moment
    BY DEF Rows, TypeOK
  <2>2. box' \in [Boxes -> Box]
    <3>1. [box[b] EXCEPT !.enabled = TRUE, !.started = now, !.first = NEVER] \in Box
      BY <2>1 DEF Rows, TypeOK, Box
    <3>2. box' = [box EXCEPT ![b] = [box[b] EXCEPT !.enabled = TRUE, !.started = now, !.first = NEVER]]
      BY <1>2 DEF enable, Rows, TypeOK, Box
    <3> QED
      BY <3>1, <3>2 DEF Rows, TypeOK
  <2>3. before' \in [Boxes -> Nat] /\ woke' \in [Boxes -> Moment]
    <3>1. Cardinality(UnderWay({b})) \in Nat
      BY BoundAssumption, FS_Subset, FS_CardinalityType DEF UnderWay
    <3>2. mailed[b] + Cardinality(UnderWay({b})) \in Nat
      BY <3>1 DEF Rows, TypeOK
    <3>3. before' \in [Boxes -> Nat]
      BY <1>2, <3>2 DEF enable, Rows, TypeOK
    <3>4. woke' \in [Boxes -> Moment]
      BY <1>2 DEF enable, Rows, TypeOK
    <3> QED
      BY <3>3, <3>4
  <2>4. UNCHANGED <<now, letter, send, hook, lost, back, mailed, freed>>
    BY <1>2 DEF enable
  <2>5. TypeOK'
    BY <2>2, <2>3, <2>4 DEF Rows, TypeOK
  <2> QED
    BY <2>4, <2>5 DEF Rows, OneHander, HookRows
<1> QED
  BY <1>1, <1>2

LEMMA NextRows == Rows /\ [Next]_vars => Rows'
<1> SUFFICES ASSUME Rows, [Next]_vars PROVE Rows'
  OBVIOUS
<1>1. CASE UNCHANGED vars
  BY <1>1 DEF vars, history, Rows, TypeOK, OneHander, HookRows
<1>2. CASE Next
  BY <1>2, SenderRows, OtherRows, listenRows, CommitRows, DayRows DEF Next
<1> QED
  BY <1>1, <1>2

\* Every reachable state has its types, and a letter is handed over only while
\* its row is in flight with the box that was chosen: the claim is conditional
\* (_claim), and a bounce waits for the commit of another (listen, Commit).
THEOREM TypeCorrect == Spec => []TypeOK
<1>1. Rows => TypeOK
  BY DEF Rows
<1> QED
  BY <1>1, InitRows, NextRows, PTL DEF Spec

-----------------------------------------------------------------------------
(* The pause comes.  PauseComes is not inductive: the bounces that are being *)
(* committed count as well.  Those that have been judged without a pause are *)
(* fewer than Bad together with the ones before them, but for the deliveries *)
(* that were open at the time and have not seen each other.                  *)

Counted(b) == {l \in Against(b) : letter[l].at >= box[b].started}

\* Held by a delivery that has found no reason for a pause.
Judged(l) == \E h \in Hooks : hook[h].letter = l /\ hook[h].trouble = "box" /\ ~hook[h].pause

Coming(b) ==
    {l \in Letters : /\ letter[l].box = b /\ Judged(l)
                     /\ letter[l].at > box[b].paused /\ letter[l].at >= box[b].started}

Few ==
    \A b \in Boxes :
      box[b].enabled => Cardinality(Counted(b) \cup Coming(b)) < Bad + Cardinality(Hooks) - 1

LEMMA SmallSets ==
    /\ Cardinality(Hooks) \in Nat /\ Cardinality(Hooks) >= 1
    /\ \A S \in SUBSET Letters : IsFiniteSet(S) /\ Cardinality(S) \in Nat
    /\ \A S, T \in SUBSET Letters : S \subseteq T => Cardinality(S) <= Cardinality(T)
<1>1. \A S \in SUBSET Letters : IsFiniteSet(S) /\ Cardinality(S) \in Nat
  BY BoundAssumption, FS_Subset, FS_CardinalityType
<1>2. ASSUME NEW S \in SUBSET Letters, NEW T \in SUBSET Letters, S \subseteq T
      PROVE  Cardinality(S) <= Cardinality(T)
  BY <1>1, <1>2, FS_Subset
<1>3. Cardinality(Hooks) \in Nat /\ Cardinality(Hooks) # 0
  BY BoundAssumption, FS_CardinalityType, FS_EmptySet
<1> QED
  BY <1>1, <1>2, <1>3

LEMMA CountedSets ==
    ASSUME NEW b \in Boxes
    PROVE  Counted(b) \in SUBSET Letters /\ Coming(b) \in SUBSET Letters /\ Against(b) \in SUBSET Letters
BY DEF Counted, Coming, Against

LEMMA InitFew == Init => Few
<1> SUFFICES ASSUME Init, NEW b \in Boxes
             PROVE  Cardinality(Counted(b) \cup Coming(b)) < Bad + Cardinality(Hooks) - 1
  BY DEF Few
<1>1. Counted(b) = {}
  BY DEF Counted, Against, Init, Fresh
<1>2. Coming(b) = {}
  BY BoundAssumption DEF Coming, Judged, Init, Silent
<1>3. Cardinality(Counted(b) \cup Coming(b)) = 0
  BY <1>1, <1>2, FS_EmptySet
<1> QED
  BY <1>3, SmallSets, BoxAssumption

\* A step that touches only letters which neither bounced against their box nor
\* are held, and leaves the writing boxes their start and their pause.
Mute(l) == ~(letter[l].status = "bounced" /\ letter[l].trouble = "box")

LEMMA QuietStep ==
    ASSUME Few, UNCHANGED hook,
           \A l \in Letters : letter'[l] = letter[l] \/ (Mute(l) /\ Mute(l)' /\ ~Judged(l)),
           \A b \in Boxes : box'[b].enabled => /\ box[b].enabled
                                               /\ box'[b].started = box[b].started
                                               /\ box'[b].paused = box[b].paused
    PROVE  Few'
<1> SUFFICES ASSUME NEW b \in Boxes, box'[b].enabled
             PROVE  Cardinality(Counted(b) \cup Coming(b))' < Bad + Cardinality(Hooks) - 1
  BY DEF Few
<1>1. \A l : Judged(l)' <=> Judged(l)
  BY DEF Judged
<1>2. Counted(b)' = Counted(b)
  BY DEF Counted, Against, Mute
<1>3. Coming(b)' = Coming(b)
  BY <1>1 DEF Coming
<1> QED
  BY <1>2, <1>3 DEF Few

\* The other deliveries hold fewer letters than there are deliveries.
LEMMA OtherDeliveries ==
    ASSUME NEW h \in Hooks
    PROVE  LET held == {l \in Letters : \E g \in Hooks \ {h} : hook[g].letter = l}
           IN  IsFiniteSet(held) /\ Cardinality(held) <= Cardinality(Hooks) - 1
<1> DEFINE G == {g \in Hooks \ {h} : hook[g].letter \in Letters}
           held == {l \in Letters : \E g \in Hooks \ {h} : hook[g].letter = l}
           f == [g \in G |-> hook[g].letter]
<1>1. IsFiniteSet(Hooks \ {h}) /\ Cardinality(Hooks \ {h}) = Cardinality(Hooks) - 1
  BY BoundAssumption, FS_RemoveElement
<1>2. IsFiniteSet(G) /\ Cardinality(G) <= Cardinality(Hooks \ {h})
  <2>1. G \in SUBSET (Hooks \ {h})
    OBVIOUS
  <2> QED
    BY <1>1, <2>1, FS_Subset
<1>3. f \in Surjection(G, held)
  BY DEF Surjection
<1>4. IsFiniteSet(held) /\ Cardinality(held) <= Cardinality(G)
  BY <1>2, <1>3, FS_Surjection
<1>5. Cardinality(held) \in Nat /\ Cardinality(G) \in Nat /\ Cardinality(Hooks \ {h}) \in Nat
  BY <1>1, <1>2, <1>4, FS_CardinalityType
<1> QED
  BY <1>1, <1>2, <1>4, <1>5, SmallSets

LEMMA listenFew ==
    ASSUME Rows, Few, NEW h \in Hooks, NEW l \in Letters, listen(h, l)
    PROVE  Few'
<1> DEFINE b == letter[l].box
<1>1. PICK why \in {"box", "dns"}, at \in EventTime(l) :
        hook' = [hook EXCEPT ![h] =
          [letter |-> l, trouble |-> why, at |-> at,
           pause |-> /\ b # NoBox /\ box[b].enabled
                     /\ _verdict(b, {k \in {l} : why = "box" /\ letter[k].at > box[b].paused})]]
  BY DEF listen
<1>2. /\ letter[l].status = "sent" /\ hook[h] = Silent
      /\ UNCHANGED <<now, letter, box, send, lost, back, history>>
  BY DEF listen
<1>3. \A g \in Hooks : g # h => hook'[g] = hook[g]
  BY <1>1 DEF Rows, TypeOK
<1>4. hook'[h].letter = l
  BY <1>1 DEF Rows, TypeOK
<1>5. hook[h].letter \notin Letters
  BY <1>2, BoundAssumption DEF Silent
<1>6. \A k \in Letters : k # l => (Judged(k)' <=> Judged(k))
  BY <1>3, <1>4, <1>5 DEF Judged
<1> SUFFICES ASSUME NEW c \in Boxes, box'[c].enabled
             PROVE  Cardinality(Counted(c) \cup Coming(c))' < Bad + Cardinality(Hooks) - 1
  BY DEF Few
<1>7. Counted(c)' = Counted(c) /\ box[c].enabled
  BY <1>2 DEF Counted, Against
<1>8. Cardinality(Counted(c) \cup Coming(c)) < Bad + Cardinality(Hooks) - 1
  BY <1>7 DEF Few
<1>9. Coming(c)' \subseteq Coming(c) \cup {l}
  BY <1>2, <1>6 DEF Coming
<1>10. CASE l \notin Coming(c)'
  <2>1. (Counted(c) \cup Coming(c))' \subseteq Counted(c) \cup Coming(c)
    BY <1>7, <1>9, <1>10
  <2>2. Cardinality((Counted(c) \cup Coming(c))') <= Cardinality(Counted(c) \cup Coming(c))
    <3>1. Counted(c) \cup Coming(c) \in SUBSET Letters
      BY CountedSets
    <3> QED
      BY <2>1, <3>1, SmallSets
  <2>3. /\ Cardinality((Counted(c) \cup Coming(c))') \in Nat
        /\ Cardinality(Counted(c) \cup Coming(c)) \in Nat
    <3>1. Counted(c) \cup Coming(c) \in SUBSET Letters
      BY CountedSets
    <3> QED
      BY <2>1, <3>1, SmallSets
  <2> QED
    BY <1>8, <2>2, <2>3, SmallSets, BoxAssumption
<1>11. CASE l \in Coming(c)'
  <2> DEFINE held == {k \in Letters : \E g \in Hooks \ {h} : hook[g].letter = k}
             seen == Against(c) \cup {l}
  <2>1. c = b /\ letter[l].at > box[b].paused /\ Judged(l)'
    BY <1>2, <1>11 DEF Coming
  <2>2. \A g \in Hooks \ {h} : hook'[g].letter # l
    BY <1>3 DEF listen
  <2>3. hook'[h].trouble = "box" /\ ~hook'[h].pause
    BY <2>1, <2>2 DEF Judged
  <2>4. why = "box" /\ ~_verdict(b, {l})
    <3>1. hook'[h].trouble = why
      BY <1>1 DEF Rows, TypeOK
    <3>2. {k \in {l} : why = "box" /\ letter[k].at > box[b].paused} = {l}
      BY <2>1, <2>3, <3>1
    <3>3. hook'[h].pause = (b # NoBox /\ box[b].enabled /\ _verdict(b, {l}))
      BY <1>1, <3>2 DEF Rows, TypeOK
    <3>4. b # NoBox
      BY <2>1, BoxAssumption DEF NoBox
    <3> QED
      BY <1>7, <2>1, <2>3, <3>1, <3>3, <3>4
  <2>5. seen \in SUBSET Letters /\ Cardinality(seen) < Bad
    <3>1. seen \in SUBSET Letters
      BY CountedSets
    <3>2. Cardinality(seen) \in Nat
      BY <3>1, SmallSets
    <3> QED
      BY <2>1, <2>4, <3>1, <3>2, BoxAssumption DEF _verdict
  <2>6. held \in SUBSET Letters /\ Cardinality(held) <= Cardinality(Hooks) - 1
    BY OtherDeliveries
  <2>7. (Counted(c) \cup Coming(c))' \subseteq seen \cup held
    <3>1. Counted(c) \subseteq Against(c)
      BY DEF Counted
    <3>2. Coming(c)' \subseteq held \cup {l}
      BY <1>3, <1>4 DEF Coming, Judged
    <3> QED
      BY <1>7, <3>1, <3>2
  <2> HIDE DEF seen, held
  <2>8. Cardinality(seen \cup held) <= Cardinality(seen) + Cardinality(held)
    <3>1. /\ IsFiniteSet(seen) /\ IsFiniteSet(held) /\ Cardinality(seen) \in Nat
          /\ Cardinality(held) \in Nat /\ Cardinality(seen \cap held) \in Nat
      <4>1. seen \cap held \in SUBSET Letters
        BY <2>5
      <4> QED
        BY <2>5, <2>6, <4>1, SmallSets
    <3>2. Cardinality(seen \cup held)
            = Cardinality(seen) + Cardinality(held) - Cardinality(seen \cap held)
      BY <3>1, FS_Union
    <3> QED
      BY <3>1, <3>2
  <2>9. /\ Cardinality((Counted(c) \cup Coming(c))') <= Cardinality(seen \cup held)
        /\ Cardinality((Counted(c) \cup Coming(c))') \in Nat
        /\ Cardinality(seen \cup held) \in Nat
    <3>1. seen \cup held \in SUBSET Letters
      BY <2>5, <2>6
    <3> QED
      BY <2>7, <3>1, SmallSets
  <2>10. Cardinality(seen) \in Nat /\ Cardinality(held) \in Nat
    BY <2>5, <2>6, SmallSets
  <2> QED
    BY <2>5, <2>6, <2>8, <2>9, <2>10, SmallSets, BoxAssumption
<1> QED
  BY <1>10, <1>11

LEMMA CommitFew ==
    ASSUME Rows, Few, NEW h \in Hooks, Commit(h)
    PROVE  Few'
<1> DEFINE l == hook[h].letter
           b == letter[l].box
<1>1. l \in Letters /\ letter[l].status = "sent"
  BY DEF Commit, Rows, HookRows
<1>2. /\ letter' = [letter EXCEPT ![l].status = "bounced", ![l].trouble = hook[h].trouble]
      /\ hook' = [hook EXCEPT ![h] = Silent]
  BY DEF Commit
<1>3. \A k \in Letters : k # l => letter'[k] = letter[k]
  BY <1>2 DEF Rows, TypeOK
<1>4. /\ letter'[l].trouble = hook[h].trouble
      /\ letter'[l].box = letter[l].box /\ letter'[l].at = letter[l].at
  BY <1>1, <1>2 DEF Rows, TypeOK, Letter
<1>5. \A g \in Hooks : g # h => hook'[g] = hook[g] /\ hook[g].letter # l
  BY <1>1, <1>2 DEF Rows, TypeOK, HookRows
<1>6. hook'[h].letter \notin Letters
  BY <1>2, BoundAssumption DEF Rows, TypeOK, Silent
<1>7. \A k \in Letters : Judged(k)' => Judged(k) /\ k # l
  BY <1>1, <1>5, <1>6 DEF Judged
<1>8. \A c \in Boxes : box'[c] = box[c] \/ ~box'[c].enabled
  <2>1. CASE box' = [box EXCEPT ![b].enabled = FALSE, ![b].paused = Most(@, hook[h].at)]
    <3>1. \A c \in Boxes : c # b => box'[c] = box[c]
      BY <2>1 DEF Rows, TypeOK
    <3>2. b \in Boxes => box'[b].enabled = FALSE
      BY <2>1 DEF Rows, TypeOK, Box
    <3> QED
      BY <3>1, <3>2
  <2> QED
    BY <2>1 DEF Commit
<1> SUFFICES ASSUME NEW c \in Boxes, box'[c].enabled
             PROVE  Cardinality(Counted(c) \cup Coming(c))' < Bad + Cardinality(Hooks) - 1
  BY DEF Few
<1>9. box'[c] = box[c] /\ box[c].enabled
  BY <1>8
<1>10. b = c /\ hook[h].trouble = "box" => ~hook[h].pause
  BY <1>9 DEF Commit, Rows, TypeOK, Box
<1>11. Counted(c)' \subseteq Counted(c) \cup Coming(c)
  <2> SUFFICES ASSUME NEW k \in Counted(c)' PROVE k \in Counted(c) \cup Coming(c)
    OBVIOUS
  <2>1. k \in Letters
    BY DEF Counted, Against
  <2>2. CASE k # l
    BY <1>3, <1>9, <2>1, <2>2 DEF Counted, Against
  <2>3. CASE k = l
    <3>1. b = c /\ hook[h].trouble = "box" /\ letter[l].at > box[c].paused
          /\ letter[l].at >= box[c].started
      BY <1>4, <1>9, <2>3 DEF Counted, Against
    <3>2. Judged(l)
      BY <1>10, <3>1 DEF Judged
    <3> QED
      BY <1>1, <2>3, <3>1, <3>2 DEF Coming
  <2> QED
    BY <2>2, <2>3
<1>12. Coming(c)' \subseteq Coming(c)
  BY <1>3, <1>7, <1>9 DEF Coming
<1>13. (Counted(c) \cup Coming(c))' \subseteq Counted(c) \cup Coming(c)
  BY <1>11, <1>12
<1>14. Cardinality(Counted(c) \cup Coming(c)) < Bad + Cardinality(Hooks) - 1
  BY <1>9 DEF Few
<1>15. Counted(c) \cup Coming(c) \in SUBSET Letters
  BY CountedSets
<1>16. /\ Cardinality((Counted(c) \cup Coming(c))') <= Cardinality(Counted(c) \cup Coming(c))
       /\ Cardinality((Counted(c) \cup Coming(c))') \in Nat
       /\ Cardinality(Counted(c) \cup Coming(c)) \in Nat
  BY <1>13, <1>15, SmallSets
<1> QED
  BY <1>14, <1>16, SmallSets, BoxAssumption

\* A box that is switched on has no letter of this start yet.
LEMMA enableFew ==
    ASSUME Rows, Few, NEW b \in Boxes, enable(b)
    PROVE  Few'
<1> SUFFICES ASSUME NEW c \in Boxes, box'[c].enabled
             PROVE  Cardinality(Counted(c) \cup Coming(c))' < Bad + Cardinality(Hooks) - 1
  BY DEF Few
<1>1. UNCHANGED <<letter, hook>> /\ \A k : Judged(k)' <=> Judged(k)
  BY DEF enable, Judged
<1>2. CASE c = b
  <2>1. box'[c].started = now
    BY <1>2 DEF enable, Rows, TypeOK, Box
  <2>2. \A l \in Letters : letter[l].at < now /\ letter[l].at \in Int
    BY NoMoment DEF enable, Rows, TypeOK, Letter
  <2>3. now \in Int
    BY NoMoment DEF Rows, TypeOK
  <2>4. Counted(c)' = {} /\ Coming(c)' = {}
    BY <1>1, <2>1, <2>2, <2>3 DEF Counted, Coming, Against
  <2>5. Cardinality((Counted(c) \cup Coming(c))') = 0
    BY <2>4, FS_EmptySet
  <2> QED
    BY <2>5, SmallSets, BoxAssumption
<1>3. CASE c # b
  <2>1. box'[c] = box[c]
    BY <1>3 DEF enable, Rows, TypeOK
  <2>2. Counted(c)' = Counted(c) /\ Coming(c)' = Coming(c)
    BY <1>1, <2>1 DEF Counted, Coming, Against
  <2> QED
    BY <2>1, <2>2 DEF Few
<1> QED
  BY <1>2, <1>3

\* A sender, a settlement and a return touch no such letter.
LEMMA OtherFew ==
    ASSUME Rows, Few,
           \/ \E p \in Senders : Sending(p)
           \/ \E l \in Letters : ByEvent(l) \/ _back(l) \/ _return(l)
           \/ Tick
    PROVE  Few'
<1> DEFINE Same(c) == box'[c].started = box[c].started /\ box'[c].paused = box[c].paused
                      /\ box'[c].enabled = box[c].enabled
<1>1. \A l \in Letters : letter[l].status # "sent" => ~Judged(l)
  BY DEF Rows, HookRows, Judged
<1>2. ASSUME NEW a \in Boxes \cup {NoBox}, NEW at, box' = Marked(a, at)
      PROVE  \A c \in Boxes : Same(c)
  BY <1>2 DEF Marked, Rows, TypeOK, Box
<1>3. box' = box => \A c \in Boxes : Same(c)
  OBVIOUS
<1>4. \A l \in Letters : letter[l].box \in Boxes \cup {NoBox}
  BY DEF Rows, TypeOK, Letter
<1>5. ASSUME NEW p \in Senders, Sending(p) PROVE Few'
  <2> DEFINE s == send[p]
  <2>1. hook' = hook
    BY <1>5 DEF Sending, choose, _claim, _settle, Refused, Broken
  <2>2. \A c \in Boxes : Same(c)
    <3>1. s.box \in Boxes \cup {NoBox}
      BY DEF Rows, TypeOK, Send
    <3> QED
      BY <1>2, <1>3, <1>5, <3>1 DEF Sending, choose, _claim, _settle, Refused, Broken
  <2>3. s.at # "idle" => s.letter \in Letters
    BY DEF Rows, OneHander
  <2>4. \A l \in Letters : letter'[l] = letter[l] \/ (Mute(l) /\ Mute(l)' /\ ~Judged(l))
    <3>1. CASE UNCHANGED letter
      BY <3>1
    <3>2. ASSUME s.letter \in Letters, letter[s.letter].status \in {"queued", "sending"},
                 \A l \in Letters : l # s.letter => letter'[l] = letter[l],
                 letter'[s.letter].status # "bounced"
          PROVE  \A l \in Letters : letter'[l] = letter[l] \/ (Mute(l) /\ Mute(l)' /\ ~Judged(l))
      BY <1>1, <3>2 DEF Mute
    <3>3. CASE _claim(p) /\ letter[s.letter].status = "queued"
      <4>1. /\ \A l \in Letters : l # s.letter => letter'[l] = letter[l]
            /\ letter'[s.letter].status # "bounced"
        BY <2>3, <3>3 DEF _claim, Rows, TypeOK, Letter
      <4> QED
        BY <2>3, <3>2, <3>3, <4>1 DEF _claim
    <3>4. CASE _settle(p) \/ Refused(p) \/ (Broken(p) /\ ~UNCHANGED letter)
      <4>1. s.at = "handing" /\ letter[s.letter].status = "sending"
        BY <3>4 DEF _settle, Refused, Broken, Rows, TypeOK
      <4>2. \A l \in Letters : l # s.letter => letter'[l] = letter[l]
        BY <3>4 DEF _settle, Refused, Broken, Rows, TypeOK
      <4>3. letter'[s.letter].status # "bounced"
        BY <2>3, <3>4, <4>1 DEF _settle, Refused, Broken, Rows, TypeOK, Letter
      <4> QED
        BY <2>3, <3>2, <4>1, <4>2, <4>3
    <3> QED
      BY <1>5, <3>1, <3>3, <3>4 DEF Sending, choose, _claim
  <2> QED
    BY <2>1, <2>2, <2>4, QuietStep
<1>6. ASSUME NEW l \in Letters, ByEvent(l) \/ _back(l) \/ _return(l) PROVE Few'
  <2>1. hook' = hook /\ letter[l].status # "sent" /\ Mute(l)
    BY <1>6 DEF ByEvent, _back, _return, Mute
  <2>2. \A c \in Boxes : Same(c)
    BY <1>2, <1>3, <1>4, <1>6 DEF ByEvent, _back, _return
  <2>3. \A k \in Letters : k # l => letter'[k] = letter[k]
    BY <1>6 DEF ByEvent, _back, _return, Rows, TypeOK
  <2>4. letter'[l].status # "bounced"
    BY <1>6 DEF ByEvent, _back, _return, Rows, TypeOK, Letter, Fresh
  <2>5. Mute(l)' /\ ~Judged(l)
    BY <1>1, <2>1, <2>4 DEF Mute
  <2> QED
    BY <2>1, <2>2, <2>3, <2>5, QuietStep
<1>7. CASE Tick
  BY <1>3, <1>7, QuietStep DEF Tick
<1> QED
  BY <1>5, <1>6, <1>7

LEMMA NextFew == Rows /\ Few /\ [Next]_vars => Few'
<1> SUFFICES ASSUME Rows, Few, [Next]_vars PROVE Few'
  OBVIOUS
<1>1. CASE UNCHANGED vars
  BY <1>1, QuietStep DEF vars
<1>2. CASE Next
  BY <1>2, listenFew, CommitFew, enableFew, OtherFew DEF Next
<1> QED
  BY <1>1, <1>2

\* A box that writes never has Bad bounces against it, among the letters gone
\* since it was switched on, and one more for every other delivery that was
\* judging at the same time: each delivery judges before its commit, and a
\* pause is written with the bounce (health._verdict, autopause.pause_once).
THEOREM PauseComesHolds == Spec => []PauseComes
<1>1. Few => PauseComes
  <2> SUFFICES ASSUME Few, NEW b \in Boxes, box[b].enabled
               PROVE  Cardinality(Counted(b)) < Bad + Cardinality(Hooks) - 1
    BY DEF PauseComes, Counted
  <2>1. Counted(b) \cup Coming(b) \in SUBSET Letters
    BY CountedSets
  <2>2. /\ Cardinality(Counted(b)) <= Cardinality(Counted(b) \cup Coming(b))
        /\ Cardinality(Counted(b)) \in Nat /\ Cardinality(Counted(b) \cup Coming(b)) \in Nat
    BY <2>1, SmallSets
  <2> QED
    BY <2>2, SmallSets, BoxAssumption DEF Few
<1> QED
  BY <1>1, InitRows, NextRows, InitFew, NextFew, PTL DEF Spec

-----------------------------------------------------------------------------
(* The warm-up.  What is in hand, and what a delivery or an event speaks of, *)
(* was claimed before now.                                                   *)

Past ==
    \A l \in Letters : /\ letter[l].at <= now /\ letter[l].taken <= now
                       /\ letter[l].status # "queued" => letter[l].at # NEVER

LEMMA Moments ==
    ASSUME TypeOK
    PROVE  /\ now \in Int /\ now >= 0
           /\ \A l \in Letters : /\ letter[l].at \in Int /\ letter[l].at >= NEVER
                                 /\ letter[l].taken \in Int /\ letter[l].taken >= NEVER
                                 /\ letter[l].at \in Moment /\ letter[l].taken \in Moment
           /\ \A b \in Boxes : /\ box[b].first \in Int /\ box[b].first >= NEVER
                               /\ box[b].started \in Int /\ box[b].started >= NEVER
                               /\ woke[b] \in Int /\ woke[b] >= NEVER
<1>1. \A m \in Moment : m \in Int /\ m >= NEVER
  BY BoundAssumption DEF Moment, Time, NEVER
<1> QED
  BY <1>1, BoundAssumption DEF TypeOK, Letter, Box, Time

LEMMA PastInit == Init => Past
BY DEF Init, Past, Fresh, NEVER

\* What each step does to the times of a letter.
Moves(l) ==
    /\ letter'[l].at \in {letter[l].at, now, NEVER}
    /\ letter'[l].taken \in {letter[l].taken, now, NEVER}
    /\ letter'[l].status # "queued" =>
         letter'[l].at = now \/ (letter'[l].at = letter[l].at /\ letter[l].status # "queued")

LEMMA LetterMoves ==
    ASSUME Rows, Next, NEW l \in Letters
    PROVE  Moves(l)
<1>0. letter[l] \in Letter /\ letter \in [Letters -> Letter]
  BY DEF Rows, TypeOK
<1>1. ASSUME NEW p \in Senders, Sending(p)
      PROVE  Moves(l)
  <2>1. CASE UNCHANGED letter
    BY <2>1 DEF Moves
  <2>2. CASE send[p].letter # l
    BY <1>0, <1>1, <2>2 DEF Sending, choose, _claim, _settle, Refused, Broken, Moves
  <2>3. CASE send[p].letter = l
    <3>1. CASE _claim(p)
      BY <1>0, <2>1, <2>3, <3>1 DEF _claim, Moves, Letter
    <3>2. CASE _settle(p)
      BY <1>0, <2>3, <3>2 DEF _settle, Moves, Letter
    <3>3. CASE Refused(p)
      BY <1>0, <2>3, <3>3 DEF Refused, Moves, Letter
    <3>4. CASE Broken(p)
      <4>1. letter[l].status = "sending"
        BY <2>3, <3>4 DEF Broken, Rows, TypeOK
      <4> QED
        BY <1>0, <2>1, <2>3, <3>4, <4>1 DEF Broken, Moves, Letter
    <3> QED
      BY <1>1, <2>1, <3>1, <3>2, <3>3, <3>4 DEF Sending, choose
  <2> QED
    BY <2>2, <2>3
<1>2. ASSUME NEW k \in Letters, ByEvent(k) \/ _back(k) \/ _return(k)
      PROVE  Moves(l)
  <2>1. CASE k # l
    BY <1>0, <1>2, <2>1 DEF ByEvent, _back, _return, Moves
  <2>2. CASE ByEvent(l)
    BY <1>0, <2>2 DEF ByEvent, Letter, Moves
  <2>3. CASE _back(l)
    BY <1>0, <2>3 DEF _back, Letter, Moves
  <2>4. CASE _return(l)
    BY <1>0, <2>4 DEF _return, Fresh, Moves
  <2> QED
    BY <1>2, <2>1, <2>2, <2>3, <2>4
<1>3. ASSUME NEW h \in Hooks, Commit(h)
      PROVE  Moves(l)
  <2>1. CASE hook[h].letter # l
    BY <1>0, <1>3, <2>1 DEF Commit, Moves
  <2>2. CASE hook[h].letter = l
    <3>1. letter[l].status = "sent"
      BY <2>2 DEF Rows, HookRows
    <3> QED
      BY <1>0, <1>3, <2>2, <3>1 DEF Commit, Moves, Letter
  <2> QED
    BY <2>1, <2>2
<1>4. CASE UNCHANGED letter
  BY <1>4 DEF Moves
<1> QED
  BY <1>1, <1>2, <1>3, <1>4 DEF Next, Tick, enable, listen

LEMMA PastNext == Rows /\ Past /\ [Next]_vars => Past'
<1> SUFFICES ASSUME Rows, Past, [Next]_vars PROVE Past'
  OBVIOUS
<1>1. CASE UNCHANGED vars
  BY <1>1 DEF vars, Past
<1>2. CASE Next
  <2>1. now <= now' /\ now' \in Int
    <3>1. now' = now \/ Tick
      BY <1>2 DEF Next, Sending, choose, _claim, _settle, Refused, Broken, ByEvent, _back, _return,
         Commit, listen, enable
    <3> QED
      BY <3>1, Moments DEF Rows, Tick
  <2>2. ASSUME NEW l \in Letters
        PROVE  /\ letter'[l].at <= now' /\ letter'[l].taken <= now'
               /\ letter'[l].status # "queued" => letter'[l].at # NEVER
    <3>1. /\ letter[l].at <= now /\ letter[l].taken <= now
          /\ letter[l].status # "queued" => letter[l].at # NEVER
      BY DEF Past
    <3>2. Moves(l)
      BY <1>2, LetterMoves
    <3> QED
      BY <2>1, <3>1, <3>2, Moments DEF Rows, NEVER, Moves
  <2> QED
    BY <2>2 DEF Past
<1> QED
  BY <1>1, <1>2

\* While nothing is put back: a letter that is taken keeps its claim, and the warm-up is
\* counted from no day before one of those.
TakenStay == \A l \in Letters : letter[l].taken # NEVER => letter[l].status # "queued" /\ ~Handing(l)

Heard(b) ==
    \A l \in Letters :
      /\ letter[l].status = "sending" /\ letter[l].taken # NEVER /\ letter[l].box = b
      /\ box[b].started # NEVER /\ box[b].started <= letter[l].at
      => woke[b] # NEVER /\ woke[b] <= letter[l].at

FromFirst(b) == first_letter(b) # NEVER => woke[b] # NEVER /\ woke[b] <= box[b].first

Woken == back = 0 => TakenStay /\ \A b \in Boxes : Heard(b) /\ FromFirst(b)

\* A box whose row and history stay, while its letters keep their claims.
LEMMA HeardStill ==
    ASSUME NEW b \in Boxes, Heard(b), FromFirst(b), woke'[b] = woke[b],
           box'[b].started = box[b].started, box'[b].first = box[b].first,
           \A l \in Letters :
             letter'[l].status = "sending" /\ letter'[l].taken # NEVER =>
               /\ letter[l].status = "sending" /\ letter[l].taken # NEVER
               /\ letter'[l].box = letter[l].box /\ letter'[l].at = letter[l].at
    PROVE  Heard(b)' /\ FromFirst(b)'
<1>1. Heard(b)'
  BY DEF Heard
<1>2. FromFirst(b)'
  BY DEF FromFirst, first_letter
<1> QED
  BY <1>1, <1>2

\* A letter is taken: the history hears of its claim.
LEMMA HeardTaken ==
    ASSUME Rows, Past, NEW l \in Letters, NEW c, Taken(l, c), NEW b \in Boxes,
           letter[l].status # "queued"
    PROVE  /\ b # c => woke'[b] = woke[b]
           /\ b = c => woke'[b] # NEVER /\ woke'[b] <= letter[l].at
                       /\ (woke[b] # NEVER => woke'[b] <= woke[b])
<1>1. letter[l].at \in Int /\ woke[b] \in Int /\ letter[l].at # NEVER
  BY Moments DEF Rows, Past
<1> QED
  BY <1>1 DEF Taken, Least, Rows, TypeOK

\* What a mark changes: the first letter of a box in a warm-up without one.
LEMMA MarkedRow ==
    ASSUME TypeOK, NEW c \in Boxes \cup {NoBox}, NEW at, box' = Marked(c, at), NEW b \in Boxes
    PROVE  /\ box'[b].started = box[b].started /\ box'[b].enabled = box[b].enabled
           /\ \/ box'[b].first = box[b].first
              \/ /\ b = c /\ box'[b].first = at /\ box[b].started # NEVER /\ box[b].started <= at
                 /\ box[b].first < box[b].started
BY DEF Marked, TypeOK, Box

\* A box one of whose letters is taken: the history has heard of it.
LEMMA HeardMore ==
    ASSUME Rows, NEW b \in Boxes, Heard(b), FromFirst(b),
           woke[b] # NEVER => woke'[b] # NEVER /\ woke'[b] <= woke[b],
           woke'[b] \in Int,
           box'[b].started = box[b].started,
           \/ box'[b].first = box[b].first
           \/ woke'[b] # NEVER /\ woke'[b] <= box'[b].first,
           \A l \in Letters :
             letter'[l].status = "sending" /\ letter'[l].taken # NEVER /\ letter'[l].box = b =>
               \/ /\ letter[l].status = "sending" /\ letter[l].taken # NEVER
                  /\ letter'[l].box = letter[l].box /\ letter'[l].at = letter[l].at
               \/ woke'[b] # NEVER /\ woke'[b] <= letter'[l].at
    PROVE  Heard(b)' /\ FromFirst(b)'
<1>1. Heard(b)'
  <2> SUFFICES ASSUME NEW l \in Letters, letter'[l].status = "sending", letter'[l].taken # NEVER,
                      letter'[l].box = b, box'[b].started # NEVER, box'[b].started <= letter'[l].at
               PROVE  woke'[b] # NEVER /\ woke'[b] <= letter'[l].at
    BY DEF Heard
  <2>1. CASE woke'[b] # NEVER /\ woke'[b] <= letter'[l].at
    BY <2>1
  <2>2. CASE /\ letter[l].status = "sending" /\ letter[l].taken # NEVER
             /\ letter'[l].box = letter[l].box /\ letter'[l].at = letter[l].at
    <3>1. woke[b] # NEVER /\ woke[b] <= letter[l].at
      BY <2>2 DEF Heard
    <3>2. woke[b] \in Int /\ letter[l].at \in Int
      BY Moments DEF Rows
    <3> QED
      BY <2>2, <3>1, <3>2
  <2> QED
    BY <2>1, <2>2
<1>2. FromFirst(b)'
  <2> SUFFICES ASSUME first_letter(b)' # NEVER
               PROVE  woke'[b] # NEVER /\ woke'[b] <= box'[b].first
    BY DEF FromFirst
  <2>1. CASE box'[b].first = box[b].first
    <3>1. first_letter(b) # NEVER
      BY <2>1 DEF first_letter
    <3>2. woke[b] # NEVER /\ woke[b] <= box[b].first
      BY <3>1 DEF FromFirst
    <3>3. woke[b] \in Int /\ box[b].first \in Int
      BY Moments DEF Rows
    <3> QED
      BY <2>1, <3>2, <3>3
  <2> QED
    BY <2>1
<1> QED
  BY <1>1, <1>2

LEMMA WokenInit == Init => Woken
BY BoxAssumption DEF Init, Woken, TakenStay, Heard, FromFirst, first_letter, Fresh, NEVER

LEMMA WokenSender ==
    ASSUME Rows, Rows', Past, back = 0, TakenStay, \A b \in Boxes : Heard(b) /\ FromFirst(b),
           NEW p \in Senders, Sending(p)
    PROVE  TakenStay' /\ \A b \in Boxes : Heard(b)' /\ FromFirst(b)'
<1> DEFINE s == send[p]
           l == s.letter
<1>0. /\ letter \in [Letters -> Letter] /\ send \in [Senders -> Send]
      /\ box \in [Boxes -> Box] /\ s.box \in Boxes \cup {NoBox}
      /\ s.at # "idle" => l \in Letters
      /\ Rest.at = "idle"
  BY DEF Rows, TypeOK, OneHander, Send, Rest
<1>1. \A q \in Senders : q # p => send'[q] = send[q]
  BY <1>0 DEF Sending, choose, _claim, _settle, Refused, Broken
\* A step that leaves the boxes and the history of the boxes alone.
<1>2. ASSUME UNCHANGED <<box, woke>>,
             \A k \in Letters :
               letter'[k].status = "sending" /\ letter'[k].taken # NEVER =>
                 /\ letter[k].status = "sending" /\ letter[k].taken # NEVER
                 /\ letter'[k].box = letter[k].box /\ letter'[k].at = letter[k].at
      PROVE  \A b \in Boxes : Heard(b)' /\ FromFirst(b)'
  BY <1>2, HeardStill
<1>3. ASSUME NEW k, choose(p, k) PROVE TakenStay' /\ \A b \in Boxes : Heard(b)' /\ FromFirst(b)'
  <2>1. UNCHANGED <<letter, box, woke>> /\ send'[p].at = "chosen" /\ send[p].at = "idle"
    BY <1>0, <1>3 DEF choose, history
  <2>2. \A m \in Letters : Handing(m)' => Handing(m)
    BY <1>1, <2>1 DEF Handing
  <2> QED
    BY <1>2, <2>1, <2>2 DEF TakenStay
<1>4. CASE _claim(p)
  <2>1. CASE letter[l].status = "queued"
    <3>1. l \in Letters /\ letter[l].taken = NEVER
      BY <1>0, <1>4, <2>1 DEF _claim, TakenStay
    <3>2. /\ \A k \in Letters : k # l => letter'[k] = letter[k]
          /\ letter'[l].taken = NEVER
          /\ UNCHANGED <<box, woke>> /\ send'[p].letter = l
      BY <1>0, <1>4, <2>1, <3>1 DEF _claim, Letter, Send, history
    <3>3. \A k \in Letters : k # l /\ Handing(k)' => Handing(k)
      BY <1>1, <3>2 DEF Handing
    <3>4. TakenStay'
      BY <3>2, <3>3 DEF TakenStay
    <3> QED
      BY <1>2, <3>2, <3>4
  <2>2. CASE letter[l].status # "queued"
    <3>1. UNCHANGED <<letter, box, woke>> /\ send'[p].at = "idle"
      BY <1>0, <1>4, <2>2 DEF _claim, history
    <3>2. \A k \in Letters : Handing(k)' => Handing(k)
      BY <1>1, <3>1 DEF Handing
    <3> QED
      BY <1>2, <3>1, <3>2 DEF TakenStay
  <2> QED
    BY <2>1, <2>2
\* The letter leaves the hand.
<1>5. ASSUME s.at = "handing", send' = [send EXCEPT ![p] = Rest]
      PROVE  /\ l \in Letters /\ letter[l].status = "sending" /\ letter[l].taken = NEVER
             /\ letter[l].at \in Int /\ letter[l].at <= now /\ letter[l].box = s.box
             /\ \A k \in Letters : Handing(k)' => Handing(k) /\ k # l
  <2>1. send'[p].at = "idle"
    BY <1>0, <1>5
  <2>2. l \in Letters /\ letter[l].status = "sending" /\ Handing(l) /\ letter[l].box = s.box
    BY <1>0, <1>5 DEF Rows, TypeOK, Handing
  <2>3. \A q \in Senders : q # p /\ send[q].at = "handing" => send[q].letter # l
    BY <1>5 DEF Rows, OneHander
  <2>4. \A k \in Letters : Handing(k)' => Handing(k) /\ k # l
    BY <1>1, <2>1, <2>3 DEF Handing
  <2>5. letter[l].taken = NEVER
    BY <2>2 DEF TakenStay
  <2> QED
    BY <2>2, <2>4, <2>5, Moments DEF Past, Rows
<1>6. CASE Refused(p)
  <2>1. s.at = "handing" /\ send' = [send EXCEPT ![p] = Rest] /\ UNCHANGED <<box, woke>>
    BY <1>6 DEF Refused, history
  <2>2. \A k \in Letters : k # l => letter'[k] = letter[k]
    BY <1>0, <1>6 DEF Refused
  <2>3. letter'[l].taken = NEVER /\ letter'[l].status = "queued"
    BY <1>0, <1>5, <1>6, <2>1 DEF Refused, Letter
  <2>4. TakenStay'
    BY <1>5, <2>1, <2>2, <2>3 DEF TakenStay
  <2> QED
    BY <1>2, <2>1, <2>2, <2>3, <2>4
<1>7. ASSUME s.at = "handing", send' = [send EXCEPT ![p] = Rest], Taken(l, s.box),
             \A k \in Letters : k # l => letter'[k] = letter[k],
             letter'[l].status # "queued", 
             letter'[l].status = "sending" => letter'[l].at = letter[l].at /\ letter'[l].box = s.box,
             box' = box \/ box' = Marked(s.box, now)
      PROVE  TakenStay' /\ \A b \in Boxes : Heard(b)' /\ FromFirst(b)'
  <2>1. TakenStay'
    BY <1>5, <1>7 DEF TakenStay
  <2>2. ASSUME NEW b \in Boxes PROVE Heard(b)' /\ FromFirst(b)'
    <3>1. /\ box'[b].started = box[b].started
          /\ box'[b].first = box[b].first \/ (b = s.box /\ box'[b].first = now)
      BY <1>0, <1>7, MarkedRow DEF Rows
    <3>2. /\ b # s.box => woke'[b] = woke[b]
          /\ b = s.box => woke'[b] # NEVER /\ woke'[b] <= letter[l].at
                          /\ (woke[b] # NEVER => woke'[b] <= woke[b])
      BY <1>5, <1>7, HeardTaken
    <3>3. woke'[b] \in Int /\ woke[b] \in Int /\ now \in Int
      <4>1. TypeOK /\ TypeOK'
        BY DEF Rows
      <4>2. woke' \in [Boxes -> Moment]
        BY <4>1 DEF TypeOK
      <4> QED
        BY <4>1, <4>2, Moments, NoMoment
    <3>4. letter[l].at \in Int /\ letter[l].at <= now
      BY <1>5, <1>7
    <3>5. woke[b] # NEVER => woke'[b] # NEVER /\ woke'[b] <= woke[b]
      BY <3>2, <3>3
    <3>6. \/ box'[b].first = box[b].first
          \/ woke'[b] # NEVER /\ woke'[b] <= box'[b].first
      BY <3>1, <3>2, <3>3, <3>4
    <3>7. ASSUME NEW k \in Letters, letter'[k].status = "sending", letter'[k].taken # NEVER,
                 letter'[k].box = b
          PROVE  \/ /\ letter[k].status = "sending" /\ letter[k].taken # NEVER
                    /\ letter'[k].box = letter[k].box /\ letter'[k].at = letter[k].at
                 \/ woke'[b] # NEVER /\ woke'[b] <= letter'[k].at
      <4>1. CASE k # l
        BY <1>7, <3>7, <4>1
      <4>2. CASE k = l
        BY <1>7, <3>2, <3>7, <4>2
      <4> QED
        BY <4>1, <4>2
    <3> QED
      BY <3>1, <3>3, <3>5, <3>6, <3>7, HeardMore
  <2> QED
    BY <2>1, <2>2
<1>8. CASE _settle(p)
  <2>1. /\ s.at = "handing" /\ send' = [send EXCEPT ![p] = Rest] /\ Taken(l, s.box)
        /\ box' = Marked(s.box, now)
    BY <1>8 DEF _settle
  <2>2. /\ \A k \in Letters : k # l => letter'[k] = letter[k]
        /\ letter'[l].status = "sent"
    BY <1>0, <1>8, <2>1 DEF _settle, Letter
  <2> QED
    BY <1>7, <2>1, <2>2
<1>9. CASE Broken(p)
  <2>1. s.at = "handing" /\ send' = [send EXCEPT ![p] = Rest] /\ box' = box
    BY <1>9 DEF Broken
  <2>2. CASE UNCHANGED <<letter, mailed, woke>>
    BY <1>2, <1>5, <2>1, <2>2 DEF TakenStay
  <2>3. CASE letter' = [letter EXCEPT ![l].taken = now] /\ Taken(l, s.box)
    <3>1. /\ \A k \in Letters : k # l => letter'[k] = letter[k]
          /\ letter'[l].status = letter[l].status /\ letter'[l].at = letter[l].at
          /\ letter'[l].box = letter[l].box
      BY <1>0, <2>1, <2>3 DEF Letter
    <3> QED
      BY <1>5, <1>7, <2>1, <2>3, <3>1
  <2> QED
    BY <1>9, <2>2, <2>3 DEF Broken
<1> QED
  BY <1>3, <1>4, <1>6, <1>8, <1>9 DEF Sending

LEMMA WokenOther ==
    ASSUME Rows, back = 0, back' = 0, TakenStay, \A b \in Boxes : Heard(b) /\ FromFirst(b),
           \/ \E l \in Letters : ByEvent(l) \/ _back(l) \/ _return(l)
           \/ \E h \in Hooks : Commit(h) \/ \E l \in Letters : listen(h, l)
           \/ \E b \in Boxes : enable(b)
           \/ Tick
    PROVE  TakenStay' /\ \A b \in Boxes : Heard(b)' /\ FromFirst(b)'
<1>0. /\ letter \in [Letters -> Letter] /\ box \in [Boxes -> Box]
  BY DEF Rows, TypeOK
<1>1. ASSUME NEW l \in Letters, ByEvent(l) PROVE TakenStay' /\ \A b \in Boxes : Heard(b)' /\ FromFirst(b)'
  <2>1. letter[l].taken # NEVER /\ letter[l].status = "sending" /\ send' = send /\ woke' = woke
    BY <1>1 DEF ByEvent, TakenStay, history
  <2>2. /\ letter' = [letter EXCEPT ![l].status = "sent", ![l].at = letter[l].at]
        /\ box' = Marked(letter[l].box, letter[l].at)
    BY <1>1, <2>1 DEF ByEvent
  <2>3. /\ \A k \in Letters : k # l => letter'[k] = letter[k]
        /\ letter'[l].status = "sent"
    BY <1>0, <2>2 DEF Letter
  <2>4. TakenStay'
    BY <2>1, <2>3 DEF TakenStay, Handing
  <2>5. ASSUME NEW b \in Boxes PROVE Heard(b)' /\ FromFirst(b)'
    <3>1. letter[l].box \in Boxes \cup {NoBox}
      BY <1>0 DEF Letter
    <3>2. /\ box'[b].started = box[b].started
          /\ \/ box'[b].first = box[b].first
             \/ /\ b = letter[l].box /\ box'[b].first = letter[l].at
                /\ box[b].started # NEVER /\ box[b].started <= letter[l].at
      BY <2>2, <3>1, MarkedRow DEF Rows
    <3>3. \/ box'[b].first = box[b].first
          \/ woke'[b] # NEVER /\ woke'[b] <= box'[b].first
      BY <2>1, <3>2 DEF Heard
    <3>4. woke'[b] \in Int /\ woke[b] \in Int
      BY <2>1, Moments DEF Rows
    <3>5. woke[b] # NEVER => woke'[b] # NEVER /\ woke'[b] <= woke[b]
      BY <2>1, <3>4
    <3>6. \A k \in Letters :
             letter'[k].status = "sending" /\ letter'[k].taken # NEVER /\ letter'[k].box = b =>
               /\ letter[k].status = "sending" /\ letter[k].taken # NEVER
               /\ letter'[k].box = letter[k].box /\ letter'[k].at = letter[k].at
      BY <2>3
    <3> QED
      BY <3>2, <3>3, <3>4, <3>5, <3>6, HeardMore
  <2> QED
    BY <2>4, <2>5
<1>2. ASSUME NEW l \in Letters, _back(l) \/ _return(l) PROVE FALSE
  BY <1>2 DEF _back, _return
<1>3. ASSUME UNCHANGED <<send, woke>>,
             \A b \in Boxes : box'[b].started = box[b].started /\ box'[b].first = box[b].first,
             \A k \in Letters : letter'[k] = letter[k]
                                \/ (letter[k].status = "sent" /\ letter'[k].status = "bounced")
      PROVE  TakenStay' /\ \A b \in Boxes : Heard(b)' /\ FromFirst(b)'
  <2>1. \A k \in Letters : Handing(k)' <=> Handing(k)
    BY <1>3 DEF Handing
  <2>2. ASSUME NEW k \in Letters, letter'[k].taken # NEVER
        PROVE  letter'[k].status # "queued" /\ ~Handing(k)'
    <3>1. CASE letter'[k] = letter[k]
      BY <2>1, <2>2, <3>1 DEF TakenStay
    <3>2. CASE letter[k].status = "sent" /\ letter'[k].status = "bounced"
      BY <2>1, <3>2 DEF Rows, TypeOK, Handing
    <3> QED
      BY <1>3, <3>1, <3>2
  <2>3. TakenStay'
    BY <2>2 DEF TakenStay
  <2>4. \A k \in Letters :
          letter'[k].status = "sending" => letter'[k] = letter[k]
    BY <1>3
  <2> QED
    BY <1>3, <2>3, <2>4, HeardStill
<1>4. ASSUME NEW h \in Hooks, Commit(h) PROVE TakenStay' /\ \A b \in Boxes : Heard(b)' /\ FromFirst(b)'
  <2>1. hook[h].letter \in Letters /\ letter[hook[h].letter].status = "sent"
    BY <1>4 DEF Commit, Rows, HookRows
  <2>2. /\ \A k \in Letters : k # hook[h].letter => letter'[k] = letter[k]
        /\ letter'[hook[h].letter].status = "bounced"
    BY <1>0, <1>4, <2>1 DEF Commit, Letter
  <2>3. \A b \in Boxes : box'[b].started = box[b].started /\ box'[b].first = box[b].first
    BY <1>0, <1>4 DEF Commit, Box
  <2>4. UNCHANGED <<send, woke>>
    BY <1>4 DEF Commit, history
  <2> QED
    BY <1>3, <2>1, <2>2, <2>3, <2>4
<1>5. ASSUME NEW c \in Boxes, enable(c) PROVE TakenStay' /\ \A b \in Boxes : Heard(b)' /\ FromFirst(b)'
  <2>1. UNCHANGED <<letter, send>>
    BY <1>5 DEF enable
  <2>2. TakenStay'
    BY <2>1 DEF TakenStay, Handing
  <2>3. ASSUME NEW b \in Boxes, b # c PROVE Heard(b)' /\ FromFirst(b)'
    <3>1. box'[b] = box[b] /\ woke'[b] = woke[b]
      BY <1>0, <1>5, <2>3 DEF enable, Rows, TypeOK
    <3> QED
      BY <2>1, <3>1, HeardStill
  <2>4. Heard(c)' /\ FromFirst(c)'
    <3>1. box'[c].started = now /\ box'[c].first = NEVER
      BY <1>0, <1>5 DEF enable, Box
    <3>2. now \in Int /\ now >= 0 /\ \A l \in Letters : letter[l].at \in Int /\ letter[l].at < now
      BY <1>5, Moments DEF enable, Rows
    <3>3. Heard(c)'
      BY <2>1, <3>1, <3>2 DEF Heard
    <3>4. first_letter(c)' = NEVER
      BY <3>1, <3>2 DEF first_letter, NEVER
    <3> QED
      BY <3>3, <3>4 DEF FromFirst
  <2> QED
    BY <2>2, <2>3, <2>4
<1>6. CASE Tick \/ \E h \in Hooks, l \in Letters : listen(h, l)
  <2>1. UNCHANGED <<send, woke, box, letter>>
    BY <1>6 DEF Tick, listen, history
  <2> QED
    BY <1>3, <2>1
<1> QED
  BY <1>1, <1>2, <1>4, <1>5, <1>6

LEMMA WokenNext == Rows /\ Past /\ Woken /\ [Next]_vars => Woken'
<1> SUFFICES ASSUME Rows, Past, Woken, [Next]_vars, back' = 0
             PROVE  TakenStay' /\ \A b \in Boxes : Heard(b)' /\ FromFirst(b)'
  BY DEF Woken
<1>1. CASE UNCHANGED vars
  <2>1. back = 0
    BY <1>1 DEF vars
  <2> QED
    BY <1>1, <2>1 DEF vars, history, Woken, TakenStay, Handing, Heard, FromFirst, first_letter
<1>2. CASE Next
  <2>1. back = 0
    <3>1. back \in Nat
      BY BoundAssumption DEF Rows, TypeOK
    <3>2. back' = back \/ back' = back + 1
      BY <1>2 DEF Next, Sending, choose, _claim, _settle, Refused, Broken, ByEvent, _back, _return,
         Commit, listen, enable, Tick
    <3> QED
      BY <3>1, <3>2
  <2>2. Rows'
    BY NextRows
  <2>3. TakenStay /\ \A b \in Boxes : Heard(b) /\ FromFirst(b)
    BY <2>1 DEF Woken
  <2>4. CASE \E p \in Senders : Sending(p)
    BY <2>1, <2>2, <2>3, <2>4, WokenSender
  <2>5. CASE ~\E p \in Senders : Sending(p)
    BY <1>2, <2>1, <2>3, <2>5, WokenOther DEF Next
  <2> QED
    BY <2>4, <2>5
<1> QED
  BY <1>1, <1>2

LEMMA LeastOne == \A n \in Nat : n >= 1 => Least(1, n) = 1
BY DEF Least

\* A later moment is not of an earlier day.
LEMMA DaysGrow ==
    ASSUME NEW x \in Int, NEW y \in Int, x <= y
    PROVE  Day(x) \in Int /\ Day(y) \in Int /\ Day(x) <= Day(y)
BY BoundAssumption DEF Day

\* A box in its warm-up has more than the first step only on a day after the claim of
\* a letter the platform took, as long as no letter is put back into the queue: the
\* days are counted from the mark of the first letter, and a mark is set for a letter
\* of this warm-up only (warmup_state, mark_first_letter).
THEOREM WarmsByWritingHolds == Spec => []WarmsByWriting
<1>1. TypeOK /\ Woken => WarmsByWriting
  <2> SUFFICES ASSUME TypeOK, Woken, back = 0, NEW b \in Boxes, box[b].started # NEVER,
                      warmup_state(b) > Steps[1]
               PROVE  woke[b] # NEVER /\ Day(woke[b]) < Day(now)
    BY DEF WarmsByWriting
  <2> DEFINE f == first_letter(b)
             day == IF f = NEVER THEN 1 ELSE Most(1, Day(now) - Day(f) + 1)
  <2>1. warmup_state(b) = Least(DailyCap, Steps[Least(day, Len(Steps))])
    BY DEF warmup_state
  <2>2. Len(Steps) \in Nat /\ Len(Steps) >= 1 /\ Steps[1] \in Nat
    BY BoxAssumption
  <2>3. day # 1
    <3> SUFFICES ASSUME day = 1 PROVE FALSE
      OBVIOUS
    <3>1. Least(1, Len(Steps)) = 1
      BY <2>2, LeastOne
    <3>2. warmup_state(b) = Least(DailyCap, Steps[1])
      BY <2>1, <3>1
    <3>3. DailyCap \in Nat
      BY BoxAssumption
    <3> HIDE DEF day
    <3> QED
      BY <2>2, <3>2, <3>3 DEF Least
  <2>4. f # NEVER /\ f = box[b].first /\ day = Most(1, Day(now) - Day(f) + 1)
    BY <2>3 DEF first_letter
  <2>5. woke[b] # NEVER /\ woke[b] <= f
    BY <2>4 DEF Woken, FromFirst
  <2>6. woke[b] \in Int /\ f \in Int /\ now \in Int
    BY <2>4, Moments
  <2>7. Day(woke[b]) \in Int /\ Day(f) \in Int /\ Day(now) \in Int /\ Day(woke[b]) <= Day(f)
    BY <2>5, <2>6, DaysGrow
  <2>8. Day(f) < Day(now)
    BY <2>3, <2>4, <2>7 DEF Most
  <2> QED
    BY <2>5, <2>7, <2>8
<1>2. Init => Rows /\ Past /\ Woken
  BY InitRows, PastInit, WokenInit
<1>3. Rows /\ Past /\ Woken /\ [Next]_vars => (Rows /\ Past /\ Woken)'
  BY NextRows, PastNext, WokenNext
<1>4. Rows => TypeOK
  BY DEF Rows
<1> QED
  BY <1>1, <1>2, <1>3, <1>4, PTL DEF Spec

-----------------------------------------------------------------------------
(* The limits of a day.  A place that was used is held by a letter, or has   *)
(* been freed; so what is counted today bounds what was given, and whoever   *)
(* chooses a box has found a place.  From the choice on a sender counts as   *)
(* well: a limit is exceeded by the other senders, who had counted before.   *)

\* Letters taken today that hold their place.
Stands(S) ==
    {l \in Letters : /\ letter[l].box \in S /\ letter[l].status # "queued"
                     /\ letter[l].taken # NEVER /\ Day(letter[l].taken) = Day(now)
                     /\ ~Handing(l)}

\* The letters that are counted today.
Away(S) ==
    {l \in Letters : letter[l].box \in S /\ letter[l].status # "queued" /\ Day(letter[l].at) = Day(now)}

\* What is given today, or under way.
Used(S) == Given(S) + Cardinality(UnderWay(S))

\* Used places are held or free again.
Placed(S) == Given(S) <= Total(freed, S) + Cardinality(Stands(S))

Within(S, limit) == Used(S) <= limit + Others + Uncounted(S)

\* A letter in hand was claimed after it was last taken, and by a box that had a place.
Chosen ==
    \A p \in Senders : send[p].at # "idle" =>
        /\ send[p].box \in Boxes /\ 0 < DailyCap /\ 0 < DomainLimit /\ 0 < Direction
        /\ send[p].at = "handing" =>
             letter[send[p].letter].taken <= letter[send[p].letter].at

Allowed(b) == Most(warmup_state(b), before[b])

Limited ==
    /\ Chosen
    /\ \A S \in SUBSET Boxes : Placed(S)
    /\ \A b \in Boxes : Within({b}, Allowed(b)) /\ Within(Siblings(b), DomainLimit)
    /\ Within(Boxes, Direction)

LEMMA SenderSets ==
    /\ Cardinality(Senders) \in Nat /\ Cardinality(Senders) >= 1 /\ Others \in Nat
    /\ \A T \in SUBSET Senders : /\ IsFiniteSet(T) /\ Cardinality(T) \in Nat
                                 /\ Cardinality(T) <= Cardinality(Senders)
    /\ \A T \in SUBSET Senders : \A p \in T : Cardinality(T \ {p}) = Cardinality(T) - 1
<1>1. /\ Cardinality(Senders) \in Nat /\ Cardinality(Senders) # 0
  BY BoundAssumption, FS_CardinalityType, FS_EmptySet
<1>2. \A T \in SUBSET Senders : /\ IsFiniteSet(T) /\ Cardinality(T) \in Nat
                                /\ Cardinality(T) <= Cardinality(Senders)
  BY BoundAssumption, FS_Subset, FS_CardinalityType
<1>3. \A T \in SUBSET Senders : \A p \in T : Cardinality(T \ {p}) = Cardinality(T) - 1
  BY <1>2, FS_RemoveElement
<1> QED
  BY <1>1, <1>2, <1>3 DEF Others

LEMMA SenderPart ==
    ASSUME NEW T \in SUBSET Senders, NEW U \in SUBSET T
    PROVE  Cardinality(U) <= Cardinality(T)
BY SenderSets, FS_Subset

\* One letter more, one letter less.
LEMMA LetterAdded ==
    ASSUME NEW T \in SUBSET Letters, NEW l \in Letters \ T
    PROVE  Cardinality(T \cup {l}) = Cardinality(T) + 1
BY SmallSets, FS_AddElement

LEMMA LetterTaken ==
    ASSUME NEW T \in SUBSET Letters, NEW l
    PROVE  Cardinality(T) <= Cardinality(T \ {l}) + 1
<1>1. CASE l \in T
  BY <1>1, SmallSets, FS_RemoveElement
<1>2. CASE l \notin T
  <2>1. T \ {l} = T
    BY <1>2
  <2> QED
    BY <2>1, SmallSets
<1> QED
  BY <1>1, <1>2

LEMMA DayTypes ==
    ASSUME TypeOK, NEW S \in SUBSET Boxes
    PROVE  /\ IsFiniteSet(S)
           /\ Given(S) \in Nat /\ Total(freed, S) \in Nat
           /\ Late(S) \in SUBSET Letters /\ Stands(S) \in SUBSET Letters /\ Away(S) \in SUBSET Letters
           /\ UnderWay(S) \in SUBSET Senders
           /\ Cardinality(Late(S)) \in Nat /\ Cardinality(Stands(S)) \in Nat
           /\ Cardinality(Away(S)) \in Nat /\ Cardinality(UnderWay(S)) \in Nat
           /\ Uncounted(S) \in Nat /\ Used(S) \in Nat
<1>1. IsFiniteSet(S)
  BY BoxAssumption, FS_Subset
<1>2. Given(S) \in Nat /\ Total(freed, S) \in Nat
  BY <1>1, TotalNat DEF TypeOK, Given
<1>3. /\ Late(S) \in SUBSET Letters /\ Stands(S) \in SUBSET Letters /\ Away(S) \in SUBSET Letters
      /\ UnderWay(S) \in SUBSET Senders
  BY DEF Late, Stands, Away, UnderWay
<1>4. /\ Cardinality(Late(S)) \in Nat /\ Cardinality(Stands(S)) \in Nat
      /\ Cardinality(Away(S)) \in Nat /\ Cardinality(UnderWay(S)) \in Nat
  BY <1>3, SmallSets, SenderSets
<1> QED
  BY <1>1, <1>2, <1>3, <1>4 DEF Uncounted, Used

\* The boxes count each letter once.
LEMMA CountsAdd ==
    ASSUME NEW S \in SUBSET Boxes
    PROVE  SentBy(S) = Cardinality(Away(S))
<1> DEFINE f == [b \in Boxes |-> sent_today(b)]
           G == {M \in SUBSET S : Total(f, M) = Cardinality(Away(M))}
<1>0. \A M \in SUBSET S : Away(M) \in SUBSET Letters
  BY DEF Away
<1>1. \A b \in S : f[b] = Cardinality(Away({b})) /\ f[b] \in Int
  <2>1. \A b \in S : sent_today(b) = Cardinality(Away({b}))
    BY DEF sent_today, Away
  <2>2. \A b \in S : Away({b}) \in SUBSET Letters
    BY DEF Away
  <2>3. \A b \in S : Cardinality(Away({b})) \in Nat
    BY <2>2, SmallSets
  <2>4. \A b \in S : f[b] = sent_today(b)
    OBVIOUS
  <2> HIDE DEF f
  <2>5. ASSUME NEW b \in S PROVE f[b] = Cardinality(Away({b})) /\ f[b] \in Int
    <3>1. f[b] = Cardinality(Away({b})) /\ Cardinality(Away({b})) \in Nat
      BY <2>1, <2>3, <2>4
    <3>2. \A n \in Nat : n \in Int
      OBVIOUS
    <3> QED
      BY <3>1, <3>2
  <2> QED
    BY <2>5
<1> SUFFICES ASSUME S \notin G PROVE FALSE
  BY DEF SentBy
<1>2. IsFiniteSet(S)
  BY BoxAssumption, FS_Subset
<1>3. PICK M \in SUBSET S : M \notin G /\ IsFiniteSet(M) /\ \A T \in SUBSET M : T # M => T \in G
  <2> HIDE DEF G
  <2> QED
    BY <1>2, SmallestSet
<1> HIDE DEF f
<1>4. CASE M = {}
  <2>1. Away({}) = {}
    BY DEF Away
  <2>2. Total(f, {}) = 0 /\ Cardinality(Away({})) = 0
    BY <2>1, TotalNone, FS_EmptySet
  <2> QED
    BY <1>3, <1>4, <2>2
<1>5. CASE M # {}
  <2>1. PICK x : x \in M
    BY <1>5
  <2> DEFINE T == M \ {x}
  <2>2. Total(f, T) = Cardinality(Away(T))
    BY <1>3, <2>1
  <2>3. Total(f, M) = f[x] + Total(f, T)
    <3>1. IsFiniteSet(M) /\ x \in M /\ \A b \in M : f[b] \in Int
      BY <1>1, <1>3, <2>1
    <3> QED
      BY <3>1, TotalTake
  <2>4. Away(M) = Away({x}) \cup Away(T) /\ Away({x}) \cap Away(T) = {}
    BY <2>1 DEF Away
  <2>5. /\ Away({x}) \in SUBSET Letters /\ Away(T) \in SUBSET Letters
        /\ f[x] = Cardinality(Away({x}))
    BY <1>0, <1>1, <2>1
  <2>6. Cardinality(Away(M)) = Cardinality(Away({x})) + Cardinality(Away(T))
    <3>1. IsFiniteSet(Away({x})) /\ IsFiniteSet(Away(T))
      BY <2>5, SmallSets
    <3>2. Cardinality(Away({x}) \cup Away(T))
            = Cardinality(Away({x})) + Cardinality(Away(T)) - Cardinality(Away({x}) \cap Away(T))
      BY <3>1, FS_Union
    <3>3. Cardinality(Away({x}) \cap Away(T)) = 0
      BY <2>4, FS_EmptySet
    <3>4. Cardinality(Away({x})) \in Nat /\ Cardinality(Away(T)) \in Nat
      BY <2>5, SmallSets
    <3> HIDE DEF T
    <3> QED
      BY <2>4, <3>2, <3>3, <3>4
  <2> QED
    BY <1>3, <2>2, <2>3, <2>5, <2>6
<1> QED
  BY <1>4, <1>5

\* What was given today is counted, or not counted for a reason.
LEMMA GivenIsCounted ==
    ASSUME TypeOK, NEW S \in SUBSET Boxes, Placed(S)
    PROVE  Given(S) <= SentBy(S) + Uncounted(S) /\ SentBy(S) \in Nat
<1>1. Stands(S) \subseteq Away(S) \cup Late(S)
  BY DEF Stands, Away, Late
<1>2. Cardinality(Stands(S)) <= Cardinality(Away(S)) + Cardinality(Late(S))
  <2>1. /\ Away(S) \cup Late(S) \in SUBSET Letters /\ Away(S) \cap Late(S) \in SUBSET Letters
        /\ Away(S) \in SUBSET Letters /\ Late(S) \in SUBSET Letters
        /\ Stands(S) \in SUBSET Letters
    BY DEF Away, Late, Stands
  <2>2. Cardinality(Stands(S)) <= Cardinality(Away(S) \cup Late(S))
    BY <1>1, <2>1, SmallSets
  <2>3. Cardinality(Away(S) \cup Late(S))
          = Cardinality(Away(S)) + Cardinality(Late(S)) - Cardinality(Away(S) \cap Late(S))
    <3>1. IsFiniteSet(Away(S)) /\ IsFiniteSet(Late(S))
      BY <2>1, SmallSets
    <3> QED
      BY <3>1, FS_Union
  <2>4. /\ Cardinality(Stands(S)) \in Nat /\ Cardinality(Away(S)) \in Nat
        /\ Cardinality(Late(S)) \in Nat /\ Cardinality(Away(S) \cap Late(S)) \in Nat
    BY <2>1, SmallSets
  <2> QED
    BY <2>2, <2>3, <2>4
<1> QED
  BY <1>2, DayTypes, CountsAdd DEF Placed, Uncounted

\* A step eases the load of some boxes: no more is used, or as much is not counted.
Eased(S) == Used(S)' - Uncounted(S)' <= Used(S) - Uncounted(S)

LEMMA TotalBumped ==
    ASSUME NEW f \in [Boxes -> Nat], NEW b, NEW S \in SUBSET Boxes,
           NEW g, \A s \in Boxes : g[s] = IF s = b THEN f[s] + 1 ELSE f[s]
    PROVE  Total(g, S) = Total(f, S) + (IF b \in S THEN 1 ELSE 0)
<1>1. IsFiniteSet(S)
  BY BoxAssumption, FS_Subset
<1>2. \A s \in S : f[s] \in Int /\ g[s] \in Int /\ (s # b => g[s] = f[s])
  OBVIOUS
<1>3. b \in S => g[b] - f[b] = 1
  OBVIOUS
<1>4. Total(f, S) \in Int
  BY <1>1, <1>2, TotalInt
<1>5. CASE b \in S
  <2>1. Total(g, S) = Total(f, S) + (g[b] - f[b])
    BY <1>1, <1>2, <1>5, TotalChange
  <2>2. Total(g, S) = Total(f, S) + 1
    BY <1>3, <1>5, <2>1
  <2> QED
    BY <1>5, <2>2
<1>6. CASE b \notin S
  <2>1. \A s \in S : f[s] \in Int /\ g[s] = f[s]
    BY <1>2, <1>6
  <2>2. Total(f, S) = Total(g, S)
    BY <1>1, <2>1, TotalSame
  <2> QED
    BY <1>4, <1>6, <2>2
<1> QED
  BY <1>5, <1>6

\* A step in which no letter is taken and no place freed.
LEMMA Loosened ==
    ASSUME TypeOK, TypeOK', NEW S \in SUBSET Boxes, Placed(S), UNCHANGED <<mailed, freed>>,
           Late(S) \subseteq Late(S)', Stands(S) \subseteq Stands(S)', UnderWay(S)' \subseteq UnderWay(S)
    PROVE  Placed(S)' /\ Eased(S)
<1>1. /\ Given(S)' = Given(S) /\ Total(freed, S)' = Total(freed, S)
  BY DEF Given
<1>2. Cardinality(Late(S)) <= Cardinality(Late(S)')
  BY DayTypes, SmallSets DEF Late
<1>3. Cardinality(Stands(S)) <= Cardinality(Stands(S)')
  <2>1. Stands(S)' \in SUBSET Letters
    BY DEF Stands
  <2> QED
    BY <2>1, DayTypes, SmallSets
<1>4. Cardinality(UnderWay(S)') <= Cardinality(UnderWay(S))
  BY DayTypes, SenderPart
<1>5. /\ Cardinality(Late(S)') \in Nat /\ Cardinality(Stands(S)') \in Nat
      /\ Cardinality(UnderWay(S)') \in Nat
  <2>1. Late(S)' \in SUBSET Letters /\ Stands(S)' \in SUBSET Letters
        /\ UnderWay(S)' \in SUBSET Senders
    BY DEF Late, Stands, UnderWay
  <2> QED
    BY <2>1, SmallSets, SenderSets
<1>6. /\ Given(S) \in Nat /\ Total(freed, S) \in Nat /\ Cardinality(UnderWay(S)) \in Nat
      /\ Cardinality(Late(S)) \in Nat /\ Cardinality(Stands(S)) \in Nat
  BY DayTypes
<1>7. Placed(S)'
  BY <1>1, <1>3, <1>5, <1>6 DEF Placed
<1>8. Eased(S)
  BY <1>1, <1>2, <1>4, <1>5, <1>6 DEF Eased, Used, Uncounted
<1> QED
  BY <1>7, <1>8

\* The step in which a letter is taken: its sender is no longer under way.
TakenFrom(S, p, b, l) ==
    /\ \A c \in Boxes : mailed'[c] = (IF c = b THEN mailed[c] + 1 ELSE mailed[c])
    /\ freed' = freed
    /\ Late(S) \subseteq Late(S)' /\ Stands(S) \subseteq Stands(S)'
    /\ b \in S => l \notin Stands(S) /\ l \in Stands(S)' /\ p \in UnderWay(S)
    /\ UnderWay(S)' = UnderWay(S) \ {p}

LEMMA TakenBy ==
    ASSUME TypeOK, TypeOK', NEW S \in SUBSET Boxes, Placed(S),
           NEW p \in Senders, NEW b, NEW l \in Letters, TakenFrom(S, p, b, l)
    PROVE  Placed(S)' /\ Eased(S)
<1> USE DEF TakenFrom
<1>1. /\ Given(S)' = Given(S) + (IF b \in S THEN 1 ELSE 0)
      /\ Total(freed, S)' = Total(freed, S)
  <2>1. mailed \in [Boxes -> Nat]
    BY DEF TypeOK
  <2>3. Total(mailed', S) = Total(mailed, S) + (IF b \in S THEN 1 ELSE 0)
    BY <2>1, TotalBumped
  <2>4. Given(S)' = Total(mailed', S) /\ Given(S) = Total(mailed, S)
    BY DEF Given
  <2>5. Total(freed, S)' = Total(freed, S)
    OBVIOUS
  <2> QED
    BY <2>3, <2>4, <2>5
<1>2. Late(S)' \in SUBSET Letters /\ Stands(S)' \in SUBSET Letters
      /\ UnderWay(S)' \in SUBSET Senders
  BY DEF Late, Stands, UnderWay
<1>3. /\ Cardinality(Late(S)') \in Nat /\ Cardinality(Stands(S)') \in Nat
      /\ Cardinality(UnderWay(S)') \in Nat
  BY <1>2, SmallSets, SenderSets
<1>4. /\ Given(S) \in Nat /\ Total(freed, S) \in Nat /\ Cardinality(UnderWay(S)) \in Nat
      /\ Cardinality(Late(S)) \in Nat /\ Cardinality(Stands(S)) \in Nat
      /\ Stands(S) \in SUBSET Letters /\ UnderWay(S) \in SUBSET Senders
      /\ Late(S) \in SUBSET Letters
  BY DayTypes
<1>5. Cardinality(Late(S)) <= Cardinality(Late(S)')
  BY <1>2, <1>4, SmallSets
<1>6. Cardinality(Stands(S)) + (IF b \in S THEN 1 ELSE 0) <= Cardinality(Stands(S)')
  <2>1. CASE b \in S
    <3>1. Cardinality(Stands(S) \cup {l}) = Cardinality(Stands(S)) + 1
      BY <1>4, <2>1, LetterAdded
    <3>2. Stands(S) \cup {l} \subseteq Stands(S)' /\ Stands(S) \cup {l} \in SUBSET Letters
      BY <1>4, <2>1
    <3>3. Cardinality(Stands(S) \cup {l}) <= Cardinality(Stands(S)')
      BY <1>2, <3>2, SmallSets
    <3> QED
      BY <2>1, <3>1, <3>3
  <2>2. CASE b \notin S
    <3>1. Cardinality(Stands(S)) <= Cardinality(Stands(S)')
      BY <1>2, <1>4, SmallSets
    <3> QED
      BY <1>3, <1>4, <2>2, <3>1
  <2> QED
    BY <2>1, <2>2
<1>7. Cardinality(UnderWay(S)') + (IF b \in S THEN 1 ELSE 0) <= Cardinality(UnderWay(S))
  <2>1. CASE b \in S
    <3>1. Cardinality(UnderWay(S)') = Cardinality(UnderWay(S)) - 1
      BY <1>4, <2>1, SenderSets
    <3> QED
      BY <1>3, <1>4, <2>1, <3>1
  <2>2. CASE b \notin S
    <3>1. Cardinality(UnderWay(S)') <= Cardinality(UnderWay(S))
      BY <1>4, SenderPart
    <3> QED
      BY <1>3, <1>4, <2>2, <3>1
  <2> QED
    BY <2>1, <2>2
<1>8. Placed(S)'
  BY <1>1, <1>3, <1>4, <1>6 DEF Placed
<1>9. Eased(S)
  BY <1>1, <1>3, <1>4, <1>5, <1>7 DEF Eased, Used, Uncounted
<1> QED
  BY <1>8, <1>9

\* A letter is put back: the place it held today is free again.
LEMMA PutBack ==
    ASSUME TypeOK, TypeOK', NEW S \in SUBSET Boxes, Placed(S), NEW l \in Letters,
           Freed(l), mailed' = mailed, UnderWay(S)' = UnderWay(S),
           Late(S) \ {l} \subseteq Late(S)', Stands(S) \ {l} \subseteq Stands(S)'
    PROVE  Placed(S)' /\ Eased(S)
<1> DEFINE gone == letter[l].box \in S /\ letter[l].taken # NEVER /\ Day(letter[l].taken) = Day(now)
           one == IF gone THEN 1 ELSE 0
<1>1. Total(freed, S)' = Total(freed, S) + one
  <2>1. freed \in [Boxes -> Nat] /\ Total(freed, S) \in Nat
    BY DayTypes DEF TypeOK
  <2>2. CASE letter[l].taken # NEVER /\ Day(letter[l].taken) = Day(now)
    <3>1. freed' = [freed EXCEPT ![letter[l].box] = @ + 1]
      BY <2>2 DEF Freed
    <3> DEFINE c == letter[l].box
    <3>3. \A b \in Boxes : freed'[b] = IF b = c THEN freed[b] + 1 ELSE freed[b]
      BY <2>1, <3>1
    <3> HIDE DEF c
    <3>2. Total(freed', S) = Total(freed, S) + (IF c \in S THEN 1 ELSE 0)
      BY <2>1, <3>3, TotalBumped
    <3> QED
      BY <2>2, <3>2 DEF c
  <2>3. CASE ~(letter[l].taken # NEVER /\ Day(letter[l].taken) = Day(now))
    <3>1. freed' = freed /\ ~gone
      BY <2>3 DEF Freed
    <3> QED
      BY <2>1, <3>1
  <2> QED
    BY <2>2, <2>3
<1>2. Late(S)' \in SUBSET Letters /\ Stands(S)' \in SUBSET Letters
  BY DEF Late, Stands
<1>3. /\ Given(S) \in Nat /\ Total(freed, S) \in Nat /\ Cardinality(UnderWay(S)) \in Nat
      /\ Cardinality(Late(S)) \in Nat /\ Cardinality(Stands(S)) \in Nat
      /\ Stands(S) \in SUBSET Letters /\ Late(S) \in SUBSET Letters
      /\ Cardinality(Late(S)') \in Nat /\ Cardinality(Stands(S)') \in Nat
  BY <1>2, DayTypes, SmallSets
<1>4. ASSUME NEW T \in SUBSET Letters, NEW U \in SUBSET Letters, T \ {l} \subseteq U, l \in T => gone
      PROVE  Cardinality(T) <= Cardinality(U) + one
  <2>1. Cardinality(T) <= Cardinality(T \ {l}) + 1
    BY LetterTaken
  <2>2. T \ {l} \in SUBSET Letters
    OBVIOUS
  <2>3. Cardinality(T \ {l}) <= Cardinality(U)
    BY <1>4, <2>2, SmallSets
  <2>4. /\ Cardinality(T) \in Nat /\ Cardinality(T \ {l}) \in Nat /\ Cardinality(U) \in Nat
    BY <2>2, SmallSets
  <2>5. CASE l \in T
    BY <1>4, <2>1, <2>3, <2>4, <2>5
  <2>6. CASE l \notin T
    <3>1. T \ {l} = T
      BY <2>6
    <3>2. Cardinality(T) <= Cardinality(U)
      BY <2>3, <3>1
    <3>3. one \in {0, 1}
      OBVIOUS
    <3> HIDE DEF one
    <3> QED
      BY <2>4, <3>2, <3>3
  <2> QED
    BY <2>5, <2>6
<1>5. l \in Late(S) \/ l \in Stands(S) => gone
  BY DEF Late, Stands
<1>6. one \in Nat
  OBVIOUS
<1>7. Cardinality(Late(S)) <= Cardinality(Late(S)') + one
  BY <1>2, <1>3, <1>4, <1>5
<1>8. Cardinality(Stands(S)) <= Cardinality(Stands(S)') + one
  BY <1>2, <1>3, <1>4, <1>5
<1> HIDE DEF one, gone
<1>9. Given(S)' = Given(S) /\ Cardinality(UnderWay(S))' = Cardinality(UnderWay(S))
  BY DEF Given
<1>10. Placed(S)'
  BY <1>1, <1>3, <1>6, <1>8, <1>9 DEF Placed
<1>11. Eased(S)
  BY <1>1, <1>3, <1>6, <1>7, <1>9 DEF Eased, Used, Uncounted
<1> QED
  BY <1>10, <1>11

\* A step that touches one letter leaves the other letters in their places.
LEMMA OneLetterMoves ==
    ASSUME NEW S \in SUBSET Boxes, NEW l, now' = now,
           \A k \in Letters : k # l => letter'[k] = letter[k] /\ (Handing(k)' => Handing(k))
    PROVE  Late(S) \ {l} \subseteq Late(S)' /\ Stands(S) \ {l} \subseteq Stands(S)'
BY DEF Late, Stands

LEMMA LeastOf ==
    \A m, n \in Nat : m >= 1 /\ n >= 1 => Least(m, n) \in 1..n /\ (m = 1 => Least(m, n) = 1)
BY DEF Least

\* The allowance of a box is a number of the ladder, and not below its first step.
LEMMA Allowance ==
    ASSUME TypeOK, NEW b \in Boxes
    PROVE  /\ warmup_state(b) \in Nat /\ warmup_state(b) <= DailyCap
           /\ Least(DailyCap, Steps[1]) <= warmup_state(b)
           /\ box[b].started # NEVER /\ first_letter(b) = NEVER =>
                warmup_state(b) = Least(DailyCap, Steps[1])
           /\ Allowed(b) \in Nat /\ warmup_state(b) <= Allowed(b) /\ before[b] <= Allowed(b)
<1> DEFINE f == first_letter(b)
           day == IF f = NEVER THEN 1 ELSE Most(1, Day(now) - Day(f) + 1)
           n == Least(day, Len(Steps))
<1>1. Len(Steps) \in Nat /\ Len(Steps) >= 1 /\ DailyCap \in Nat
  BY BoxAssumption
<1>2. day \in Nat /\ day >= 1
  <2>1. now \in Int /\ f \in Int
    BY Moments, NoMoment DEF first_letter, NEVER
  <2>2. Day(now) \in Int /\ Day(f) \in Int
    BY <2>1, DaysGrow
  <2> QED
    BY <2>2 DEF Most
<1>3. n \in 1..Len(Steps) /\ (day = 1 => n = 1)
  <2> HIDE DEF day
  <2> QED
    BY <1>1, <1>2, LeastOf
<1>4. Steps[n] \in Nat /\ Steps[1] \in Nat /\ Steps[1] <= Steps[n]
  BY <1>1, <1>3, BoxAssumption, StepAssumption
<1>5. warmup_state(b) = IF box[b].started = NEVER THEN DailyCap ELSE Least(DailyCap, Steps[n])
  BY DEF warmup_state
<1>6. f = NEVER => day = 1
  OBVIOUS
<1>7. before[b] \in Nat
  BY DEF TypeOK
<1> HIDE DEF f, day, n
<1>8. /\ warmup_state(b) \in Nat /\ warmup_state(b) <= DailyCap
      /\ Least(DailyCap, Steps[1]) <= warmup_state(b)
  BY <1>1, <1>4, <1>5 DEF Least
<1>9. box[b].started # NEVER /\ first_letter(b) = NEVER =>
        warmup_state(b) = Least(DailyCap, Steps[1])
  <2> SUFFICES ASSUME box[b].started # NEVER, first_letter(b) = NEVER
               PROVE  warmup_state(b) = Least(DailyCap, Steps[1])
    OBVIOUS
  <2>1. n = 1
    BY <1>3, <1>6 DEF f
  <2> QED
    BY <1>5, <2>1
<1> QED
  BY <1>7, <1>8, <1>9 DEF Allowed, Most

LEMMA DayNumbers ==
    TypeOK => \A S \in SUBSET Boxes : Used(S) \in Nat /\ Uncounted(S) \in Nat
BY DayTypes

LEMMA AllowedNumbers ==
    TypeOK => \A b \in Boxes : /\ Allowed(b) \in Nat /\ warmup_state(b) \in Nat
                               /\ Least(DailyCap, Steps[1]) <= warmup_state(b)
                               /\ warmup_state(b) <= Allowed(b) /\ before[b] <= Allowed(b)
BY Allowance

LEMMA NumbersAfter ==
    ASSUME TypeOK'
    PROVE  /\ \A S \in SUBSET Boxes : Used(S)' \in Nat /\ Uncounted(S)' \in Nat
           /\ \A b \in Boxes : /\ Allowed(b)' \in Nat /\ warmup_state(b)' \in Nat
                               /\ Least(DailyCap, Steps[1]) <= warmup_state(b)'
                               /\ warmup_state(b)' <= Allowed(b)' /\ before'[b] <= Allowed(b)'
<1>1. TypeOK' => (\A S \in SUBSET Boxes : Used(S) \in Nat /\ Uncounted(S) \in Nat)'
  BY DayNumbers, PTL
<1>2. TypeOK' => (\A b \in Boxes : /\ Allowed(b) \in Nat /\ warmup_state(b) \in Nat
                                   /\ Least(DailyCap, Steps[1]) <= warmup_state(b)
                                   /\ warmup_state(b) <= Allowed(b) /\ before[b] <= Allowed(b))'
  BY AllowedNumbers, PTL
<1> QED
  BY <1>1, <1>2

\* A mark raises an allowance at most.
LEMMA AllowedGrows ==
    ASSUME TypeOK, TypeOK', NEW b \in Boxes, Day(now') = Day(now), before'[b] = before[b],
           box'[b].started = box[b].started,
           \/ box'[b].first = box[b].first
           \/ box[b].started # NEVER /\ box[b].first < box[b].started
    PROVE  Allowed(b) <= Allowed(b)'
<1>1. warmup_state(b) <= warmup_state(b)'
  <2>1. warmup_state(b) \in Nat /\ Least(DailyCap, Steps[1]) <= warmup_state(b)'
    BY Allowance, NumbersAfter
  <2>2. CASE box'[b].first = box[b].first
    <3>1. first_letter(b)' = first_letter(b)
      BY <2>2 DEF first_letter
    <3>2. warmup_state(b)' = warmup_state(b)
      BY <3>1 DEF warmup_state
    <3> QED
      BY <2>1, <3>2
  <2>3. CASE box[b].started # NEVER /\ box[b].first < box[b].started
    <3>1. box[b].first \in Int /\ box[b].started \in Int
      BY Moments
    <3>2. first_letter(b) = NEVER
      BY <2>3, <3>1 DEF first_letter
    <3>3. warmup_state(b) = Least(DailyCap, Steps[1])
      BY <2>3, <3>2, Allowance
    <3> QED
      BY <2>1, <3>3
  <2> QED
    BY <2>2, <2>3
<1>2. /\ warmup_state(b) \in Nat /\ warmup_state(b)' \in Nat /\ before[b] \in Nat
  BY Allowance, NumbersAfter DEF TypeOK
<1> QED
  BY <1>1, <1>2 DEF Allowed, Most

Eases == \A S \in SUBSET Boxes : Placed(S)' /\ Eased(S)
Grows == \A b \in Boxes : Allowed(b) <= Allowed(b)'

LEMMA BoxSets ==
    Boxes \in SUBSET Boxes /\ \A b \in Boxes : {b} \in SUBSET Boxes /\ Siblings(b) \in SUBSET Boxes
BY DEF Siblings

LEMMA LimitedStill ==
    ASSUME TypeOK, TypeOK', Limited, Chosen', Eases, Grows
    PROVE  Limited'
<1>1. ASSUME NEW S \in SUBSET Boxes, NEW n \in Nat, NEW m \in Nat, n <= m, Within(S, n)
      PROVE  Used(S)' <= m + Others + Uncounted(S)'
  <2>1. Eased(S)
    BY DEF Eases
  <2>2. Used(S) \in Nat /\ Uncounted(S) \in Nat /\ Used(S)' \in Nat /\ Uncounted(S)' \in Nat
    BY DayNumbers, NumbersAfter
  <2> QED
    BY <1>1, <2>1, <2>2, SenderSets DEF Eased, Within
<1>2. ASSUME NEW b \in Boxes PROVE Within({b}, Allowed(b))' /\ Within(Siblings(b), DomainLimit)'
  <2>1. Allowed(b) \in Nat /\ Allowed(b)' \in Nat /\ Allowed(b) <= Allowed(b)'
    BY AllowedNumbers, NumbersAfter DEF Grows
  <2>2. Within({b}, Allowed(b)) /\ Within(Siblings(b), DomainLimit)
    BY DEF Limited
  <2>3. Used({b})' <= Allowed(b)' + Others + Uncounted({b})'
    BY <1>1, <2>1, <2>2, BoxSets
  <2>4. DomainLimit \in Nat /\ DomainLimit <= DomainLimit
    BY BoxAssumption
  <2>5. Used(Siblings(b))' <= DomainLimit + Others + Uncounted(Siblings(b))'
    BY <1>1, <2>2, <2>4, BoxSets
  <2> QED
    BY <2>3, <2>5 DEF Within, Others
<1>3. Within(Boxes, Direction)'
  <2>1. Direction \in Nat /\ Direction <= Direction /\ Within(Boxes, Direction)
    BY BoxAssumption DEF Limited
  <2>2. Used(Boxes)' <= Direction + Others + Uncounted(Boxes)'
    BY <1>1, <2>1, BoxSets
  <2> QED
    BY <2>2 DEF Within, Others
<1> QED
  BY <1>2, <1>3 DEF Limited, Eases

LEMMA ChosenStill ==
    ASSUME Chosen,
           \A q \in Senders : send'[q].at # "idle" =>
             /\ send'[q] = send[q]
             /\ send[q].at = "handing" => letter'[send[q].letter] = letter[send[q].letter]
    PROVE  Chosen'
BY DEF Chosen

\* A box has a place, and so have its domain and the direction.
LEMMA ChooseLimited ==
    ASSUME Rows, Rows', Limited, NEW p \in Senders, NEW l \in Letters, choose(p, l)
    PROVE  Limited'
<1>1. PICK b \in Boxes :
        /\ pick(b)
        /\ send' = [send EXCEPT ![p] = [at |-> "chosen", letter |-> l, box |-> b,
                                        was |-> letter[l].box]]
  BY DEF choose
<1>2. /\ send[p].at = "idle" /\ send'[p].at = "chosen" /\ send'[p].box = b
      /\ \A q \in Senders : q # p => send'[q] = send[q]
      /\ UNCHANGED <<now, letter, box, mailed, freed, before>>
      /\ TypeOK /\ TypeOK'
  BY <1>1 DEF choose, Rows, TypeOK, history
<1>3. /\ SentBy(Boxes) < Direction /\ SentBy(Siblings(b)) < DomainLimit
      /\ sent_today(b) < warmup_state(b)
  <2>1. b \in Fit
    BY <1>1 DEF pick
  <2>2. SentBy(Boxes) < Direction /\ SentBy(Siblings(b)) < DomainLimit /\ remaining(b) > 0
    <3>1. SentBy(Boxes) \in Int /\ Direction \in Nat
      BY CountsAdd, DayTypes, BoxSets, BoxAssumption, <1>2
    <3> QED
      BY <2>1, <3>1 DEF Fit
  <2>3. sent_today(b) \in Nat /\ warmup_state(b) \in Nat
    <3>1. {k \in Letters : /\ letter[k].box = b /\ letter[k].status # "queued"
                           /\ Day(letter[k].at) = Day(now)} \in SUBSET Letters
      OBVIOUS
    <3> QED
      BY <1>2, <3>1, SmallSets, AllowedNumbers DEF sent_today
  <2> QED
    BY <2>2, <2>3 DEF remaining, Most
<1>4. SentBy({b}) = sent_today(b)
  <2>1. Away({b}) = {k \in Letters : /\ letter[k].box = b /\ letter[k].status # "queued"
                                     /\ Day(letter[k].at) = Day(now)}
    BY DEF Away
  <2> QED
    BY <2>1, CountsAdd, BoxSets DEF sent_today
<1>5. \A S \in SUBSET Boxes : /\ Given(S)' = Given(S) /\ Late(S)' = Late(S)
                              /\ Total(freed, S)' = Total(freed, S) /\ Stands(S)' = Stands(S)
  <2>1. \A k \in Letters : Handing(k)' <=> Handing(k)
    BY <1>2 DEF Handing
  <2> QED
    BY <1>2, <2>1 DEF Given, Late, Stands
<1>6. \A S \in SUBSET Boxes : Placed(S)' /\ Uncounted(S)' = Uncounted(S)
  BY <1>5 DEF Placed, Uncounted, Limited
\* Boxes that have a place.
<1>7. ASSUME NEW S \in SUBSET Boxes, NEW n \in Nat, SentBy(S) < n
      PROVE  Used(S)' <= n + Others + Uncounted(S)'
  <2>1. Given(S) <= SentBy(S) + Uncounted(S) /\ SentBy(S) \in Nat
    BY <1>2, GivenIsCounted DEF Limited
  <2>2. Cardinality(UnderWay(S)') <= Others + 1 /\ Cardinality(UnderWay(S)') \in Nat
    <3>1. UnderWay(S)' \in SUBSET Senders
      BY DEF UnderWay
    <3> QED
      BY <3>1, SenderSets DEF Others
  <2>3. Given(S) \in Nat /\ Uncounted(S) \in Nat /\ Others \in Nat
    BY <1>2, DayTypes, SenderSets
  <2>4. Used(S)' = Given(S) + Cardinality(UnderWay(S)')
    BY <1>5 DEF Used
  <2>5. Uncounted(S)' = Uncounted(S)
    BY <1>6
  <2> QED
    BY <1>7, <2>1, <2>2, <2>3, <2>4, <2>5
\* Boxes the sender has not chosen.
<1>8. ASSUME NEW S \in SUBSET Boxes, b \notin S
      PROVE  Used(S)' = Used(S) /\ Uncounted(S)' = Uncounted(S)
  <2>1. UnderWay(S)' = UnderWay(S)
    BY <1>2, <1>8 DEF UnderWay
  <2> QED
    BY <1>5, <1>6, <2>1 DEF Used
<1>9. \A c \in Boxes : Allowed(c)' = Allowed(c)
  BY <1>2 DEF Allowed, warmup_state, first_letter
<1>10. ASSUME NEW c \in Boxes PROVE Within({c}, Allowed(c))'
  <2>1. CASE c = b
    <3>1. Allowed(b) \in Nat /\ warmup_state(b) \in Nat /\ warmup_state(b) <= Allowed(b)
      BY <1>2, AllowedNumbers
    <3>2. SentBy({b}) < Allowed(b)
      <4>1. SentBy({b}) \in Nat
        BY <1>2, BoxSets, GivenIsCounted DEF Limited
      <4> QED
        BY <1>3, <1>4, <3>1, <4>1
    <3>3. Used({b})' <= Allowed(b) + Others + Uncounted({b})'
      BY <1>7, <3>1, <3>2, BoxSets
    <3> QED
      BY <1>9, <2>1, <3>3 DEF Within, Others
  <2>2. CASE c # b
    <3>1. Used({c})' = Used({c}) /\ Uncounted({c})' = Uncounted({c})
      BY <1>8, <2>2, BoxSets
    <3>2. Within({c}, Allowed(c))
      BY DEF Limited
    <3> QED
      BY <1>9, <3>1, <3>2 DEF Within, Others
  <2> QED
    BY <2>1, <2>2
<1>11. ASSUME NEW c \in Boxes PROVE Within(Siblings(c), DomainLimit)'
  <2>1. CASE b \in Siblings(c)
    <3>1. Siblings(c) = Siblings(b)
      BY <2>1 DEF Siblings
    <3>2. Used(Siblings(b))' <= DomainLimit + Others + Uncounted(Siblings(b))'
      BY <1>3, <1>7, BoxSets, BoxAssumption
    <3>3. Siblings(c)' = Siblings(c)
      BY DEF Siblings
    <3> QED
      BY <3>1, <3>2 DEF Within, Others
  <2>2. CASE b \notin Siblings(c)
    <3>1. Used(Siblings(c))' = Used(Siblings(c)) /\ Uncounted(Siblings(c))' = Uncounted(Siblings(c))
      BY <1>8, <2>2, BoxSets
    <3>2. Within(Siblings(c), DomainLimit)
      BY DEF Limited
    <3> QED
      BY <3>1, <3>2 DEF Within, Others
  <2> QED
    BY <2>1, <2>2
<1>12. Within(Boxes, Direction)'
  <2>1. Used(Boxes)' <= Direction + Others + Uncounted(Boxes)'
    BY <1>3, <1>7, BoxSets, BoxAssumption
  <2> QED
    BY <2>1 DEF Within, Others
<1>13. Chosen'
  <2>1. 0 < DailyCap /\ 0 < DomainLimit /\ 0 < Direction
    <3>1. /\ SentBy(Boxes) \in Nat /\ SentBy(Siblings(b)) \in Nat /\ SentBy({b}) \in Nat
      BY <1>2, BoxSets, GivenIsCounted DEF Limited
    <3>2. warmup_state(b) \in Nat /\ warmup_state(b) <= DailyCap
      BY <1>2, Allowance
    <3> QED
      BY <1>3, <1>4, <3>1, <3>2, BoxAssumption
  <2> QED
    BY <1>2, <2>1 DEF Chosen, Limited
<1> QED
  BY <1>6, <1>10, <1>11, <1>12, <1>13 DEF Limited

\* A letter in hand has its place still to come: it is neither counted as late nor does
\* it stand for what was taken before.
LEMMA InHandIsNeither ==
    ASSUME Rows, Past, Chosen, NEW p \in Senders, send[p].at = "handing", NEW S \in SUBSET Boxes
    PROVE  /\ send[p].letter \in Letters
           /\ send[p].letter \notin Late(S) /\ send[p].letter \notin Stands(S)
<1> DEFINE l == send[p].letter
<1>1. l \in Letters /\ Handing(l)
  BY DEF Rows, OneHander, Handing
<1>2. letter[l].taken <= letter[l].at /\ letter[l].at <= now
  BY <1>1 DEF Chosen, Past
<1>3. letter[l].taken \in Int /\ letter[l].at \in Int /\ now \in Int
  BY <1>1, Moments DEF Rows
<1>4. /\ Day(letter[l].taken) <= Day(letter[l].at) /\ Day(letter[l].at) <= Day(now)
      /\ Day(letter[l].taken) \in Int /\ Day(letter[l].at) \in Int /\ Day(now) \in Int
  BY <1>2, <1>3, DaysGrow
<1>5. Day(letter[l].taken) = Day(now) => Day(letter[l].at) = Day(now)
  BY <1>4
<1> QED
  BY <1>1, <1>5 DEF Late, Stands

\* The hand is empty again: the letter was taken, or it was not.
LEMMA HandEmptied ==
    ASSUME Rows, Rows', Past, Limited, NEW p \in Senders, send[p].at = "handing",
           NEW l \in Letters, l = send[p].letter, NEW b \in Boxes, b = send[p].box,
           send' = [send EXCEPT ![p] = Rest], now' = now, UNCHANGED <<freed, before>>,
           \A k \in Letters : k # l => letter'[k] = letter[k],
           \/ mailed' = mailed
           \/ /\ mailed' = [mailed EXCEPT ![b] = @ + 1]
              /\ letter'[l].taken = now
              /\ letter'[l].status # "queued"
              /\ letter'[l].box = b,
           box' = box \/ box' = Marked(b, now)
    PROVE  Limited'
<1>2. send'[p].at = "idle" /\ \A q \in Senders : q # p => send'[q] = send[q]
  BY DEF Rows, TypeOK, Rest
<1>3. \A q \in Senders : q # p /\ send[q].at = "handing" => send[q].letter \in Letters \ {l}
  BY DEF Rows, OneHander
<1>4. \A k \in Letters : Handing(k)' => Handing(k) /\ k # l
  BY <1>2, <1>3 DEF Handing
<1>5. Chosen'
  <2>1. Chosen
    BY DEF Limited
  <2> QED
    BY <1>2, <1>3, <2>1, ChosenStill
<1>6. ASSUME NEW S \in SUBSET Boxes
      PROVE  Placed(S)' /\ Eased(S)
  <2>1. l \notin Late(S) /\ l \notin Stands(S)
    BY InHandIsNeither DEF Limited
  <2>2. Late(S) \ {l} \subseteq Late(S)' /\ Stands(S) \ {l} \subseteq Stands(S)'
    BY <1>4, OneLetterMoves
  <2>3. Late(S) \subseteq Late(S)' /\ Stands(S) \subseteq Stands(S)'
    BY <2>1, <2>2
  <2>4. UnderWay(S)' = UnderWay(S) \ {p}
    BY <1>2 DEF UnderWay
  <2>5. Placed(S) /\ TypeOK /\ TypeOK'
    BY DEF Limited, Rows
  <2>6. CASE mailed' = mailed
    BY <2>3, <2>4, <2>5, <2>6, Loosened
  <2>7. CASE /\ mailed' = [mailed EXCEPT ![b] = @ + 1]
             /\ letter'[l].taken = now /\ letter'[l].status # "queued" /\ letter'[l].box = b
    <3>1. \A c \in Boxes : mailed'[c] = (IF c = b THEN mailed[c] + 1 ELSE mailed[c])
      BY <2>5, <2>7 DEF TypeOK
    <3>2. b \in S => l \in Stands(S)'
      <4>1. now # NEVER
        BY <2>5, Moments DEF NEVER
      <4>2. ~Handing(l)'
        <5>1. \A q \in Senders : ~(send'[q].at = "handing" /\ send'[q].letter = l)
          BY <1>2, <1>3
        <5> QED
          BY <5>1 DEF Handing
      <4>3. now' = now /\ letter'[l].box = b /\ letter'[l].status # "queued" /\ letter'[l].taken = now
        BY <2>7
      <4> QED
        BY <4>1, <4>2, <4>3 DEF Stands
    <3>3. b \in S => p \in UnderWay(S)
      BY DEF UnderWay
    <3>4. b \in S => l \notin Stands(S) /\ l \in Stands(S)'
      BY <2>1, <3>2
    <3>5. TypeOK /\ TypeOK' /\ Placed(S) /\ freed' = freed
      BY <2>5
    <3>6. Late(S) \subseteq Late(S)' /\ Stands(S) \subseteq Stands(S)'
      BY <2>3
    <3>7. TakenFrom(S, p, b, l)
      BY <2>4, <3>1, <3>3, <3>4, <3>5, <3>6 DEF TakenFrom
    <3> QED
      BY <3>5, <3>7, TakenBy
  <2> QED
    BY <2>6, <2>7
<1>7. Grows
  <2> SUFFICES ASSUME NEW c \in Boxes PROVE Allowed(c) <= Allowed(c)'
    BY DEF Grows
  <2>1. /\ box'[c].started = box[c].started
        /\ \/ box'[c].first = box[c].first
           \/ box[c].started # NEVER /\ box[c].first < box[c].started
    BY MarkedRow DEF Rows
  <2>2. before'[c] = before[c] /\ Day(now') = Day(now) /\ TypeOK /\ TypeOK'
    BY DEF Rows
  <2> QED
    BY <2>1, <2>2, AllowedGrows
<1>8. TypeOK /\ TypeOK' /\ Eases
  BY <1>6 DEF Rows, Eases
<1> QED
  BY <1>5, <1>7, <1>8, LimitedStill

\* A step that neither takes nor frees: letters keep their places, boxes their start.
LEMMA PlacesKept ==
    ASSUME TypeOK, TypeOK', Limited, Chosen', Day(now') = Day(now), UNCHANGED <<mailed, freed, before>>,
           \A S \in SUBSET Boxes : /\ Late(S) \subseteq Late(S)' /\ Stands(S) \subseteq Stands(S)'
                                   /\ UnderWay(S)' \subseteq UnderWay(S),
           \A c \in Boxes : /\ box'[c].started = box[c].started
                            /\ \/ box'[c].first = box[c].first
                               \/ box[c].started # NEVER /\ box[c].first < box[c].started
    PROVE  Limited'
<1>1. Eases
  BY Loosened DEF Eases, Limited
<1>2. Grows
  BY AllowedGrows DEF Grows
<1> QED
  BY <1>1, <1>2, LimitedStill

LEMMA ClaimLimited ==
    ASSUME Rows, Rows', Past, Limited, NEW p \in Senders, _claim(p)
    PROVE  Limited'
<1> DEFINE l == send[p].letter
<1>0. /\ TypeOK /\ TypeOK' /\ Chosen /\ send[p].at = "chosen" /\ l \in Letters
      /\ UNCHANGED <<now, box, hook, lost, back, mailed, freed, before, woke>>
  BY DEF _claim, Rows, OneHander, Limited, history
<1>1. \A q \in Senders : q # p => send'[q] = send[q]
  BY <1>0 DEF _claim, TypeOK
<1>2. CASE letter[l].status = "queued"
  <2>1. /\ \A k \in Letters : k # l => letter'[k] = letter[k]
        /\ letter'[l].at = now /\ letter'[l].taken = letter[l].taken
        /\ send'[p].at = "handing" /\ send'[p].letter = l /\ send'[p].box = send[p].box
    BY <1>0, <1>2 DEF _claim, TypeOK, Letter, Send
  <2>2. \A k \in Letters : k # l /\ Handing(k)' => Handing(k)
    BY <1>1, <2>1 DEF Handing
  <2>3. ASSUME NEW S \in SUBSET Boxes
        PROVE  /\ Late(S) \subseteq Late(S)' /\ Stands(S) \subseteq Stands(S)'
               /\ UnderWay(S)' \subseteq UnderWay(S)
    <3>1. l \notin Late(S) /\ l \notin Stands(S)
      BY <1>2 DEF Late, Stands
    <3>2. Late(S) \ {l} \subseteq Late(S)' /\ Stands(S) \ {l} \subseteq Stands(S)'
      BY <1>0, <2>1, <2>2, OneLetterMoves
    <3>3. UnderWay(S)' \subseteq UnderWay(S)
      BY <1>0, <1>1, <2>1 DEF UnderWay
    <3> QED
      BY <3>1, <3>2, <3>3
  <2>4. Chosen'
    <3>1. letter[l].taken <= now
      BY <1>0 DEF Past
    <3>2. \A q \in Senders : q # p /\ send[q].at = "handing" => send[q].letter # l
      BY <1>0, <1>2 DEF TypeOK
    <3>3. \A q \in Senders : q # p /\ send[q].at = "handing" => send[q].letter \in Letters
      BY DEF Rows, OneHander
    <3>4. ASSUME NEW q \in Senders, q # p, send'[q].at = "handing"
          PROVE  letter'[send'[q].letter].taken <= letter'[send'[q].letter].at
      BY <1>0, <1>1, <2>1, <3>2, <3>3, <3>4 DEF Chosen
    <3> QED
      BY <1>0, <1>1, <2>1, <3>1, <3>4 DEF Chosen
  <2> QED
    BY <1>0, <2>3, <2>4, PlacesKept
<1>3. CASE letter[l].status # "queued"
  <2>1. letter' = letter /\ send'[p].at = "idle"
    BY <1>0, <1>3 DEF _claim, TypeOK, Rest
  <2>2. \A k \in Letters : Handing(k)' <=> Handing(k)
    BY <1>0, <1>1, <2>1 DEF Handing
  <2>3. \A S \in SUBSET Boxes : /\ Late(S) \subseteq Late(S)' /\ Stands(S) \subseteq Stands(S)'
                                /\ UnderWay(S)' \subseteq UnderWay(S)
    BY <1>0, <1>1, <2>1, <2>2 DEF Late, Stands, UnderWay
  <2>4. Chosen'
    BY <1>0, <1>1, <2>1, ChosenStill
  <2> QED
    BY <1>0, <2>3, <2>4, PlacesKept
<1> QED
  BY <1>2, <1>3

LEMMA SenderLimited ==
    ASSUME Rows, Rows', Past, Limited, NEW p \in Senders, Sending(p)
    PROVE  Limited'
<1> DEFINE l == send[p].letter
           b == send[p].box
<1>0. letter \in [Letters -> Letter]
  BY DEF Rows, TypeOK
<1>1. CASE \E k \in Letters : choose(p, k)
  BY <1>1, ChooseLimited
<1>2. CASE _claim(p)
  BY <1>2, ClaimLimited
<1>3. ASSUME send[p].at = "handing"
      PROVE  l \in Letters /\ b \in Boxes /\ letter[l].status = "sending" /\ letter[l].box = b
  BY <1>3 DEF Rows, TypeOK, OneHander, Limited, Chosen
<1>4. CASE _settle(p)
  <2>1. /\ send[p].at = "handing" /\ send' = [send EXCEPT ![p] = Rest] /\ now' = now
        /\ UNCHANGED <<freed, before>> /\ box' = Marked(b, now)
        /\ mailed' = [mailed EXCEPT ![b] = @ + 1]
    BY <1>4 DEF _settle, Taken
  <2>2. /\ \A k \in Letters : k # l => letter'[k] = letter[k]
        /\ letter'[l].taken = now /\ letter'[l].status # "queued" /\ letter'[l].box = b
    BY <1>0, <1>3, <1>4, <2>1 DEF _settle, Letter
  <2> QED
    BY <1>3, <2>1, <2>2, HandEmptied
<1>5. CASE Refused(p)
  <2>1. /\ send[p].at = "handing" /\ send' = [send EXCEPT ![p] = Rest] /\ now' = now
        /\ UNCHANGED <<freed, before, mailed, box>>
        /\ \A k \in Letters : k # l => letter'[k] = letter[k]
    BY <1>0, <1>5 DEF Refused, history
  <2> QED
    BY <1>3, <2>1, HandEmptied
<1>6. CASE Broken(p)
  <2>1. /\ send[p].at = "handing" /\ send' = [send EXCEPT ![p] = Rest] /\ now' = now
        /\ UNCHANGED <<freed, before, box>>
    BY <1>6 DEF Broken
  <2>2. CASE UNCHANGED <<letter, mailed, woke>>
    BY <1>3, <2>1, <2>2, HandEmptied
  <2>3. CASE letter' = [letter EXCEPT ![l].taken = now] /\ Taken(l, b)
    <3>1. mailed' = [mailed EXCEPT ![b] = @ + 1]
      BY <2>3 DEF Taken
    <3>2. /\ \A k \in Letters : k # l => letter'[k] = letter[k]
          /\ letter'[l].taken = now /\ letter'[l].status # "queued" /\ letter'[l].box = b
      BY <1>0, <1>3, <2>1, <2>3 DEF Letter
    <3> QED
      BY <1>3, <2>1, <3>1, <3>2, HandEmptied
  <2> QED
    BY <1>6, <2>2, <2>3 DEF Broken
<1> QED
  BY <1>1, <1>2, <1>4, <1>5, <1>6 DEF Sending

\* A letter that no sender has in hand.
LEMMA LooseChosen ==
    ASSUME Rows, Chosen, NEW l \in Letters, ~Handing(l), send' = send,
           \A k \in Letters : k # l => letter'[k] = letter[k]
    PROVE  Chosen'
<1>1. \A q \in Senders : send[q].at = "handing" => send[q].letter \in Letters /\ send[q].letter # l
  BY DEF Rows, OneHander, Handing
<1> QED
  BY <1>1, ChosenStill

LEMMA LoosePlaces ==
    ASSUME NEW S \in SUBSET Boxes, NEW l \in Letters, now' = now, send' = send,
           \A k \in Letters : k # l => letter'[k] = letter[k],
           \/ letter[l].status = "queued"
           \/ /\ letter'[l].status # "queued" /\ letter'[l].box = letter[l].box
              /\ letter'[l].taken = letter[l].taken /\ letter'[l].at = letter[l].at
    PROVE  /\ Late(S) \subseteq Late(S)' /\ Stands(S) \subseteq Stands(S)'
           /\ UnderWay(S)' \subseteq UnderWay(S)
<1>1. \A k \in Letters : Handing(k)' <=> Handing(k)
  BY DEF Handing
<1>2. Late(S) \ {l} \subseteq Late(S)' /\ Stands(S) \ {l} \subseteq Stands(S)'
  BY <1>1, OneLetterMoves
<1>3. /\ l \in Late(S) => l \in Late(S)'
      /\ l \in Stands(S) => l \in Stands(S)'
  BY <1>1 DEF Late, Stands
<1>4. UnderWay(S)' = UnderWay(S)
  BY DEF UnderWay
<1> QED
  BY <1>2, <1>3, <1>4

LEMMA EventLimited ==
    ASSUME Rows, Rows', Limited, NEW l \in Letters, ByEvent(l)
    PROVE  Limited'
<1>0. /\ TypeOK /\ TypeOK' /\ Chosen /\ ~Handing(l) /\ letter \in [Letters -> Letter]
      /\ UNCHANGED <<now, send, mailed, freed, before>>
      /\ letter[l].status \in {"sending", "queued"}
  BY DEF ByEvent, Rows, TypeOK, Limited, history
<1>1. /\ \A k \in Letters : k # l => letter'[k] = letter[k]
      /\ letter'[l].status = "sent" /\ letter'[l].box = letter[l].box
      /\ letter'[l].taken = letter[l].taken
      /\ letter[l].status = "sending" => letter'[l].at = letter[l].at
  BY <1>0 DEF ByEvent, Letter
<1>2. Chosen'
  BY <1>0, <1>1, LooseChosen
<1>3. \A S \in SUBSET Boxes : /\ Late(S) \subseteq Late(S)' /\ Stands(S) \subseteq Stands(S)'
                              /\ UnderWay(S)' \subseteq UnderWay(S)
  BY <1>0, <1>1, LoosePlaces
<1>4. \A c \in Boxes : /\ box'[c].started = box[c].started
                       /\ \/ box'[c].first = box[c].first
                          \/ box[c].started # NEVER /\ box[c].first < box[c].started
  <2>1. letter[l].box \in Boxes \cup {NoBox}
    BY <1>0 DEF Letter
  <2>2. PICK at : box' = Marked(letter[l].box, at)
    BY DEF ByEvent
  <2> QED
    BY <1>0, <2>1, <2>2, MarkedRow
<1> QED
  BY <1>0, <1>2, <1>3, <1>4, PlacesKept

LEMMA BackLimited ==
    ASSUME Rows, Rows', Limited, NEW l \in Letters, _back(l) \/ _return(l)
    PROVE  Limited'
<1>0. /\ TypeOK /\ TypeOK' /\ Chosen /\ letter \in [Letters -> Letter] /\ Freed(l)
      /\ UNCHANGED <<now, box, send, mailed, before>>
  BY DEF _back, _return, Rows, TypeOK, Limited
<1>1. ~Handing(l)
  BY DEF _back, _return, Rows, TypeOK, Handing
<1>2. \A k \in Letters : k # l => letter'[k] = letter[k]
  BY <1>0 DEF _back, _return
<1>3. Chosen'
  BY <1>0, <1>1, <1>2, LooseChosen
<1>4. Eases
  <2> SUFFICES ASSUME NEW S \in SUBSET Boxes PROVE Placed(S)' /\ Eased(S)
    BY DEF Eases
  <2>1. \A k \in Letters : Handing(k)' <=> Handing(k)
    BY <1>0 DEF Handing
  <2>2. Late(S) \ {l} \subseteq Late(S)' /\ Stands(S) \ {l} \subseteq Stands(S)'
    BY <1>0, <1>2, <2>1, OneLetterMoves
  <2>3. UnderWay(S)' = UnderWay(S) /\ Placed(S)
    BY <1>0 DEF UnderWay, Limited
  <2> QED
    BY <1>0, <2>2, <2>3, PutBack
<1>5. Grows
  BY <1>0, AllowedGrows DEF Grows
<1> QED
  BY <1>0, <1>3, <1>4, <1>5, LimitedStill

LEMMA CommitLimited ==
    ASSUME Rows, Rows', Limited, NEW h \in Hooks, Commit(h)
    PROVE  Limited'
<1>0. PICK l \in Letters : l = hook[h].letter /\ letter[l].status = "sent"
  BY DEF Commit, Rows, HookRows
<1>1. /\ TypeOK /\ TypeOK' /\ Chosen /\ ~Handing(l) /\ letter \in [Letters -> Letter]
      /\ UNCHANGED <<now, send, mailed, freed, before>>
  BY <1>0 DEF Commit, Rows, TypeOK, Limited, history, Handing
<1>2. /\ \A k \in Letters : k # l => letter'[k] = letter[k]
      /\ letter'[l].status # "queued" /\ letter'[l].box = letter[l].box
      /\ letter'[l].taken = letter[l].taken /\ letter'[l].at = letter[l].at
  BY <1>0, <1>1 DEF Commit, Letter
<1>3. Chosen'
  BY <1>1, <1>2, LooseChosen
<1>4. \A S \in SUBSET Boxes : /\ Late(S) \subseteq Late(S)' /\ Stands(S) \subseteq Stands(S)'
                              /\ UnderWay(S)' \subseteq UnderWay(S)
  BY <1>1, <1>2, LoosePlaces
<1>5. \A c \in Boxes : box'[c].started = box[c].started /\ box'[c].first = box[c].first
  BY <1>1 DEF Commit, TypeOK, Box
<1> QED
  BY <1>1, <1>3, <1>4, <1>5, PlacesKept

\* Nothing of the day changes: no letter, no sender, no count.
LEMMA SameDay ==
    ASSUME NEW S \in SUBSET Boxes, Day(now') = Day(now), UNCHANGED <<letter, send, mailed, freed>>
    PROVE  /\ Late(S)' = Late(S) /\ Stands(S)' = Stands(S) /\ UnderWay(S)' = UnderWay(S)
           /\ Used(S)' = Used(S) /\ Uncounted(S)' = Uncounted(S)
           /\ Placed(S) => Placed(S)'
<1>1. \A k \in Letters : Handing(k)' <=> Handing(k)
  BY DEF Handing
<1>2. Late(S)' = Late(S) /\ Stands(S)' = Stands(S) /\ UnderWay(S)' = UnderWay(S)
  BY <1>1 DEF Late, Stands, UnderWay
<1>3. Given(S)' = Given(S) /\ Total(freed, S)' = Total(freed, S)
  BY DEF Given
<1> QED
  BY <1>2, <1>3 DEF Used, Uncounted, Placed

LEMMA SameChosen ==
    ASSUME Chosen, UNCHANGED <<letter, send>>
    PROVE  Chosen'
BY DEF Chosen

LEMMA listenLimited ==
    ASSUME Rows, Rows', Limited, NEW h \in Hooks, NEW l \in Letters, listen(h, l)
    PROVE  Limited'
<1>1. /\ UNCHANGED <<now, letter, box, send, mailed, freed, before>> /\ TypeOK /\ TypeOK'
  BY DEF listen, Rows, history
<1>2. Chosen'
  BY <1>1, SameChosen DEF Limited
<1>3. \A S \in SUBSET Boxes : /\ Late(S)' = Late(S) /\ Stands(S)' = Stands(S)
                              /\ UnderWay(S)' = UnderWay(S)
  BY <1>1, SameDay
<1> QED
  BY <1>1, <1>2, <1>3, PlacesKept

LEMMA GivenByOne ==
    ASSUME TypeOK, NEW b \in Boxes
    PROVE  Given({b}) = mailed[b]
<1>1. mailed[b] \in Nat
  BY DEF TypeOK
<1> DEFINE B == {b}
<1>2. IsFiniteSet(B) /\ b \in B
  BY FS_Singleton
<1>3. \A c \in B : mailed[c] \in Int
  BY <1>1
<1>4. B \ {b} = {}
  OBVIOUS
<1> HIDE DEF B
<1>5. Total(mailed, B) = mailed[b] + Total(mailed, B \ {b})
  BY <1>2, <1>3, TotalTake
<1> QED
  BY <1>1, <1>4, <1>5, TotalNone DEF Given, B

\* What was used before the warm-up began anew is remembered.
LEMMA enableLimited ==
    ASSUME Rows, Rows', Limited, NEW b \in Boxes, enable(b)
    PROVE  Limited'
<1>0. /\ TypeOK /\ TypeOK' /\ UNCHANGED <<now, letter, send, mailed, freed>>
      /\ before'[b] = mailed[b] + Cardinality(UnderWay({b}))
      /\ \A c \in Boxes : c # b => before'[c] = before[c] /\ box'[c] = box[c]
  BY DEF enable, Rows, TypeOK
<1>1. Chosen'
  BY <1>0, SameChosen DEF Limited
<1>2. ASSUME NEW S \in SUBSET Boxes
      PROVE  Placed(S)' /\ Used(S)' = Used(S) /\ Uncounted(S)' = Uncounted(S)
  BY <1>0, SameDay DEF Limited
<1>3. ASSUME NEW c \in Boxes PROVE Within({c}, Allowed(c))'
  <2>1. Used({c})' = Used({c}) /\ Uncounted({c})' = Uncounted({c})
    BY <1>2, BoxSets
  <2>2. CASE c = b
    <3>1. Given({b}) = mailed[b]
      BY <1>0, GivenByOne
    <3>2. Used({b}) = before'[b]
      BY <1>0, <3>1 DEF Used
    <3>3. before'[b] <= Allowed(b)' /\ Allowed(b)' \in Nat
      BY <1>0, NumbersAfter
    <3>4. Used({b}) \in Nat /\ Uncounted({b}) \in Nat
      BY <1>0, BoxSets, DayNumbers
    <3>5. Used({b})' <= Allowed(b)' + Others + Uncounted({b})'
      BY <2>1, <2>2, <3>2, <3>3, <3>4, SenderSets
    <3> QED
      BY <2>2, <3>5 DEF Within, Others
  <2>3. CASE c # b
    <3>1. Allowed(c)' = Allowed(c)
      BY <1>0, <2>3 DEF Allowed, warmup_state, first_letter
    <3>2. Within({c}, Allowed(c))
      BY DEF Limited
    <3> QED
      BY <2>1, <3>1, <3>2 DEF Within, Others
  <2> QED
    BY <2>2, <2>3
<1>4. ASSUME NEW c \in Boxes PROVE Within(Siblings(c), DomainLimit)'
  <2>1. Used(Siblings(c))' = Used(Siblings(c)) /\ Uncounted(Siblings(c))' = Uncounted(Siblings(c))
    BY <1>2, BoxSets
  <2>2. Within(Siblings(c), DomainLimit)
    BY DEF Limited
  <2> QED
    BY <2>1, <2>2 DEF Within, Others, Siblings
<1>5. Within(Boxes, Direction)'
  <2>1. Used(Boxes)' = Used(Boxes) /\ Uncounted(Boxes)' = Uncounted(Boxes)
    BY <1>2, BoxSets
  <2>2. Within(Boxes, Direction)
    BY DEF Limited
  <2> QED
    BY <2>1, <2>2 DEF Within, Others
<1> QED
  BY <1>1, <1>2, <1>3, <1>4, <1>5 DEF Limited

LEMMA TickLimited ==
    ASSUME Rows, Rows', Past, Limited, Tick
    PROVE  Limited'
<1>0. /\ TypeOK /\ TypeOK' /\ UNCHANGED <<letter, box, send>> /\ now' = now + 1
      /\ now \in Int /\ Chosen
  BY Moments DEF Tick, Rows, Limited
<1>1. Chosen'
  BY <1>0, SameChosen
<1>2. CASE Day(now + 1) = Day(now)
  <2>1. Day(now') = Day(now) /\ UNCHANGED <<mailed, freed, before>>
    BY <1>0, <1>2 DEF Tick
  <2>2. \A S \in SUBSET Boxes : /\ Late(S)' = Late(S) /\ Stands(S)' = Stands(S)
                                /\ UnderWay(S)' = UnderWay(S)
    BY <1>0, <2>1, SameDay
  <2> QED
    BY <1>0, <1>1, <2>1, <2>2, PlacesKept
\* A new day begins: nothing is given, and the senders under way are the others and one.
<1>3. CASE Day(now + 1) # Day(now)
  <2>1. /\ \A b \in Boxes : mailed'[b] = 0 /\ freed'[b] = 0
    BY <1>3 DEF Tick
  <2>2. ASSUME NEW S \in SUBSET Boxes
        PROVE  /\ Given(S)' = 0 /\ Total(freed, S)' = 0
               /\ Cardinality(Stands(S)') \in Nat /\ Cardinality(UnderWay(S)') \in Nat
               /\ Uncounted(S)' \in Nat
               /\ Cardinality(UnderWay(S)') <= Others + 1
               /\ Cardinality(UnderWay(S)') # 0 => 0 < DailyCap /\ 0 < DomainLimit /\ 0 < Direction
    <3>1. IsFiniteSet(S)
      BY BoxAssumption, FS_Subset
    <3>2. Total(mailed', S) = 0 /\ Total(freed', S) = 0
      BY <2>1, <3>1, TotalZero
    <3>3. Stands(S)' \in SUBSET Letters /\ UnderWay(S)' \in SUBSET Senders
      BY DEF Stands, UnderWay
    <3>4. /\ Cardinality(Stands(S)') \in Nat /\ Cardinality(UnderWay(S)') \in Nat
          /\ Cardinality(UnderWay(S)') <= Others + 1
      BY <3>3, SmallSets, SenderSets DEF Others
    <3>5. Cardinality(UnderWay(S)') # 0 => 0 < DailyCap /\ 0 < DomainLimit /\ 0 < Direction
      <4>1. UnderWay(S)' # {} => \E p \in Senders : send[p].at # "idle"
        BY <1>0 DEF UnderWay
      <4>2. UnderWay(S)' = {} => Cardinality(UnderWay(S)') = 0
        BY FS_EmptySet
      <4> QED
        BY <1>0, <4>1, <4>2 DEF Chosen
    <3>6. Uncounted(S)' \in Nat
      BY <1>0, NumbersAfter
    <3> QED
      BY <3>2, <3>4, <3>5, <3>6 DEF Given
  <2>3. \A S \in SUBSET Boxes : Placed(S)'
    BY <2>2 DEF Placed
  <2>4. ASSUME NEW S \in SUBSET Boxes, NEW n \in Nat,
               0 < DailyCap /\ 0 < DomainLimit /\ 0 < Direction => 1 <= n
        PROVE  Used(S)' <= n + Others + Uncounted(S)'
    <3>1. Used(S)' = Cardinality(UnderWay(S)')
      BY <2>2 DEF Used
    <3>2. Others \in Nat
      BY SenderSets
    <3> QED
      BY <2>2, <2>4, <3>1, <3>2
  <2>5. ASSUME NEW b \in Boxes PROVE Within({b}, Allowed(b))' /\ Within(Siblings(b), DomainLimit)'
    <3>1. /\ Allowed(b)' \in Nat /\ warmup_state(b)' \in Nat
          /\ Least(DailyCap, Steps[1]) <= warmup_state(b)' /\ warmup_state(b)' <= Allowed(b)'
      BY <1>0, NumbersAfter
    <3>2. 0 < DailyCap => 1 <= Least(DailyCap, Steps[1])
      <4>1. Steps[1] \in Nat /\ DailyCap \in Nat
        BY BoxAssumption
      <4>2. 0 < Steps[1]
        BY StepAssumption
      <4> QED
        BY <4>1, <4>2 DEF Least
    <3>3. Least(DailyCap, Steps[1]) \in Nat
      <4>1. Steps[1] \in Nat /\ DailyCap \in Nat
        BY BoxAssumption
      <4> QED
        BY <4>1 DEF Least
    <3>4. 0 < DailyCap => 1 <= Allowed(b)'
      BY <3>1, <3>2, <3>3
    <3>5. Used({b})' <= Allowed(b)' + Others + Uncounted({b})'
      BY <2>4, <3>1, <3>4, BoxSets
    <3>6. DomainLimit \in Nat /\ (0 < DomainLimit => 1 <= DomainLimit)
      BY BoxAssumption
    <3>7. Used(Siblings(b))' <= DomainLimit + Others + Uncounted(Siblings(b))'
      BY <2>4, <3>6, BoxSets
    <3> QED
      BY <3>5, <3>7 DEF Within, Others, Siblings
  <2>6. Within(Boxes, Direction)'
    <3>1. Direction \in Nat /\ (0 < Direction => 1 <= Direction)
      BY BoxAssumption
    <3>2. Used(Boxes)' <= Direction + Others + Uncounted(Boxes)'
      BY <2>4, <3>1, BoxSets
    <3> QED
      BY <3>2 DEF Within, Others
  <2> QED
    BY <1>1, <2>3, <2>5, <2>6 DEF Limited
<1> QED
  BY <1>2, <1>3

LEMMA LimitedNext == Rows /\ Past /\ Limited /\ [Next]_vars => Limited'
<1> SUFFICES ASSUME Rows, Past, Limited, [Next]_vars PROVE Limited'
  OBVIOUS
<1>0. Rows'
  BY NextRows
<1>1. CASE UNCHANGED vars
  <2>1. /\ UNCHANGED <<now, letter, box, send, mailed, freed, before>> /\ TypeOK /\ TypeOK'
    BY <1>0, <1>1 DEF vars, history, Rows
  <2>2. Chosen'
    BY <2>1, SameChosen DEF Limited
  <2>3. \A S \in SUBSET Boxes : /\ Late(S)' = Late(S) /\ Stands(S)' = Stands(S)
                                /\ UnderWay(S)' = UnderWay(S)
    BY <2>1, SameDay
  <2> QED
    BY <2>1, <2>2, <2>3, PlacesKept
<1>2. CASE \E p \in Senders : Sending(p)
  BY <1>0, <1>2, SenderLimited
<1>3. ASSUME NEW l \in Letters, ByEvent(l) \/ _back(l) \/ _return(l) PROVE Limited'
  BY <1>0, <1>3, EventLimited, BackLimited
<1>4. ASSUME NEW h \in Hooks, Commit(h) \/ \E l \in Letters : listen(h, l) PROVE Limited'
  BY <1>0, <1>4, CommitLimited, listenLimited
<1>5. ASSUME NEW b \in Boxes, enable(b) PROVE Limited'
  BY <1>0, <1>5, enableLimited
<1>6. CASE Tick
  BY <1>0, <1>6, TickLimited
<1> QED
  BY <1>1, <1>2, <1>3, <1>4, <1>5, <1>6 DEF Next

LEMMA InitLimited == Init => Limited
<1> SUFFICES ASSUME Init PROVE Limited
  OBVIOUS
<1>0. TypeOK
  BY InitRows DEF Rows
<1>1. Chosen
  BY DEF Init, Chosen, Rest
<1>2. ASSUME NEW S \in SUBSET Boxes
      PROVE  Given(S) = 0 /\ Used(S) = 0 /\ Placed(S) /\ Uncounted(S) \in Nat
  <2>1. IsFiniteSet(S) /\ \A b \in S : mailed[b] = 0
    BY BoxAssumption, FS_Subset DEF Init
  <2>2. Given(S) = 0
    BY <2>1, TotalZero DEF Given
  <2>3. UnderWay(S) = {}
    BY DEF Init, UnderWay, Rest
  <2>4. Used(S) = 0
    BY <2>2, <2>3, FS_EmptySet DEF Used
  <2>5. Total(freed, S) \in Nat /\ Cardinality(Stands(S)) \in Nat /\ Uncounted(S) \in Nat
    BY <1>0, DayTypes
  <2> QED
    BY <2>2, <2>4, <2>5 DEF Placed
<1>3. ASSUME NEW S \in SUBSET Boxes, NEW n \in Nat PROVE Within(S, n)
  BY <1>2, SenderSets DEF Within
<1>4. \A b \in Boxes : Allowed(b) \in Nat
  BY <1>0, AllowedNumbers
<1> QED
  BY <1>1, <1>2, <1>3, <1>4, BoxSets, BoxAssumption DEF Limited

\* What the platform takes from a box, a domain, a direction in a day exceeds its limit
\* by no more than the other senders and the places that are not counted: a lost answer
\* leaves its letter counted, and a sender counts before it claims (sent_today,
\* limits.screen, Sending.send).
THEOREM WithinLimitsHolds == Spec => []WithinLimits
<1>1. TypeOK /\ Limited => WithinLimits
  <2> SUFFICES ASSUME TypeOK, Limited PROVE WithinLimits
    OBVIOUS
  <2>1. ASSUME NEW S \in SUBSET Boxes, NEW n \in Nat, Within(S, n)
        PROVE  Given(S) <= n + Others + Uncounted(S)
    BY <2>1, DayTypes, SenderSets DEF Within, Used
  <2>2. ASSUME NEW b \in Boxes
        PROVE  /\ mailed[b] <= Most(warmup_state(b), before[b]) + Others + Uncounted({b})
               /\ Given(Siblings(b)) <= DomainLimit + Others + Uncounted(Siblings(b))
    <3>1. Within({b}, Allowed(b)) /\ Within(Siblings(b), DomainLimit)
      BY DEF Limited
    <3>2. Allowed(b) \in Nat /\ DomainLimit \in Nat
      BY AllowedNumbers, BoxAssumption
    <3>3. /\ Given({b}) <= Allowed(b) + Others + Uncounted({b})
          /\ Given(Siblings(b)) <= DomainLimit + Others + Uncounted(Siblings(b))
      BY <2>1, <3>1, <3>2, BoxSets
    <3> QED
      BY <3>3, GivenByOne DEF Allowed
  <2>3. Given(Boxes) <= Direction + Others + Uncounted(Boxes)
    BY <2>1, BoxSets, BoxAssumption DEF Limited
  <2> QED
    BY <2>2, <2>3 DEF WithinLimits
<1>2. Init => Rows /\ Past /\ Limited
  BY InitRows, PastInit, InitLimited
<1>3. Rows /\ Past /\ Limited /\ [Next]_vars => (Rows /\ Past /\ Limited)'
  BY NextRows, PastNext, LimitedNext
<1>4. Rows => TypeOK
  BY DEF Rows
<1> QED
  BY <1>1, <1>2, <1>3, <1>4, PTL DEF Spec
=============================================================================
