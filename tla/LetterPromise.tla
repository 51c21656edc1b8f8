---------------------------- MODULE LetterPromise ----------------------------
(***************************************************************************)
(* What the sending of letters promises to the recipient, whoever sends:   *)
(* a letter is given to the platform at most as many times as it was       *)
(* allowed to, that is once and once more for every return to the queue;   *)
(* the letters of a chain begin in their order; and once the conversation  *)
(* has fallen silent no letter is given to the platform any more.          *)
(* LetterLife implements it.                                                *)
(***************************************************************************)
EXTENDS Naturals

CONSTANT MaxSteps   \* chain.MAX_STEPS

Letters == 0..(MaxSteps - 1)

VARIABLES
    given,     \* how many times the platform has taken each letter
    allowed,   \* how many times it was allowed to be given
    silent     \* nobody may write any more

vars == <<given, allowed, silent>>

Init ==
    /\ given = [l \in Letters |-> 0]
    /\ allowed = [l \in Letters |-> IF l = 0 THEN 1 ELSE 0]
    /\ silent = FALSE

\* The due date has come: the follow-up of a letter that went is born.
Born(l) ==
    /\ l > 0 /\ given[l - 1] > 0 /\ allowed[l] = 0
    /\ allowed' = [allowed EXCEPT ![l] = 1]
    /\ UNCHANGED <<given, silent>>

\* Somebody returns a letter to the queue: a person who has not found it in the
\* platform's journal, or the pass of DNS returns.
Return(l) ==
    /\ allowed[l] > 0
    /\ allowed' = [allowed EXCEPT ![l] = @ + 1]
    /\ UNCHANGED <<given, silent>>

\* The platform takes the letter.
Give(l) ==
    /\ ~silent /\ given[l] < allowed[l]
    /\ given' = [given EXCEPT ![l] = @ + 1]
    /\ UNCHANGED <<allowed, silent>>

\* The addressee has opted out, and the sends that were on their way are over.
FallSilent ==
    /\ silent' = TRUE
    /\ UNCHANGED <<given, allowed>>

Next == FallSilent \/ \E l \in Letters : Born(l) \/ Return(l) \/ Give(l)

Spec == Init /\ [][Next]_vars
=============================================================================
