----------------------------- MODULE LetterDocs -----------------------------
(***************************************************************************)
(* What the comments of the code say of the letters of a conversation, and *)
(* what LetterLife, translated from the code, does not keep.  Every         *)
(* property is checked by a run that ends in a counterexample.             *)
(***************************************************************************)
EXTENDS LetterLife

\* outreach/repository.py, followup_pending: an answer and an opt-out put out
\* the due date, there is no such chain.  A letter is still "sending" when the
\* answer is taken in, and gets its due date afterwards.
AnswerEndsChain == \A l \in Letters :
    ~(thread # "open" /\ letter[l].status \in CHAINABLE /\ letter[l].due)
=============================================================================
