------------------------------ MODULE MCMailbox ------------------------------
(* Mailbox on small instances: letters, senders and deliveries are           *)
(* interchangeable; all the boxes are of one domain.                         *)
EXTENDS Mailbox, TLC

MCDomain == [b \in Boxes |-> "d"]
MCSteps == <<1, 2>>

Symmetry == Permutations(Letters) \cup Permutations(Senders) \cup Permutations(Hooks)
=============================================================================
