------------------------------ MODULE MCOutbox ------------------------------
(***************************************************************************)
(* TLC instances of OutboxProperties: two events and two relay workers are *)
(* the fewest with which a claim is taken over while a batch is half done. *)
(***************************************************************************)
EXTENDS OutboxProperties, TLC

CONSTANTS e1, e2

\* e1 needs a handler; recording e2 is its whole consequence.
KindMixed == [e \in Events |-> IF e = e1 THEN "handled" ELSE "no_consequence"]

Symmetry == Permutations(Tokens) \cup Permutations(Workers)

=============================================================================
