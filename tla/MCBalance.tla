------------------------------ MODULE MCBalance ------------------------------
(***************************************************************************)
(* TLC instances of BalanceProperties: two postings that share a key are   *)
(* the fewest with an older and a newer refresh.                           *)
(***************************************************************************)
EXTENDS BalanceProperties, TLC

CONSTANTS p1, p2, p3

\* Two postings with lines on every key, which sessions can lock in opposite
\* orders, and a third on the first key only.
LinesShared == [p \in Postings |-> IF p = p3 THEN {1} ELSE Keys]

Symmetry == Permutations(Relays) \cup Permutations({p1, p2})

=============================================================================
