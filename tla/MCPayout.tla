------------------------------ MODULE MCPayout ------------------------------
(***************************************************************************)
(* TLC instances of PayoutProperties: two sessions are the fewest with     *)
(* which one acts on what it read before the other wrote, two intents the  *)
(* fewest with which a claim is paid, or reverted, by the wrong one.       *)
(***************************************************************************)
EXTENDS PayoutProperties, TLC

Symmetry == Permutations(Sessions)

=============================================================================
