------------------------------- MODULE MCSaga -------------------------------
(***************************************************************************)
(* TLC instance of SagaProperties: a step of each kind, in the order of    *)
(* the AP saga (validate_invoice, create_journal, post_to_ledger), and two *)
(* runners, so that one takes up what the other left.                      *)
(***************************************************************************)
EXTENDS SagaProperties, TLC

Symmetry == Permutations(Runners)

=============================================================================
