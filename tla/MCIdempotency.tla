---------------------------- MODULE MCIdempotency ----------------------------
(***************************************************************************)
(* TLC instances of IdempotencyProperties: a takeover contest needs an     *)
(* owner that is late and two requests that find its reservation stale.    *)
(***************************************************************************)
EXTENDS IdempotencyProperties

CONSTANTS k1, k2, r1, r2, r3, r4, r5

\* k1 is claimed by a placeholder, k2 in the operation's transaction.
KeysOfRequests ==
  [r \in Requests |-> IF r \in {r1, r2, r3} THEN k1 ELSE k2]

=============================================================================
