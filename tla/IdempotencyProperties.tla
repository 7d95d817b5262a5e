------------------------ MODULE IdempotencyProperties ------------------------
(***************************************************************************)
(* What callers of an idempotent endpoint may rely on, however their       *)
(* requests overlap, die and are sent again.                               *)
(***************************************************************************)
EXTENDS Idempotency

\* Records, requests and counters stay in their ranges.
TypeOK ==
  /\ record \in [Keys -> Records]
  /\ request \in [Requests -> Attempts]
  /\ holder \in [Keys -> Requests \cup {None}]
  /\ effect \in [Keys -> Counts]
  /\ faults \in 0..MaxFaults
  /\ expiries \in 0..MaxExpiries

\* Once any execution of the operation is committed, its key is answered:
\* update_response commits both together, so that neither a crash nor a
\* takeover ever repeats an execution that had been committed before.
ExecutionClosesTheKey == \A k \in Keys :
  effect[k] > 0 => record[k].status \in Outcomes

\* Where the reservation belongs to the operation's transaction, the operation
\* is executed exactly once if the key is answered, and not at all if it is
\* not (check_or_reserve_transactional_idempotency).
TransactionalIsExactlyOnce == \A k \in Transactional :
  effect[k] = IF record[k].status \in Outcomes THEN 1 ELSE 0

Owns(r, k) == KeyOf[r] = k /\ request[r].pc = "running" /\ ~request[r].lapsed

\* A lapsed reservation is taken over by one request: of those that found it
\* stale, no two run while their lease lasts (take_over_reservation).
OneWinnerPerLapse == \A k \in Keys, q, r \in Requests :
  Owns(q, k) /\ Owns(r, k) /\ request[q].won /\ request[r].won => q = r

\* An insertion that waits for its transaction to end is that of the only
\* request that runs under a transactional key.
OneTransactionPerKey == \A r \in Requests :
  KeyOf[r] \in Transactional =>
    (request[r].pc = "running" <=> holder[KeyOf[r]] = r)

\* The docstring of check_or_reserve_idempotency: None means that the caller
\* now owns the operation, so that no other request runs it beside the caller
\* while its lease lasts.
NoneMeansOwned == \A k \in Keys, q, r \in Requests :
  Owns(q, k) /\ Owns(r, k) => q = r

\* A reservation whose owner died is not replayed for ever: the key gets an
\* outcome, or is free again, as long as clients keep asking.
ReservationsEnd == \A k \in Keys :
  record[k].status = "reserved" ~> record[k].status # "reserved"

=============================================================================
