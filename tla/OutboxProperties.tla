-------------------------- MODULE OutboxProperties --------------------------
(***************************************************************************)
(* What the outbox protocol of module Outbox has to guarantee, and the     *)
(* mapping under which it implements OutboxDelivery.                       *)
(***************************************************************************)
EXTENDS Outbox

\* Every variable ranges over the values the columns and the task can hold;
\* a delivering worker works on an event of its own batch.
TypeOK ==
  /\ row \in [Events -> Rows]
  /\ worker \in [Workers -> Tasks]
  /\ operator \in [Operators -> {None} \cup [ev : Events, row : Rows]]
  /\ applied \in [Events -> Nat]
  /\ faults \in 0..MaxFaults
  /\ requeues \in 0..MaxRequeues

\* A relay task has a token exactly while it has a batch; the event it is
\* delivering is one of the batch, and has a handler.
WorkersHoldBatches == \A w \in Workers :
  /\ worker[w].pc = "idle" => worker[w] = Idle
  /\ worker[w].pc # "idle" => worker[w].token # None
  /\ worker[w].pc = "loaded" => /\ worker[w].ev \in worker[w].batch
                                /\ Kind[worker[w].ev] = "handled"

\* No two relay tasks stamp the same token.
TokensAreUnique == \A v, w \in Workers :
  worker[v].token = worker[w].token /\ worker[v].token # None => v = w

\* The retry count a requeue request does not reset (it loaded zero) has
\* grown by one at most, and then the event is not due before it ends.
RequeueSeesRetries == \A o \in Operators : operator[o] # None =>
  LET e == operator[o].ev IN
  operator[o].row.retry = 0 =>
    \/ row[e].retry = 0
    \/ row[e].retry = 1 /\ ~row[e].due /\ row[e].token = None

\* A row is inserted with a retry count of zero.
NewRowsHaveNoRetries == \A e \in Events :
  row[e].status = "NONE" => row[e].retry = 0

\* Only a row that still waits for delivery carries a claim, and it carries
\* token and lease together: every settlement and requeue releases both.
ClaimsAreOnQueuedRows == \A e \in Events :
  /\ row[e].token = None <=> row[e].lease = "none"
  /\ row[e].token # None => row[e].status \in Queued

\* Two relay tasks never hold the current claim of one event.
OneClaimantPerEvent == \A e \in Events, v, w \in Workers :
  HeldBy(v, e) /\ HeldBy(w, e) /\ row[e].token # None => v = w

\* A waiting event never reaches the retry count at which the claim query
\* stops selecting it: it is dead-lettered by then, not left behind.
NeverStranded == \A e \in Events :
  row[e].status \in Queued => row[e].retry < ClaimMaxRetry

\* PUBLISHED means applied: the consequence was committed with the status,
\* and events without a handler or an organization are never published.
PublishedMeansApplied == \A e \in Events :
  row[e].status \in {"PUBLISHED", "DELETED"} =>
    /\ applied[e] > 0
    /\ Kind[e] \in {"handled", "no_consequence"}

\* The inductive invariant of the proofs.
IInv ==
  /\ TypeOK
  /\ WorkersHoldBatches
  /\ TokensAreUnique
  /\ ClaimsAreOnQueuedRows
  /\ RequeueSeesRetries
  /\ NewRowsHaveNoRetries
  /\ NeverStranded
  /\ PublishedMeansApplied

\* While a lease runs its claim can be released, never handed to another.
LiveLeaseIsNotTaken == [][\A e \in Events :
  row[e].lease = "live" => row'[e].token \in {row[e].token, None}]_vars

\* A failed delivery counts against an event, or buries it, only when the
\* worker that failed still holds the event's claim.
OnlyClaimantRecordsFailure == [][\A e \in Events :
  (row'[e].retry > row[e].retry \/ (row[e].status # "DEAD" /\ row'[e].status = "DEAD")) =>
    \E w \in Workers : HeldBy(w, e) /\ e \notin worker'[w].batch]_vars

\* Every published event is settled in the end, whatever fails, as long as
\* the faults and the operators' requeues are finitely many.
EventuallySettled == \A e \in Events :
  row[e].status \in Queued ~> row[e].status \in {"PUBLISHED", "DEAD", "DELETED"}

\* What outbox_relay.py says of settlement: a claimant whose lease expired
\* and was taken over cannot settle.
StaleClaimantCannotSettle == [][\A e \in Events :
  applied'[e] # applied[e] =>
    \E w \in Workers : HeldBy(w, e) /\ e \notin worker'[w].batch]_vars

-----------------------------------------------------------------------------
DeliveryState(e) ==
  CASE row[e].status = "NONE" -> "unborn"
    [] row[e].status \in Queued -> "queued"
    [] row[e].status = "PUBLISHED" -> "delivered"
    [] row[e].status = "DEAD" -> "dead"
    [] OTHER -> "gone"

Delivery == INSTANCE OutboxDelivery
  WITH state <- [e \in Events |-> DeliveryState(e)], effects <- applied

\* The outbox delivers at least once and records exactly what it applied.
ImplementsDelivery == Delivery!Spec

=============================================================================
