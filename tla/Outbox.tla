------------------------------- MODULE Outbox -------------------------------
(***************************************************************************)
(* The event outbox: OutboxPublisher (the rows and their transitions) and  *)
(* the relay task that claims, delivers and settles them.                  *)
(*                                                                         *)
(* A row is claimed in a short committed transaction that stamps a token   *)
(* and a lease.  Each claimed event is then delivered in a session of its  *)
(* own: the session loads the row, runs the handler, and settles in the    *)
(* same transaction.  Success is settled against the token the session     *)
(* LOADED (the row is already in the session's identity map, and a locking *)
(* get does not refresh it); failure is settled after a rollback, which    *)
(* expires the session, so it reads the token now in the table.            *)
(***************************************************************************)
EXTENDS Naturals, FiniteSets

CONSTANTS
  Events,          \* rows of platform.event_outbox
  Workers,         \* Celery processes running relay_outbox_events
  Operators,       \* sessions of the requeue page
  Tokens,          \* claim tokens (uuid4: fresh among those still in use)
  None,            \* NULL
  Kind,            \* what the handler registry says of each event
  MaxRetryCount,   \* OutboxPublisher.MAX_RETRY_COUNT
  ClaimMaxRetry,   \* max_retry_count passed by relay_outbox_events
  BatchSize,       \* events claimed per run
  MaxFaults,       \* bound: crashes, late workers, failed settlements
  MaxRequeues      \* bound: times an operator puts an event back

Kinds == {"handled", "no_consequence", "unsupported", "orgless"}

ASSUME OutboxConstants ==
  /\ None \notin Tokens
  /\ None \notin Events
  /\ Kind \in [Events -> Kinds]
  /\ MaxRetryCount \in Nat \ {0, 1}
  /\ ClaimMaxRetry \in Nat
  /\ MaxRetryCount <= ClaimMaxRetry
  /\ BatchSize \in Nat \ {0}
  /\ MaxFaults \in Nat
  /\ MaxRequeues \in Nat

VARIABLES
  row,        \* the outbox table
  worker,     \* the relay tasks
  operator,   \* the requeue requests
  applied,    \* applied[e]: committed transactions that applied e
  faults,     \* faults spent so far
  requeues    \* requeues spent so far

vars == <<row, worker, operator, applied, faults, requeues>>

-----------------------------------------------------------------------------
Queued   == {"PENDING", "FAILED"}
Statuses == Queued \cup {"NONE", "PUBLISHED", "DEAD", "DELETED"}
Leases   == {"none", "live", "expired"}

\* The columns the protocol reads: due says next_retry_at is NULL or past.
Rows == [status : Statuses, retry : Nat, due : BOOLEAN,
         token : Tokens \cup {None}, lease : Leases]

\* A relay task: its claim, the rest of its batch, and the event its delivery
\* session works on with the token that session loaded.
Tasks == [pc : {"idle", "busy", "loaded"}, token : Tokens \cup {None},
          batch : SUBSET Events, ev : Events \cup {None},
          seen : Tokens \cup {None}]

Unpublished == [status |-> "NONE", retry |-> 0, due |-> TRUE,
                token |-> None, lease |-> "none"]

Idle == [pc |-> "idle", token |-> None, batch |-> {}, ev |-> None, seen |-> None]

Exists(e) == row[e].status \notin {"NONE", "DELETED"}

Init ==
  /\ row = [e \in Events |-> Unpublished]
  /\ worker = [w \in Workers |-> Idle]
  /\ operator = [o \in Operators |-> None]
  /\ applied = [e \in Events |-> 0]
  /\ faults = 0
  /\ requeues = 0

-----------------------------------------------------------------------------
(* Producers *)

\* publish_event, in the producer's transaction.
PublishEvent(e) ==
  /\ row[e].status = "NONE"
  /\ row' = [row EXCEPT ![e].status = "PENDING"]
  /\ UNCHANGED <<worker, operator, applied, faults, requeues>>

-----------------------------------------------------------------------------
(* Claim *)

\* Variant: the lease is not looked at.
ClaimableIgnoringLease(e) ==
  row[e].status \in Queued /\ row[e].retry < ClaimMaxRetry /\ row[e].due

\* Variant: an expired lease is never taken over.
ClaimableWithoutTakeover(e) == ClaimableIgnoringLease(e) /\ row[e].lease = "none"

\* The WHERE clause of claim_pending_events.
Claimable(e) ==
  /\ row[e].status \in Queued
  /\ row[e].retry < ClaimMaxRetry
  /\ row[e].due
  /\ row[e].lease # "live"

\* Variant: a token in use can come up again.
AnyToken == Tokens

FreshTokens == Tokens \ ({row[e].token : e \in Events} \cup {worker[w].token : w \in Workers})

\* SKIP LOCKED leaves out the rows another transaction holds, so any
\* non-empty part of the claimable rows can be the batch.
ClaimPendingEvents(w, batch) ==
  /\ worker[w].pc = "idle"
  /\ batch # {}
  /\ \A e \in batch : Claimable(e)
  /\ Cardinality(batch) <= BatchSize
  /\ \E t \in FreshTokens :
       /\ row' = [e \in Events |-> IF e \in batch
                                     THEN [row[e] EXCEPT !.token = t, !.lease = "live"]
                                     ELSE row[e]]
       /\ worker' = [worker EXCEPT ![w] = [Idle EXCEPT !.pc = "busy", !.token = t,
                                                       !.batch = batch]]
  /\ UNCHANGED <<operator, applied, faults, requeues>>

-----------------------------------------------------------------------------
(* Deliver and settle *)

\* The worker goes on to the rest of its batch, or ends the task.
Done(w, e) ==
  LET rest == worker[w].batch \ {e}
  IN  IF rest = {} THEN Idle
      ELSE [worker[w] EXCEPT !.pc = "busy", !.batch = rest, !.ev = None, !.seen = None]

Finish(w, e) == worker' = [worker EXCEPT ![w] = Done(w, e)]

\* _deliver_one finds a handler and loads the row into its session.
Load(w, e) ==
  /\ worker[w].pc = "busy"
  /\ e \in worker[w].batch
  /\ Kind[e] = "handled"
  /\ Exists(e)
  /\ worker' = [worker EXCEPT ![w].pc = "loaded", ![w].ev = e, ![w].seen = row[e].token]
  /\ UNCHANGED <<row, operator, applied, faults, requeues>>

Released(r) == [r EXCEPT !.token = None, !.lease = "none"]

\* Variant: the handler's mutations are not in the transaction.
PublishesUnapplied(e) ==
  /\ row' = [row EXCEPT ![e] = Released([row[e] EXCEPT !.status = "PUBLISHED"])]
  /\ UNCHANGED applied

Publishes(e) ==
  /\ row' = [row EXCEPT ![e] = Released([row[e] EXCEPT !.status = "PUBLISHED"])]
  /\ applied' = [applied EXCEPT ![e] = @ + 1]

Buries(e) ==
  /\ row' = [row EXCEPT ![e] = Released([row[e] EXCEPT !.status = "DEAD"])]
  /\ UNCHANGED applied

\* Handler mutations, mark_published and the commit: one transaction.  The
\* token compared is the one the session loaded.
SettlePublished(w) ==
  LET e == worker[w].ev IN
  /\ worker[w].pc = "loaded"
  /\ Exists(e)
  /\ worker[w].seen = worker[w].token
  /\ Publishes(e)
  /\ Finish(w, e)
  /\ UNCHANGED <<operator, faults, requeues>>

\* Variant: off by one against MAX_RETRY_COUNT.
RetryRowOnceMore(r) ==
  IF r.retry + 1 > MaxRetryCount
    THEN Released([r EXCEPT !.retry = @ + 1, !.status = "DEAD"])
    ELSE Released([r EXCEPT !.retry = @ + 1, !.status = "FAILED", !.due = FALSE])

\* handle_retry: the ladder of RETRY_DELAYS, then the dead letter.
RetryRow(r) ==
  IF r.retry + 1 >= MaxRetryCount
    THEN Released([r EXCEPT !.retry = @ + 1, !.status = "DEAD"])
    ELSE Released([r EXCEPT !.retry = @ + 1, !.status = "FAILED", !.due = FALSE])

\* Variant: the failure is settled against the token the session loaded.
SettleRetryUnrefreshed(w) ==
  LET e == worker[w].ev IN
  /\ worker[w].pc = "loaded"
  /\ worker[w].seen = worker[w].token
  /\ row' = [row EXCEPT ![e] = RetryRow(row[e])]
  /\ Finish(w, e)
  /\ UNCHANGED <<operator, applied, faults, requeues>>

\* The handler or the commit failed: rollback, then _settle_failure.
SettleRetry(w) ==
  LET e == worker[w].ev IN
  /\ worker[w].pc = "loaded"
  /\ row[e].token = worker[w].token
  /\ row' = [row EXCEPT ![e] = RetryRow(row[e])]
  /\ Finish(w, e)
  /\ UNCHANGED <<operator, applied, faults, requeues>>

\* Variant: mark_dead is called without the claim token.
SettleDeadUnclaimed(w) ==
  /\ worker[w].pc = "loaded"
  /\ Buries(worker[w].ev)
  /\ Finish(w, worker[w].ev)
  /\ UNCHANGED <<operator, faults, requeues>>

\* The handler raised NonRetryableEventError.
SettleDead(w) ==
  LET e == worker[w].ev IN
  /\ worker[w].pc = "loaded"
  /\ row[e].token = worker[w].token
  /\ Buries(e)
  /\ Finish(w, e)
  /\ UNCHANGED <<operator, faults, requeues>>

\* StaleClaimError on either path, or the row is gone: nothing is written.
SettleStale(w) ==
  LET e == worker[w].ev IN
  /\ worker[w].pc = "loaded"
  /\ \/ worker[w].seen # worker[w].token
     \/ row[e].token # worker[w].token
  /\ Finish(w, e)
  /\ UNCHANGED <<row, operator, applied, faults, requeues>>

\* No handler, or no organization to deliver under: a fresh session settles
\* the row at once, against the token now in the table.
SettleUndelivered(w, e) ==
  /\ worker[w].pc = "busy"
  /\ e \in worker[w].batch
  /\ Kind[e] # "handled"
  /\ row[e].token = worker[w].token
  /\ IF Kind[e] = "no_consequence" THEN Publishes(e) ELSE Buries(e)
  /\ Finish(w, e)
  /\ UNCHANGED <<operator, faults, requeues>>

\* The claim was taken over, or the row deleted, before delivery began.
SkipLostClaim(w, e) ==
  /\ worker[w].pc = "busy"
  /\ e \in worker[w].batch
  /\ \/ ~Exists(e)
     \/ Kind[e] # "handled" /\ row[e].token # worker[w].token
  /\ Finish(w, e)
  /\ UNCHANGED <<row, operator, applied, faults, requeues>>

\* The settlement itself failed in the database: the event stays claimed.
SettlementFails(w, e) ==
  /\ faults < MaxFaults
  /\ \/ worker[w].pc = "loaded" /\ e = worker[w].ev
     \/ worker[w].pc = "busy" /\ e \in worker[w].batch /\ Kind[e] # "handled"
  /\ Finish(w, e)
  /\ faults' = faults + 1
  /\ UNCHANGED <<row, operator, applied, requeues>>

\* The worker process dies with its batch; its rows keep token and lease.
Crash(w) ==
  /\ faults < MaxFaults
  /\ worker[w].pc # "idle"
  /\ worker' = [worker EXCEPT ![w] = Idle]
  /\ faults' = faults + 1
  /\ UNCHANGED <<row, operator, applied, requeues>>

-----------------------------------------------------------------------------
(* Time *)

Requeueing(o, e) == operator[o] # None /\ operator[o].ev = e

HeldBy(w, e) == e \in worker[w].batch /\ worker[w].token = row[e].token

\* The lease of a claim nobody works on runs out.
LeaseExpires(e) ==
  /\ row[e].lease = "live"
  /\ ~ \E w \in Workers : HeldBy(w, e)
  /\ row' = [row EXCEPT ![e].lease = "expired"]
  /\ UNCHANGED <<worker, operator, applied, faults, requeues>>

\* The worker is slower than its lease.
LeaseOverrun(e) ==
  /\ faults < MaxFaults
  /\ row[e].lease = "live"
  /\ \E w \in Workers : HeldBy(w, e)
  /\ row' = [row EXCEPT ![e].lease = "expired"]
  /\ faults' = faults + 1
  /\ UNCHANGED <<worker, operator, applied, requeues>>

\* next_retry_at passes.  A requeue request is taken to be shorter than the
\* shortest retry delay, which is a minute.
RetryDue(e) ==
  /\ row[e].status \in Queued
  /\ ~row[e].due
  /\ ~ \E o \in Operators : Requeueing(o, e)
  /\ row' = [row EXCEPT ![e].due = TRUE]
  /\ UNCHANGED <<worker, operator, applied, faults, requeues>>

\* cleanup_published_outbox_events, after the retention period.
DeletePublished(e) ==
  /\ row[e].status = "PUBLISHED"
  /\ row' = [row EXCEPT ![e].status = "DELETED"]
  /\ UNCHANGED <<worker, operator, applied, faults, requeues>>

-----------------------------------------------------------------------------
(* Operators *)

\* The requeue page loads the event before it calls requeue_dead_event.
OpenRequeue(o, e) ==
  /\ operator[o] = None
  /\ requeues < MaxRequeues
  /\ row[e].status \in {"FAILED", "DEAD"}
  /\ operator' = [operator EXCEPT ![o] = [ev |-> e, row |-> row[e]]]
  /\ requeues' = requeues + 1
  /\ UNCHANGED <<row, worker, applied, faults>>

\* Variant: one attempt is taken back instead of all.
RequeuedOneBack(r, loaded) ==
  [r EXCEPT !.status = "PENDING", !.retry = @ - 1, !.due = TRUE, !.token = None, !.lease = "none"]

\* The columns requeue_dead_event writes: the ORM emits those whose new
\* value differs from the loaded one.
Requeued(r, loaded) ==
  [r EXCEPT !.status = "PENDING",
            !.retry = IF loaded.retry # 0 THEN 0 ELSE @,
            !.due = IF loaded.retry # 0 THEN TRUE ELSE @,
            !.token = IF loaded.token # None THEN None ELSE @,
            !.lease = IF loaded.token # None THEN "none" ELSE @]

\* requeue_dead_event: its locking get returns the loaded row, so the status
\* it checks is the loaded one.
RequeueDeadEvent(o) ==
  /\ operator[o] # None
  /\ LET e == operator[o].ev IN
       IF Exists(e)
         THEN row' = [row EXCEPT ![e] = Requeued(row[e], operator[o].row)]
         ELSE UNCHANGED row
  /\ operator' = [operator EXCEPT ![o] = None]
  /\ UNCHANGED <<worker, applied, faults, requeues>>

\* The request dies, and its transaction with it.
RequeueFails(o) ==
  /\ operator[o] # None
  /\ operator' = [operator EXCEPT ![o] = None]
  /\ UNCHANGED <<row, worker, applied, faults, requeues>>

\* retry_dead_event in a session of its own: the audited replay of a DEAD row.
RetryDeadEvent(e) ==
  /\ requeues < MaxRequeues
  /\ row[e].status = "DEAD"
  /\ row' = [row EXCEPT ![e] = Requeued(row[e], row[e])]
  /\ requeues' = requeues + 1
  /\ UNCHANGED <<worker, operator, applied, faults>>

-----------------------------------------------------------------------------
Deliver(w) ==
  \/ \E e \in Events : \/ Load(w, e)
                       \/ SettleUndelivered(w, e)
                       \/ SkipLostClaim(w, e)
  \/ SettlePublished(w)
  \/ SettleRetry(w)
  \/ SettleDead(w)
  \/ SettleStale(w)

Next ==
  \/ \E e \in Events : \/ PublishEvent(e)
                       \/ LeaseExpires(e)
                       \/ LeaseOverrun(e)
                       \/ RetryDue(e)
                       \/ DeletePublished(e)
                       \/ RetryDeadEvent(e)
  \/ \E w \in Workers : \/ \E batch \in SUBSET Events : ClaimPendingEvents(w, batch)
                        \/ Deliver(w)
                        \/ \E e \in Events : SettlementFails(w, e)
                        \/ Crash(w)
  \/ \E o \in Operators : \/ \E e \in Events : OpenRequeue(o, e)
                          \/ RequeueDeadEvent(o)
                          \/ RequeueFails(o)

\* The beat schedule runs the relay every 30 seconds and claims oldest first;
\* a task that has not died finishes its batch, a request ends; clocks advance.
Fairness ==
  /\ \A e \in Events : /\ SF_vars(\E w \in Workers, batch \in SUBSET Events :
                                     e \in batch /\ ClaimPendingEvents(w, batch))
                       /\ WF_vars(LeaseExpires(e))
                       /\ WF_vars(RetryDue(e))
  /\ \A w \in Workers : WF_vars(Deliver(w))
  /\ \A o \in Operators : WF_vars(RequeueDeadEvent(o) \/ RequeueFails(o))

Spec == Init /\ [][Next]_vars

FairSpec == Spec /\ Fairness

=============================================================================
