---------------------------- MODULE OutboxProofs ----------------------------
(***************************************************************************)
(* Proofs about the outbox: type correctness, the inductive invariant, the *)
(* safety properties that follow from it, and the refinement.              *)
(***************************************************************************)
EXTENDS OutboxProperties, TLAPS

USE OutboxConstants DEF Kinds

LEMMA RowTypes ==
  /\ Unpublished \in Rows
  /\ \A r \in Rows : Released(r) \in Rows /\ RetryRow(r) \in Rows
  /\ \A r, l \in Rows : Requeued(r, l) \in Rows
<1>1. Unpublished \in Rows
  BY DEF Unpublished, Rows, Statuses, Queued, Leases
<1>2. ASSUME NEW r \in Rows PROVE Released(r) \in Rows
  BY DEF Released, Rows, Leases
<1>3. ASSUME NEW r \in Rows PROVE RetryRow(r) \in Rows
  <2> DEFINE n == r.retry + 1
  <2>0. n \in Nat
    BY DEF Rows
  <2> HIDE DEF n
  <2>1. [r EXCEPT !.retry = n, !.status = "DEAD"] \in Rows
    BY <2>0 DEF Rows, Statuses, Queued
  <2>2. [r EXCEPT !.retry = n, !.status = "FAILED", !.due = FALSE] \in Rows
    BY <2>0 DEF Rows, Statuses, Queued
  <2> QED BY <2>1, <2>2, <1>2 DEF RetryRow, n
<1>4. ASSUME NEW r \in Rows, NEW l \in Rows PROVE Requeued(r, l) \in Rows
  BY DEF Requeued, Rows, Statuses, Queued, Leases
<1> QED BY <1>1, <1>2, <1>3, <1>4

LEMMA TaskTypes ==
  ASSUME TypeOK, NEW w \in Workers, NEW e \in Events
  PROVE  /\ Idle \in Tasks
         /\ Done(w, e) \in Tasks
<1>1. worker[w] \in Tasks
  BY DEF TypeOK
<1>2. Idle \in Tasks
  BY DEF Idle, Tasks
<1>3. ASSUME NEW rest \in SUBSET Events
      PROVE  [worker[w] EXCEPT !.pc = "busy", !.batch = rest,
                               !.ev = None, !.seen = None] \in Tasks
  BY <1>1 DEF Tasks
<1>4. worker[w].batch \ {e} \in SUBSET Events
  BY <1>1 DEF Tasks
<1> QED BY <1>2, <1>3, <1>4 DEF Done

LEMMA LoadedType ==
  ASSUME TypeOK, WorkersHoldBatches, NEW w \in Workers, worker[w].pc = "loaded"
  PROVE  worker[w].ev \in Events
BY DEF TypeOK, WorkersHoldBatches, Tasks

LEMMA PublishesType ==
  ASSUME TypeOK, NEW e \in Events, Publishes(e)
  PROVE  row' \in [Events -> Rows] /\ applied' \in [Events -> Nat]
<1>1. [row[e] EXCEPT !.status = "PUBLISHED"] \in Rows
  BY DEF TypeOK, Rows, Statuses
<1>2. Released([row[e] EXCEPT !.status = "PUBLISHED"]) \in Rows
  BY <1>1, RowTypes
<1> QED BY <1>2 DEF TypeOK, Publishes

LEMMA BuriesType ==
  ASSUME TypeOK, NEW e \in Events, Buries(e)
  PROVE  row' \in [Events -> Rows] /\ applied' \in [Events -> Nat]
<1>1. [row[e] EXCEPT !.status = "DEAD"] \in Rows
  BY DEF TypeOK, Rows, Statuses
<1>2. Released([row[e] EXCEPT !.status = "DEAD"]) \in Rows
  BY <1>1, RowTypes
<1> QED BY <1>2 DEF TypeOK, Buries

\* Every step keeps the types: one case per action.
LEMMA TypeStep ==
  ASSUME TypeOK, WorkersHoldBatches, [Next]_vars
  PROVE  TypeOK'
<1>1. ASSUME NEW e \in Events, PublishEvent(e) PROVE TypeOK'
  <2>1. [row[e] EXCEPT !.status = "PENDING"] \in Rows
    BY DEF TypeOK, Rows, Statuses, Queued
  <2> QED BY <1>1, <2>1 DEF TypeOK, PublishEvent
<1>2. ASSUME NEW w \in Workers, NEW batch \in SUBSET Events,
             ClaimPendingEvents(w, batch)
      PROVE  TypeOK'
  <2>1. PICK t \in FreshTokens :
          /\ row' = [e \in Events |-> IF e \in batch
                       THEN [row[e] EXCEPT !.token = t, !.lease = "live"]
                       ELSE row[e]]
          /\ worker' = [worker EXCEPT ![w] = [Idle EXCEPT !.pc = "busy", !.token = t,
                                                          !.batch = batch]]
    BY <1>2 DEF ClaimPendingEvents
  <2>2. t \in Tokens
    BY DEF FreshTokens
  <2>3. \A r \in Rows : [r EXCEPT !.token = t, !.lease = "live"] \in Rows
    BY <2>2 DEF Rows, Leases
  <2>4. [Idle EXCEPT !.pc = "busy", !.token = t, !.batch = batch] \in Tasks
    BY <2>2 DEF Idle, Tasks
  <2> QED BY <1>2, <2>1, <2>3, <2>4 DEF TypeOK, ClaimPendingEvents
<1>3. ASSUME NEW w \in Workers, NEW e \in Events, Load(w, e) PROVE TypeOK'
  <2>1. [worker[w] EXCEPT !.pc = "loaded", !.ev = e, !.seen = row[e].token] \in Tasks
    <3>1. worker[w] \in Tasks
      BY DEF TypeOK
    <3>2. row[e].token \in Tokens \cup {None}
      BY DEF TypeOK, Rows
    <3> QED BY <3>1, <3>2 DEF Tasks
  <2> QED BY <1>3, <2>1 DEF TypeOK, Load
<1>4. ASSUME NEW w \in Workers, SettlePublished(w) PROVE TypeOK'
  BY <1>4, LoadedType, PublishesType, TaskTypes DEF TypeOK, SettlePublished, Finish
<1>5. ASSUME NEW w \in Workers, SettleRetry(w) PROVE TypeOK'
  BY <1>5, LoadedType, RowTypes, TaskTypes DEF TypeOK, SettleRetry, Finish
<1>6. ASSUME NEW w \in Workers, SettleDead(w) PROVE TypeOK'
  BY <1>6, LoadedType, BuriesType, TaskTypes DEF TypeOK, SettleDead, Finish
<1>7. ASSUME NEW w \in Workers, SettleStale(w) PROVE TypeOK'
  BY <1>7, LoadedType, TaskTypes DEF TypeOK, SettleStale, Finish
<1>8. ASSUME NEW w \in Workers, NEW e \in Events, SettleUndelivered(w, e) PROVE TypeOK'
  BY <1>8, PublishesType, BuriesType, TaskTypes DEF TypeOK, SettleUndelivered, Finish
<1>9. ASSUME NEW w \in Workers, NEW e \in Events, SkipLostClaim(w, e) PROVE TypeOK'
  BY <1>9, TaskTypes DEF TypeOK, SkipLostClaim, Finish
<1>10. ASSUME NEW w \in Workers, NEW e \in Events, SettlementFails(w, e) PROVE TypeOK'
  BY <1>10, TaskTypes DEF TypeOK, SettlementFails, Finish
<1>11. ASSUME NEW w \in Workers, Crash(w) PROVE TypeOK'
  <2>1. Idle \in Tasks
    BY DEF Idle, Tasks
  <2> QED BY <1>11, <2>1 DEF TypeOK, Crash
<1>12. ASSUME NEW e \in Events, LeaseExpires(e) PROVE TypeOK'
  <2>1. [row[e] EXCEPT !.lease = "expired"] \in Rows
    BY DEF TypeOK, Rows, Leases
  <2> QED BY <1>12, <2>1 DEF TypeOK, LeaseExpires
<1>13. ASSUME NEW e \in Events, LeaseOverrun(e) PROVE TypeOK'
  <2>1. [row[e] EXCEPT !.lease = "expired"] \in Rows
    BY DEF TypeOK, Rows, Leases
  <2> QED BY <1>13, <2>1 DEF TypeOK, LeaseOverrun
<1>14. ASSUME NEW e \in Events, RetryDue(e) PROVE TypeOK'
  <2>0. row[e] \in Rows
    BY DEF TypeOK
  <2>1. [row[e] EXCEPT !.due = TRUE] \in Rows
    BY <2>0, Zenon DEF Rows
  <2> QED BY <1>14, <2>1 DEF TypeOK, RetryDue
<1>15. ASSUME NEW e \in Events, DeletePublished(e) PROVE TypeOK'
  <2>1. [row[e] EXCEPT !.status = "DELETED"] \in Rows
    BY DEF TypeOK, Rows, Statuses
  <2> QED BY <1>15, <2>1 DEF TypeOK, DeletePublished
<1>16. ASSUME NEW o \in Operators, NEW e \in Events, OpenRequeue(o, e) PROVE TypeOK'
  <2>1. [ev |-> e, row |-> row[e]] \in [ev : Events, row : Rows]
    BY DEF TypeOK
  <2> QED BY <1>16, <2>1 DEF TypeOK, OpenRequeue
<1>17. ASSUME NEW o \in Operators, RequeueDeadEvent(o) PROVE TypeOK'
  <2>1. operator[o] \in [ev : Events, row : Rows]
    BY <1>17 DEF TypeOK, RequeueDeadEvent
  <2>2. row' \in [Events -> Rows]
    BY <1>17, <2>1, RowTypes DEF TypeOK, RequeueDeadEvent
  <2> QED BY <1>17, <2>2 DEF TypeOK, RequeueDeadEvent
<1>18. ASSUME NEW o \in Operators, RequeueFails(o) PROVE TypeOK'
  BY <1>18 DEF TypeOK, RequeueFails
<1>19. ASSUME NEW e \in Events, RetryDeadEvent(e) PROVE TypeOK'
  BY <1>19, RowTypes DEF TypeOK, RetryDeadEvent
<1>20. CASE UNCHANGED vars
  BY <1>20 DEF vars, TypeOK
<1> QED
  BY <1>1, <1>2, <1>3, <1>4, <1>5, <1>6, <1>7, <1>8, <1>9, <1>10, <1>11, <1>12,
     <1>13, <1>14, <1>15, <1>16, <1>17, <1>18, <1>19, <1>20 DEF Next, Deliver

-----------------------------------------------------------------------------
(* The relay tasks: their batches and their tokens. *)

LEMMA DoneFacts ==
  ASSUME NEW w \in Workers, NEW e \in Events, worker[w].token # None, TypeOK
  PROVE  /\ Done(w, e).pc = "idle" => Done(w, e) = Idle
         /\ Done(w, e).pc # "idle" => Done(w, e).token # None
         /\ Done(w, e).pc # "loaded"
         /\ Done(w, e).token \in {worker[w].token, None}
         /\ Done(w, e).batch \subseteq worker[w].batch \ {e}
<1>1. worker[w] \in Tasks
  BY DEF TypeOK
<1>2. CASE worker[w].batch \ {e} = {}
  BY <1>2 DEF Done, Idle
<1>3. CASE worker[w].batch \ {e} # {}
  BY <1>1, <1>3 DEF Done, Tasks
<1> QED BY <1>2, <1>3

TasksOK == WorkersHoldBatches /\ TokensAreUnique

\* A task that finishes an event keeps the batch and token facts.
LEMMA FinishStep ==
  ASSUME TypeOK, TasksOK, NEW w \in Workers, NEW e \in Events,
         worker[w].pc # "idle", Finish(w, e)
  PROVE  TasksOK'
<1>1. worker[w].token # None
  BY DEF TasksOK, WorkersHoldBatches
<1>2. worker' = [worker EXCEPT ![w] = Done(w, e)]
  BY DEF Finish
<1>3. \A v \in Workers : v # w => worker'[v] = worker[v]
  BY <1>2 DEF TypeOK
<1>4. worker'[w] = Done(w, e)
  BY <1>2 DEF TypeOK
<1>5. WorkersHoldBatches'
  <2> SUFFICES ASSUME NEW v \in Workers
               PROVE  /\ worker'[v].pc = "idle" => worker'[v] = Idle
                      /\ worker'[v].pc # "idle" => worker'[v].token # None
                      /\ worker'[v].pc = "loaded" =>
                           /\ worker'[v].ev \in worker'[v].batch
                           /\ Kind[worker'[v].ev] = "handled"
    BY DEF WorkersHoldBatches, Idle
  <2>1. CASE v = w
    BY <2>1, <1>1, <1>4, DoneFacts
  <2>2. CASE v # w
    BY <2>2, <1>3 DEF TasksOK, WorkersHoldBatches
  <2> QED BY <2>1, <2>2
<1>6. TokensAreUnique'
  BY <1>1, <1>3, <1>4, DoneFacts DEF TasksOK, TokensAreUnique
<1> QED BY <1>5, <1>6 DEF TasksOK

LEMMA TasksStep ==
  ASSUME TypeOK, TasksOK, [Next]_vars
  PROVE  TasksOK'
<1> USE DEF TasksOK
<1>1. ASSUME NEW w \in Workers, NEW batch \in SUBSET Events,
             ClaimPendingEvents(w, batch)
      PROVE  TasksOK'
  <2>1. PICK t \in FreshTokens :
          worker' = [worker EXCEPT ![w] = [Idle EXCEPT !.pc = "busy", !.token = t,
                                                       !.batch = batch]]
    BY <1>1 DEF ClaimPendingEvents
  <2>2. /\ \A v \in Workers : v # w => worker'[v] = worker[v]
        /\ worker'[w].pc = "busy"
        /\ worker'[w].token = t
    BY <2>1 DEF TypeOK, Idle
  <2>3. t # None /\ \A v \in Workers : worker[v].token # t
    BY DEF FreshTokens
  <2>4. WorkersHoldBatches'
    BY <2>2, <2>3 DEF WorkersHoldBatches, Idle
  <2>5. TokensAreUnique'
    BY <2>2, <2>3 DEF TokensAreUnique
  <2> QED BY <2>4, <2>5
<1>2. ASSUME NEW w \in Workers, NEW e \in Events, Load(w, e) PROVE TasksOK'
  <2>1. /\ \A v \in Workers : v # w => worker'[v] = worker[v]
        /\ worker'[w].pc = "loaded"
        /\ worker'[w].token = worker[w].token
        /\ worker'[w].ev = e
        /\ worker'[w].batch = worker[w].batch
    BY <1>2 DEF Load, TypeOK, Tasks
  <2>2. worker[w].pc = "busy" /\ e \in worker[w].batch /\ Kind[e] = "handled"
    BY <1>2 DEF Load
  <2>3. WorkersHoldBatches'
    <3>1. worker[w].token # None
      BY <2>2 DEF WorkersHoldBatches
    <3>2. \A v \in Workers : v # w =>
            /\ worker'[v].pc = "idle" => worker'[v] = Idle
            /\ worker'[v].pc # "idle" => worker'[v].token # None
            /\ worker'[v].pc = "loaded" => /\ worker'[v].ev \in worker'[v].batch
                                           /\ Kind[worker'[v].ev] = "handled"
      BY <2>1 DEF WorkersHoldBatches
    <3> QED BY <2>1, <2>2, <3>1, <3>2 DEF WorkersHoldBatches, Idle
  <2>4. TokensAreUnique'
    BY <2>1 DEF TokensAreUnique
  <2> QED BY <2>3, <2>4
<1>3. ASSUME NEW w \in Workers,
             SettlePublished(w) \/ SettleRetry(w) \/ SettleDead(w) \/ SettleStale(w)
      PROVE  TasksOK'
  BY <1>3, LoadedType, FinishStep
  DEF SettlePublished, SettleRetry, SettleDead, SettleStale
<1>4. ASSUME NEW w \in Workers, NEW e \in Events,
             SettleUndelivered(w, e) \/ SkipLostClaim(w, e) \/ SettlementFails(w, e)
      PROVE  TasksOK'
  BY <1>4, FinishStep DEF SettleUndelivered, SkipLostClaim, SettlementFails
<1>5. ASSUME NEW w \in Workers, Crash(w) PROVE TasksOK'
  <2>1. /\ \A v \in Workers : v # w => worker'[v] = worker[v]
        /\ worker'[w] = Idle
    BY <1>5 DEF Crash, TypeOK
  <2> QED BY <2>1 DEF WorkersHoldBatches, TokensAreUnique, Idle
<1>6. ASSUME UNCHANGED worker PROVE TasksOK'
  BY <1>6 DEF WorkersHoldBatches, TokensAreUnique, Idle
<1> QED
  BY <1>1, <1>2, <1>3, <1>4, <1>5, <1>6
  DEF Next, Deliver, vars, PublishEvent, LeaseExpires, LeaseOverrun, RetryDue,
      DeletePublished, OpenRequeue, RequeueDeadEvent, RequeueFails, RetryDeadEvent

-----------------------------------------------------------------------------
(* The rows: one predicate of a row holds what the invariant says of it. *)

RowOK(e, r, n) ==
  /\ r.token = None <=> r.lease = "none"
  /\ r.token # None => r.status \in Queued
  /\ r.status \in Queued => r.retry < ClaimMaxRetry
  /\ r.status \in {"PUBLISHED", "DELETED"} =>
       n > 0 /\ Kind[e] \in {"handled", "no_consequence"}
  /\ r.status = "NONE" => r.retry = 0
  /\ \A o \in Operators :
       (Requeueing(o, e) /\ operator[o].row.retry = 0) =>
         r.retry = 0 \/ (r.retry = 1 /\ ~r.due /\ r.token = None)

RowsOK == \A e \in Events : RowOK(e, row[e], applied[e])

LEMMA RowsOKMeaning ==
  TypeOK => (RowsOK <=> /\ ClaimsAreOnQueuedRows
                        /\ RequeueSeesRetries
                        /\ NewRowsHaveNoRetries
                        /\ NeverStranded
                        /\ PublishedMeansApplied)
BY DEF TypeOK, RowsOK, RowOK, ClaimsAreOnQueuedRows, RequeueSeesRetries,
       NewRowsHaveNoRetries, NeverStranded, PublishedMeansApplied, Requeueing

\* A step that rewrites one row need only answer for that row.
LEMMA OneRowStep ==
  ASSUME TypeOK, RowsOK, NEW e \in Events, NEW r,
         row' = [row EXCEPT ![e] = r],
         \A d \in Events : d # e => applied'[d] = applied[d],
         \A o \in Operators : operator'[o] \in {operator[o], None},
         RowOK(e, r, applied'[e])
  PROVE  RowsOK'
<1>1. row'[e] = r /\ \A d \in Events : d # e => row'[d] = row[d]
  BY DEF TypeOK
<1>2. \A d \in Events : RowOK(d, row'[d], applied'[d])
  BY <1>1 DEF RowsOK
<1> QED BY <1>2 DEF RowsOK, RowOK, Requeueing

LEMMA PublishesRow ==
  ASSUME TypeOK, RowsOK, NEW e \in Events, Publishes(e), UNCHANGED operator,
         Kind[e] \in {"handled", "no_consequence"}
  PROVE  RowsOK'
<1>1. row[e] \in Rows /\ applied[e] \in Nat /\ RowOK(e, row[e], applied[e])
  BY DEF TypeOK, RowsOK
<1> DEFINE r == Released([row[e] EXCEPT !.status = "PUBLISHED"])
<1>2. /\ r.status = "PUBLISHED" /\ r.token = None /\ r.lease = "none"
      /\ r.retry = row[e].retry /\ r.due = row[e].due
  BY <1>1 DEF Released, Rows
<1>3. applied' = [applied EXCEPT ![e] = applied[e] + 1]
  BY DEF Publishes
<1>4. applied'[e] > 0 /\ \A d \in Events : d # e => applied'[d] = applied[d]
  BY <1>1, <1>3 DEF TypeOK
<1>5. row' = [row EXCEPT ![e] = r]
  BY DEF Publishes
<1>6. RowOK(e, r, applied'[e])
  BY <1>1, <1>2, <1>4 DEF RowOK, Queued
<1> HIDE DEF r
<1> QED BY <1>4, <1>5, <1>6, OneRowStep

LEMMA BuriesRow ==
  ASSUME TypeOK, RowsOK, NEW e \in Events, Buries(e), UNCHANGED operator
  PROVE  RowsOK'
<1>1. row[e] \in Rows /\ RowOK(e, row[e], applied[e])
  BY DEF TypeOK, RowsOK
<1> DEFINE r == Released([row[e] EXCEPT !.status = "DEAD"])
<1>2. /\ r.status = "DEAD" /\ r.token = None /\ r.lease = "none"
      /\ r.retry = row[e].retry /\ r.due = row[e].due
  BY <1>1 DEF Released, Rows
<1>3. row' = [row EXCEPT ![e] = r] /\ UNCHANGED applied
  BY DEF Buries
<1>4. RowOK(e, r, applied'[e])
  BY <1>1, <1>2, <1>3 DEF RowOK, Queued
<1> HIDE DEF r
<1> QED BY <1>3, <1>4, OneRowStep

LEMMA ClaimRows ==
  ASSUME TypeOK, RowsOK, NEW w \in Workers, NEW batch \in SUBSET Events,
         ClaimPendingEvents(w, batch)
  PROVE  RowsOK'
<1>1. PICK t \in FreshTokens :
        row' = [e \in Events |-> IF e \in batch
                  THEN [row[e] EXCEPT !.token = t, !.lease = "live"]
                  ELSE row[e]]
  BY DEF ClaimPendingEvents
<1>2. t # None
  BY DEF FreshTokens
<1>3. \A e \in batch : Claimable(e)
  BY DEF ClaimPendingEvents
<1>4. UNCHANGED <<operator, applied>>
  BY DEF ClaimPendingEvents
<1> SUFFICES ASSUME NEW e \in Events PROVE RowOK(e, row'[e], applied[e])
  BY <1>4 DEF RowsOK, RowOK, Requeueing
<1>5. row[e] \in Rows /\ RowOK(e, row[e], applied[e])
  BY DEF TypeOK, RowsOK
<1>6. CASE e \in batch
  <2>1. /\ row'[e].status = row[e].status /\ row'[e].retry = row[e].retry
        /\ row'[e].due = row[e].due /\ row'[e].token = t /\ row'[e].lease = "live"
    BY <1>1, <1>5, <1>6 DEF Rows
  <2>2. row[e].status \in Queued /\ row[e].due
    BY <1>3, <1>6 DEF Claimable
  <2> QED BY <1>2, <1>5, <2>1, <2>2 DEF RowOK
<1>7. CASE e \notin batch
  BY <1>1, <1>5, <1>7
<1> QED BY <1>6, <1>7

LEMMA RetryRows ==
  ASSUME TypeOK, TasksOK, RowsOK, NEW w \in Workers, SettleRetry(w)
  PROVE  RowsOK'
<1> DEFINE e == worker[w].ev
           r == RetryRow(row[e])
<1>1. e \in Events
  BY LoadedType DEF SettleRetry, TasksOK
<1>2. row[e] \in Rows /\ RowOK(e, row[e], applied[e])
  BY <1>1 DEF TypeOK, RowsOK
<1>3. row[e].token # None
  BY DEF SettleRetry, TasksOK, WorkersHoldBatches
<1>4. /\ r.retry = row[e].retry + 1 /\ r.token = None /\ r.lease = "none"
      /\ \/ r.status = "DEAD" /\ row[e].retry + 1 >= MaxRetryCount
         \/ r.status = "FAILED" /\ ~r.due /\ row[e].retry + 1 < MaxRetryCount
  <2> DEFINE n == row[e].retry + 1
  <2>0. n \in Nat
    BY <1>2 DEF Rows
  <2>1. CASE n >= MaxRetryCount
    <3>1. r = Released([row[e] EXCEPT !.retry = n, !.status = "DEAD"])
      BY <2>1 DEF RetryRow
    <3> QED BY <1>2, <2>0, <2>1, <3>1 DEF Released, Rows
  <2>2. CASE n < MaxRetryCount
    <3>1. r = Released([row[e] EXCEPT !.retry = n, !.status = "FAILED", !.due = FALSE])
      BY <2>0, <2>2 DEF RetryRow
    <3> QED BY <1>2, <2>0, <2>2, <3>1 DEF Released, Rows
  <2> QED BY <2>0, <2>1, <2>2
<1>5. row[e].retry \in Nat
  BY <1>2 DEF Rows
<1>6. row' = [row EXCEPT ![e] = r] /\ UNCHANGED <<operator, applied>>
  BY DEF SettleRetry
<1> HIDE DEF e, r
<1>7. RowOK(e, r, applied'[e])
  BY <1>2, <1>3, <1>4, <1>5, <1>6 DEF RowOK, Queued
<1> QED BY <1>1, <1>6, <1>7, OneRowStep

LEMMA RequeueRows ==
  ASSUME TypeOK, RowsOK, NEW e \in Events, NEW l \in Rows,
         row' = [row EXCEPT ![e] = Requeued(row[e], l)],
         UNCHANGED applied,
         \A o \in Operators : operator'[o] \in {operator[o], None},
         l.retry = 0 => \/ row[e].retry = 0
                        \/ row[e].retry = 1 /\ ~row[e].due /\ row[e].token = None
  PROVE  RowsOK'
<1> DEFINE r == Requeued(row[e], l)
<1>1. row[e] \in Rows /\ RowOK(e, row[e], applied[e])
  BY DEF TypeOK, RowsOK
<1>2. /\ r.status = "PENDING"
      /\ r.retry = IF l.retry # 0 THEN 0 ELSE row[e].retry
      /\ r.due = IF l.retry # 0 THEN TRUE ELSE row[e].due
      /\ \/ r.token = None /\ r.lease = "none"
         \/ r.token = row[e].token /\ r.lease = row[e].lease
  BY <1>1 DEF Requeued, Rows
<1> HIDE DEF r
<1>3. RowOK(e, r, applied'[e])
  BY <1>1, <1>2 DEF RowOK, Queued
<1> QED BY <1>3, OneRowStep DEF r

LEMMA RowsStep ==
  ASSUME TypeOK, TasksOK, RowsOK, [Next]_vars
  PROVE  RowsOK'
<1>1. ASSUME NEW e \in Events, PublishEvent(e) PROVE RowsOK'
  <2> DEFINE r == [row[e] EXCEPT !.status = "PENDING"]
  <2>1. row[e] \in Rows /\ RowOK(e, row[e], applied[e]) /\ row[e].status = "NONE"
    BY <1>1 DEF TypeOK, RowsOK, PublishEvent
  <2>2. /\ r.status = "PENDING" /\ r.retry = row[e].retry /\ r.due = row[e].due
        /\ r.token = row[e].token /\ r.lease = row[e].lease
    BY <2>1 DEF Rows
  <2>3. row' = [row EXCEPT ![e] = r] /\ UNCHANGED <<operator, applied>>
    BY <1>1 DEF PublishEvent
  <2> HIDE DEF r
  <2>4. RowOK(e, r, applied'[e])
    BY <2>1, <2>2, <2>3 DEF RowOK, Queued
  <2> QED BY <2>3, <2>4, OneRowStep
<1>2. ASSUME NEW w \in Workers, NEW batch \in SUBSET Events,
             ClaimPendingEvents(w, batch)
      PROVE  RowsOK'
  BY <1>2, ClaimRows
<1>3. ASSUME NEW w \in Workers, SettlePublished(w) PROVE RowsOK'
  <2>1. worker[w].ev \in Events /\ Kind[worker[w].ev] = "handled"
    BY <1>3, LoadedType DEF SettlePublished, TasksOK, WorkersHoldBatches
  <2> QED BY <1>3, <2>1, PublishesRow DEF SettlePublished
<1>4. ASSUME NEW w \in Workers, SettleRetry(w) PROVE RowsOK'
  BY <1>4, RetryRows
<1>5. ASSUME NEW w \in Workers, SettleDead(w) PROVE RowsOK'
  BY <1>5, LoadedType, BuriesRow DEF SettleDead, TasksOK
<1>6. ASSUME NEW w \in Workers, NEW e \in Events, SettleUndelivered(w, e) PROVE RowsOK'
  BY <1>6, PublishesRow, BuriesRow DEF SettleUndelivered
<1>7. ASSUME NEW e \in Events, LeaseExpires(e) \/ LeaseOverrun(e) PROVE RowsOK'
  <2> DEFINE r == [row[e] EXCEPT !.lease = "expired"]
  <2>1. row[e] \in Rows /\ RowOK(e, row[e], applied[e]) /\ row[e].lease = "live"
    BY <1>7 DEF TypeOK, RowsOK, LeaseExpires, LeaseOverrun
  <2>2. /\ r.status = row[e].status /\ r.retry = row[e].retry /\ r.due = row[e].due
        /\ r.token = row[e].token /\ r.lease = "expired"
    BY <2>1 DEF Rows
  <2>3. row' = [row EXCEPT ![e] = r] /\ UNCHANGED <<operator, applied>>
    BY <1>7 DEF LeaseExpires, LeaseOverrun
  <2> HIDE DEF r
  <2>4. RowOK(e, r, applied'[e])
    BY <2>1, <2>2, <2>3 DEF RowOK
  <2> QED BY <2>3, <2>4, OneRowStep
<1>8. ASSUME NEW e \in Events, RetryDue(e) PROVE RowsOK'
  <2> DEFINE r == [row[e] EXCEPT !.due = TRUE]
  <2>1. row[e] \in Rows /\ RowOK(e, row[e], applied[e])
    BY <1>8 DEF TypeOK, RowsOK
  <2>2. /\ r.status = row[e].status /\ r.retry = row[e].retry
        /\ r.token = row[e].token /\ r.lease = row[e].lease
    BY <2>1 DEF Rows
  <2>3. row' = [row EXCEPT ![e] = r] /\ UNCHANGED <<operator, applied>>
        /\ ~ \E o \in Operators : Requeueing(o, e)
    BY <1>8 DEF RetryDue
  <2> HIDE DEF r
  <2>4. RowOK(e, r, applied'[e])
    BY <2>1, <2>2, <2>3 DEF RowOK, Requeueing
  <2> QED BY <2>3, <2>4, OneRowStep
<1>9. ASSUME NEW e \in Events, DeletePublished(e) PROVE RowsOK'
  <2> DEFINE r == [row[e] EXCEPT !.status = "DELETED"]
  <2>1. row[e] \in Rows /\ RowOK(e, row[e], applied[e]) /\ row[e].status = "PUBLISHED"
    BY <1>9 DEF TypeOK, RowsOK, DeletePublished
  <2>2. /\ r.status = "DELETED" /\ r.retry = row[e].retry /\ r.due = row[e].due
        /\ r.token = row[e].token /\ r.lease = row[e].lease
    BY <2>1 DEF Rows
  <2>3. row' = [row EXCEPT ![e] = r] /\ UNCHANGED <<operator, applied>>
    BY <1>9 DEF DeletePublished
  <2> HIDE DEF r
  <2>4. RowOK(e, r, applied'[e])
    BY <2>1, <2>2, <2>3 DEF RowOK, Queued
  <2> QED BY <2>3, <2>4, OneRowStep
<1>10. ASSUME NEW o \in Operators, NEW e \in Events, OpenRequeue(o, e) PROVE RowsOK'
  <2>1. operator' = [operator EXCEPT ![o] = [ev |-> e, row |-> row[e]]]
        /\ UNCHANGED <<row, applied>>
    BY <1>10 DEF OpenRequeue
  <2>2. /\ \A p \in Operators : p # o => operator'[p] = operator[p]
        /\ operator'[o].ev = e /\ operator'[o].row = row[e]
    BY <2>1 DEF TypeOK
  <2> QED BY <2>1, <2>2 DEF RowsOK, RowOK, Requeueing
<1>11. ASSUME NEW o \in Operators, RequeueDeadEvent(o) PROVE RowsOK'
  <2> DEFINE e == operator[o].ev
             l == operator[o].row
  <2>1. operator[o] # None /\ operator[o] \in [ev : Events, row : Rows]
    BY <1>11 DEF RequeueDeadEvent, TypeOK
  <2>2. e \in Events /\ l \in Rows /\ Requeueing(o, e)
    BY <2>1 DEF Requeueing
  <2>3. \A p \in Operators : operator'[p] \in {operator[p], None}
    BY <1>11 DEF RequeueDeadEvent, TypeOK
  <2>4. l.retry = 0 => \/ row[e].retry = 0
                       \/ row[e].retry = 1 /\ ~row[e].due /\ row[e].token = None
    BY <2>2 DEF RowsOK, RowOK
  <2>5. UNCHANGED applied
    BY <1>11 DEF RequeueDeadEvent
  <2>6. CASE Exists(e)
    <3>1. row' = [row EXCEPT ![e] = Requeued(row[e], l)]
      BY <1>11, <2>6 DEF RequeueDeadEvent
    <3> HIDE DEF e, l
    <3> QED BY <2>2, <2>3, <2>4, <2>5, <3>1, RequeueRows
  <2>7. CASE ~Exists(e)
    <3>1. UNCHANGED row
      BY <1>11, <2>7 DEF RequeueDeadEvent
    <3> QED BY <2>3, <2>5, <3>1 DEF RowsOK, RowOK, Requeueing
  <2> QED BY <2>6, <2>7
<1>12. ASSUME NEW o \in Operators, RequeueFails(o) PROVE RowsOK'
  <2>1. \A p \in Operators : operator'[p] \in {operator[p], None}
    BY <1>12 DEF RequeueFails, TypeOK
  <2> QED BY <1>12, <2>1 DEF RequeueFails, RowsOK, RowOK, Requeueing
<1>13. ASSUME NEW e \in Events, RetryDeadEvent(e) PROVE RowsOK'
  <2>1. row[e] \in Rows
    BY DEF TypeOK
  <2>2. row' = [row EXCEPT ![e] = Requeued(row[e], row[e])]
        /\ UNCHANGED <<operator, applied>>
    BY <1>13 DEF RetryDeadEvent
  <2> QED BY <2>1, <2>2, RequeueRows
<1>14. ASSUME UNCHANGED <<row, operator, applied>> PROVE RowsOK'
  BY <1>14 DEF RowsOK, RowOK, Requeueing
<1> QED
  BY <1>1, <1>2, <1>3, <1>4, <1>5, <1>6, <1>7, <1>8, <1>9, <1>10, <1>11, <1>12,
     <1>13, <1>14
  DEF Next, Deliver, vars, Load, SettleStale, SkipLostClaim, SettlementFails, Crash

-----------------------------------------------------------------------------
(* The theorems. *)

\* IInv is inductive: every reachable state of the outbox satisfies it.  It
\* adds to the checked invariants what relay tasks hold (a token per batch, no
\* token twice) and what an open requeue request may have missed of its row.
THEOREM InductiveInvariant == Spec => []IInv
<1>1. Init => IInv
  <2> SUFFICES ASSUME Init PROVE IInv
    OBVIOUS
  <2>1. TypeOK
    <3>1. Idle \in Tasks
      BY DEF Idle, Tasks
    <3> QED BY <3>1, RowTypes DEF Init, TypeOK
  <2>2. TasksOK
    BY DEF Init, TasksOK, WorkersHoldBatches, TokensAreUnique, Idle
  <2>3. RowsOK
    BY DEF Init, RowsOK, RowOK, Unpublished, Queued, Requeueing
  <2> QED BY <2>1, <2>2, <2>3, RowsOKMeaning DEF IInv, TasksOK
<1>2. IInv /\ [Next]_vars => IInv'
  <2> SUFFICES ASSUME IInv, [Next]_vars PROVE IInv'
    OBVIOUS
  <2>1. TypeOK /\ TasksOK /\ RowsOK
    BY RowsOKMeaning DEF IInv, TasksOK
  <2>2. TypeOK'
    BY <2>1, TypeStep DEF TasksOK
  <2>3. TasksOK' /\ RowsOK'
    BY <2>1, TasksStep, RowsStep
  <2>4. ClaimsAreOnQueuedRows' /\ RequeueSeesRetries' /\ NewRowsHaveNoRetries'
        /\ NeverStranded' /\ PublishedMeansApplied'
    BY <2>2, <2>3
    DEF TypeOK, RowsOK, RowOK, ClaimsAreOnQueuedRows, RequeueSeesRetries,
        NewRowsHaveNoRetries, NeverStranded, PublishedMeansApplied, Requeueing
  <2> QED BY <2>2, <2>3, <2>4 DEF IInv, TasksOK
<1> QED BY <1>1, <1>2, PTL DEF Spec

\* Types: every variable stays in the range of its column or its task.
THEOREM TypeCorrect == Spec => []TypeOK
BY InductiveInvariant, PTL DEF IInv

\* Two relay tasks never hold the current claim of one event.
THEOREM ExclusiveClaims == Spec => []OneClaimantPerEvent
<1>1. IInv => OneClaimantPerEvent
  BY DEF IInv, TokensAreUnique, OneClaimantPerEvent, HeldBy
<1> QED BY <1>1, InductiveInvariant, PTL

\* Claims sit only on rows that still wait, token and lease together.
THEOREM ClaimsOnlyOnQueuedRows == Spec => []ClaimsAreOnQueuedRows
BY InductiveInvariant, PTL DEF IInv

\* No waiting event is left behind by the claim query's retry bound.
THEOREM NoEventIsStranded == Spec => []NeverStranded
BY InductiveInvariant, PTL DEF IInv

\* A PUBLISHED row's consequence was committed.
THEOREM PublishedIsApplied == Spec => []PublishedMeansApplied
BY InductiveInvariant, PTL DEF IInv

-----------------------------------------------------------------------------
(* Action properties.  A step is a claim, a failure recorded, or else it  *)
(* neither hands a claim on nor counts a failure.                         *)

Harmless(e) ==
  /\ row'[e].token \in {row[e].token, None}
  /\ row'[e].retry <= row[e].retry
  /\ row[e].status # "DEAD" => row'[e].status # "DEAD"

Fails(e) ==
  /\ row'[e].token = None
  /\ \E w \in Workers : HeldBy(w, e) /\ e \notin worker'[w].batch

LEMMA Removed ==
  ASSUME TypeOK, TasksOK, NEW w \in Workers, NEW e \in Events,
         worker[w].pc # "idle", Finish(w, e)
  PROVE  e \notin worker'[w].batch
<1>1. worker'[w] = Done(w, e)
  BY DEF Finish, TypeOK
<1>2. worker[w].token # None
  BY DEF TasksOK, WorkersHoldBatches
<1> QED BY <1>1, <1>2, DoneFacts

LEMMA StepKinds ==
  ASSUME IInv, [Next]_vars, NEW e \in Events
  PROVE  \/ Harmless(e)
         \/ Fails(e)
         \/ row[e].lease # "live" /\ row'[e].retry = row[e].retry
                                 /\ row'[e].status = row[e].status
<1> USE DEF IInv
<1>0. row[e] \in Rows /\ row[e].retry \in Nat /\ TasksOK
  BY DEF TypeOK, Rows, TasksOK
<1>1. ASSUME row'[e] = row[e] PROVE Harmless(e)
  BY <1>0, <1>1 DEF Harmless
<1>2. ASSUME NEW w \in Workers, NEW batch \in SUBSET Events,
             ClaimPendingEvents(w, batch)
      PROVE  \/ Harmless(e)
             \/ row[e].lease # "live" /\ row'[e].retry = row[e].retry
                                     /\ row'[e].status = row[e].status
  <2>1. PICK t \in FreshTokens :
          row' = [d \in Events |-> IF d \in batch
                    THEN [row[d] EXCEPT !.token = t, !.lease = "live"]
                    ELSE row[d]]
    BY <1>2 DEF ClaimPendingEvents
  <2>2. CASE e \in batch
    <3>1. row[e].lease # "live"
      BY <1>2, <2>2 DEF ClaimPendingEvents, Claimable
    <3>2. row'[e].retry = row[e].retry /\ row'[e].status = row[e].status
      BY <2>1, <2>2, <1>0 DEF Rows
    <3> QED BY <3>1, <3>2
  <2>3. CASE e \notin batch
    BY <2>1, <2>3, <1>1
  <2> QED BY <2>2, <2>3
<1>3. ASSUME NEW d \in Events, Publishes(d) PROVE Harmless(e)
  <2>1. CASE d = e
    <3> DEFINE r == Released([row[e] EXCEPT !.status = "PUBLISHED"])
    <3>1. r.token = None /\ r.retry = row[e].retry /\ r.status = "PUBLISHED"
      BY <1>0 DEF Released, Rows
    <3>2. row'[e] = r
      BY <1>3, <2>1 DEF Publishes, TypeOK
    <3> HIDE DEF r
    <3> QED BY <1>0, <3>1, <3>2 DEF Harmless
  <2>2. CASE d # e
    BY <1>1, <1>3, <2>2 DEF Publishes, TypeOK
  <2> QED BY <2>1, <2>2
<1>4. ASSUME NEW w \in Workers, NEW d \in Events, worker[w].pc # "idle",
             d \in worker[w].batch, row[d].token = worker[w].token, Finish(w, d),
             NEW r \in Rows, r.token = None, row' = [row EXCEPT ![d] = r]
      PROVE  Harmless(e) \/ Fails(e)
  <2>1. CASE d = e
    <3>1. row'[e].token = None
      BY <1>4, <2>1 DEF TypeOK
    <3> QED BY <1>0, <1>4, <2>1, <3>1, Removed DEF Fails, HeldBy
  <2>2. CASE d # e
    BY <1>1, <1>4, <2>2 DEF TypeOK
  <2> QED BY <2>1, <2>2
<1>5. ASSUME NEW d \in Events PROVE
        /\ Released([row[d] EXCEPT !.status = "DEAD"]) \in Rows
        /\ Released([row[d] EXCEPT !.status = "DEAD"]).token = None
        /\ RetryRow(row[d]) \in Rows
        /\ RetryRow(row[d]).token = None
  <2>1. row[d] \in Rows
    BY DEF TypeOK
  <2>2. [row[d] EXCEPT !.status = "DEAD"] \in Rows
    BY <2>1 DEF Rows, Statuses
  <2>3. \A r \in Rows : Released(r).token = None
    BY DEF Released, Rows
  <2>4. RetryRow(row[d]).token = None
    BY <2>1 DEF RetryRow, Released, Rows
  <2> QED BY <2>1, <2>2, <2>3, <2>4, RowTypes
<1>6. ASSUME NEW w \in Workers, NEW d \in Events, SettleUndelivered(w, d)
      PROVE  Harmless(e) \/ Fails(e)
  BY <1>3, <1>4, <1>5, <1>6 DEF SettleUndelivered, Buries
<1>7. ASSUME NEW w \in Workers, SettlePublished(w) PROVE Harmless(e)
  BY <1>0, <1>3, <1>7, LoadedType DEF SettlePublished
<1>8. ASSUME NEW w \in Workers, SettleRetry(w) \/ SettleDead(w)
      PROVE  Harmless(e) \/ Fails(e)
  <2>1. worker[w].ev \in Events /\ worker[w].ev \in worker[w].batch
    BY <1>8, LoadedType DEF SettleRetry, SettleDead, WorkersHoldBatches
  <2> QED BY <1>4, <1>5, <1>8, <2>1 DEF SettleRetry, SettleDead, Buries
<1>9. ASSUME NEW d \in Events, NEW l \in Rows,
             row' = [row EXCEPT ![d] = Requeued(row[d], l)]
      PROVE  Harmless(e)
  <2>1. CASE d = e
    <3> DEFINE r == Requeued(row[e], l)
    <3>1. /\ r.status = "PENDING"
          /\ r.retry \in {0, row[e].retry}
          /\ r.token \in {row[e].token, None}
      BY <1>0 DEF Requeued, Rows
    <3>2. row'[e] = r
      BY <1>9, <2>1 DEF TypeOK
    <3> HIDE DEF r
    <3> QED BY <1>0, <3>1, <3>2 DEF Harmless
  <2>2. CASE d # e
    BY <1>1, <1>9, <2>2 DEF TypeOK
  <2> QED BY <2>1, <2>2
<1>10. ASSUME NEW o \in Operators, RequeueDeadEvent(o) PROVE Harmless(e)
  <2>1. operator[o] \in [ev : Events, row : Rows]
    BY <1>10 DEF RequeueDeadEvent, TypeOK
  <2> QED BY <1>1, <1>9, <1>10, <2>1 DEF RequeueDeadEvent
<1>11. ASSUME NEW d \in Events, RetryDeadEvent(d) PROVE Harmless(e)
  <2>1. row[d] \in Rows
    BY DEF TypeOK
  <2> QED BY <1>9, <1>11, <2>1 DEF RetryDeadEvent
<1>12. ASSUME NEW d \in Events,
              \/ PublishEvent(d) \/ LeaseExpires(d) \/ LeaseOverrun(d)
              \/ RetryDue(d) \/ DeletePublished(d)
       PROVE  Harmless(e)
  <2>1. /\ row'[e].token = row[e].token
        /\ row'[e].retry = row[e].retry
        /\ row'[e].status \in {row[e].status, "PENDING", "DELETED"}
    BY <1>0, <1>12
    DEF TypeOK, Rows, PublishEvent, LeaseExpires, LeaseOverrun, RetryDue, DeletePublished
  <2> QED BY <1>0, <2>1 DEF Harmless
<1>13. ASSUME UNCHANGED row PROVE Harmless(e)
  BY <1>1, <1>13
<1> QED
  BY <1>2, <1>6, <1>7, <1>8, <1>10, <1>11, <1>12, <1>13
  DEF Next, Deliver, vars, Load, SettleStale, SkipLostClaim, SettlementFails, Crash,
      OpenRequeue, RequeueFails

\* A live lease is never handed to another worker.
THEOREM LiveLeasesHold == Spec => LiveLeaseIsNotTaken
<1>1. IInv /\ [Next]_vars =>
        [\A e \in Events : row[e].lease = "live" =>
           row'[e].token \in {row[e].token, None}]_vars
  BY StepKinds DEF Harmless, Fails
<1> QED BY <1>1, InductiveInvariant, PTL DEF Spec, LiveLeaseIsNotTaken

\* Retries and dead letters are recorded only by the holder of the claim.
THEOREM FailuresAreTheClaimants == Spec => OnlyClaimantRecordsFailure
<1>1. IInv /\ [Next]_vars =>
        [\A e \in Events :
           (row'[e].retry > row[e].retry
              \/ (row[e].status # "DEAD" /\ row'[e].status = "DEAD")) =>
             \E w \in Workers : HeldBy(w, e) /\ e \notin worker'[w].batch]_vars
  <2> SUFFICES ASSUME IInv, [Next]_vars, NEW e \in Events,
                      row'[e].retry > row[e].retry
                        \/ (row[e].status # "DEAD" /\ row'[e].status = "DEAD")
               PROVE  \E w \in Workers : HeldBy(w, e) /\ e \notin worker'[w].batch
    OBVIOUS
  <2>1. row[e].retry \in Nat /\ row'[e].retry \in Nat
    BY TypeStep DEF IInv, TypeOK, Rows
  <2> QED BY <2>1, StepKinds DEF Harmless, Fails
<1> QED BY <1>1, InductiveInvariant, PTL DEF Spec, OnlyClaimantRecordsFailure

-----------------------------------------------------------------------------
(* Refinement: every step of the outbox is a step of OutboxDelivery. *)

Life == [e \in Events |-> DeliveryState(e)]

LEMMA LifeOf ==
  ASSUME TypeOK, NEW e \in Events, NEW r \in Rows, row' = [row EXCEPT ![e] = r],
         NEW s, \/ r.status \in Queued /\ s = "queued"
                \/ r.status = "PUBLISHED" /\ s = "delivered"
                \/ r.status = "DEAD" /\ s = "dead"
                \/ r.status = "DELETED" /\ s = "gone"
  PROVE  Life' = [Life EXCEPT ![e] = s]
<1>1. row'[e] = r /\ \A d \in Events : d # e => row'[d] = row[d]
  BY DEF TypeOK
<1>2. DeliveryState(e)' = s
  BY <1>1 DEF DeliveryState, Queued
<1>3. \A d \in Events : d # e => DeliveryState(d)' = DeliveryState(d)
  BY <1>1 DEF DeliveryState
<1> QED BY <1>2, <1>3 DEF Life

LEMMA LifeUnchanged ==
  ASSUME \A e \in Events : row'[e].status = row[e].status
  PROVE  UNCHANGED Life
BY DEF Life, DeliveryState

LEMMA Stutters ==
  ASSUME TypeOK, NEW e \in Events, NEW r \in Rows, row' = [row EXCEPT ![e] = r],
         \/ row[e].status = r.status
         \/ row[e].status \in Queued /\ r.status \in Queued
  PROVE  UNCHANGED Life
<1>1. row'[e] = r /\ \A d \in Events : d # e => row'[d] = row[d]
  BY DEF TypeOK
<1>2. \A d \in Events : DeliveryState(d)' = DeliveryState(d)
  BY <1>1 DEF DeliveryState, Queued
<1> QED BY <1>2 DEF Life

LEMMA PublishesIsDeliver ==
  ASSUME TypeOK, NEW e \in Events, Exists(e), Publishes(e)
  PROVE  Delivery!Deliver(e)
<1> DEFINE r == Released([row[e] EXCEPT !.status = "PUBLISHED"])
<1>1. row[e] \in Rows /\ [row[e] EXCEPT !.status = "PUBLISHED"] \in Rows
  BY DEF TypeOK, Rows, Statuses
<1>2. r \in Rows
  BY <1>1, RowTypes
<1>3. r.status = "PUBLISHED" /\ row' = [row EXCEPT ![e] = r]
  BY <1>1 DEF Released, Rows, Publishes
<1> HIDE DEF r
<1>4. Life' = [Life EXCEPT ![e] = "delivered"]
  BY <1>2, <1>3, LifeOf
<1>5. Life[e] \in {"queued", "delivered", "dead"}
  BY <1>1 DEF Life, DeliveryState, Exists, Rows, Statuses
<1> QED BY <1>4, <1>5 DEF Delivery!Deliver, Publishes, Life

LEMMA BuriesIsBury ==
  ASSUME TypeOK, NEW e \in Events, row[e].status \in Queued, NEW r \in Rows,
         r.status = "DEAD", row' = [row EXCEPT ![e] = r], UNCHANGED applied
  PROVE  Delivery!Bury(e)
<1>1. Life' = [Life EXCEPT ![e] = "dead"]
  BY LifeOf
<1>2. Life[e] = "queued"
  BY DEF Life, DeliveryState, Queued
<1> QED BY <1>1, <1>2 DEF Delivery!Bury, Life

LEMMA RequeuedIsPutBack ==
  ASSUME TypeOK, NEW e \in Events, Exists(e), NEW l \in Rows,
         row' = [row EXCEPT ![e] = Requeued(row[e], l)], UNCHANGED applied
  PROVE  Delivery!PutBack(e) \/ UNCHANGED <<Life, applied>>
<1> DEFINE r == Requeued(row[e], l)
<1>1. row[e] \in Rows
  BY DEF TypeOK
<1>2. r \in Rows
  BY <1>1, RowTypes
<1>3. r.status = "PENDING"
  BY <1>1 DEF Requeued, Rows
<1> HIDE DEF r
<1>4. CASE row[e].status \in Queued
  BY <1>2, <1>3, <1>4, Stutters DEF Queued, r
<1>5. CASE row[e].status \in {"DEAD", "PUBLISHED"}
  <2>1. Life' = [Life EXCEPT ![e] = "queued"]
    BY <1>2, <1>3, LifeOf DEF Queued, r
  <2>2. Life[e] \in {"dead", "delivered"}
    BY <1>5 DEF Life, DeliveryState, Queued
  <2> QED BY <2>1, <2>2 DEF Delivery!PutBack, Life
<1> QED BY <1>1, <1>4, <1>5 DEF Exists, Rows, Statuses

LEMMA StepRefines ==
  ASSUME IInv, [Next]_vars
  PROVE  Delivery!Next \/ UNCHANGED <<Life, applied>>
<1> USE DEF IInv
<1>1. ASSUME NEW e \in Events, PublishEvent(e) PROVE Delivery!Publish(e)
  <2>1. row[e] \in Rows /\ row[e].status = "NONE"
    BY <1>1 DEF TypeOK, PublishEvent
  <2> DEFINE r == [row[e] EXCEPT !.status = "PENDING"]
  <2>2. r \in Rows /\ r.status \in Queued /\ row' = [row EXCEPT ![e] = r]
    BY <1>1, <2>1 DEF Rows, Statuses, Queued, PublishEvent
  <2> HIDE DEF r
  <2>3. Life' = [Life EXCEPT ![e] = "queued"]
    BY <2>2, LifeOf
  <2>4. Life[e] = "unborn"
    BY <2>1 DEF Life, DeliveryState, Queued
  <2> QED BY <1>1, <2>3, <2>4 DEF Delivery!Publish, PublishEvent, Life
<1>2. ASSUME NEW w \in Workers, NEW batch \in SUBSET Events, ClaimPendingEvents(w, batch)
      PROVE  UNCHANGED <<Life, applied>>
  <2>1. PICK t \in FreshTokens :
          row' = [d \in Events |-> IF d \in batch
                    THEN [row[d] EXCEPT !.token = t, !.lease = "live"]
                    ELSE row[d]]
    BY <1>2 DEF ClaimPendingEvents
  <2>2. \A d \in Events : row[d] \in Rows
    BY DEF TypeOK
  <2>3. \A d \in Events : row'[d].status = row[d].status
    BY <2>1, <2>2 DEF Rows
  <2> QED BY <1>2, <2>3, LifeUnchanged DEF ClaimPendingEvents
<1>3. ASSUME NEW w \in Workers, SettlePublished(w) PROVE Delivery!Next
  <2>1. worker[w].ev \in Events
    BY <1>3, LoadedType DEF SettlePublished
  <2> QED BY <1>3, <2>1, PublishesIsDeliver DEF SettlePublished, Delivery!Next
<1>4. ASSUME NEW w \in Workers, NEW e \in Events, worker[w].pc # "idle",
             row[e].token = worker[w].token
      PROVE  row[e] \in Rows /\ row[e].status \in Queued /\ Exists(e)
  <2>1. row[e].status \in Queued /\ row[e] \in Rows
    BY <1>4 DEF WorkersHoldBatches, ClaimsAreOnQueuedRows, TypeOK
  <2> QED BY <2>1 DEF Exists, Queued
<1>5. ASSUME NEW e \in Events, row[e] \in Rows, row[e].status \in Queued, Buries(e)
      PROVE  Delivery!Bury(e)
  <2> DEFINE r == Released([row[e] EXCEPT !.status = "DEAD"])
  <2>1. [row[e] EXCEPT !.status = "DEAD"] \in Rows
    BY <1>5 DEF Rows, Statuses
  <2>2. r \in Rows /\ r.status = "DEAD"
    BY <2>1, RowTypes, <1>5 DEF Released, Rows
  <2> HIDE DEF r
  <2> QED BY <1>5, <2>2, BuriesIsBury DEF Buries, r
<1>6. ASSUME NEW w \in Workers, SettleRetry(w)
      PROVE  Delivery!Next \/ UNCHANGED <<Life, applied>>
  <2> DEFINE e == worker[w].ev
             r == RetryRow(row[e])
  <2>1. e \in Events
    BY <1>6, LoadedType DEF SettleRetry
  <2>2. row[e] \in Rows /\ row[e].status \in Queued
    BY <1>4, <1>6, <2>1 DEF SettleRetry
  <2>3. r \in Rows /\ r.status \in {"DEAD", "FAILED"}
    BY <2>2, RowTypes DEF RetryRow, Released, Rows
  <2>4. row' = [row EXCEPT ![e] = r] /\ UNCHANGED applied
    BY <1>6 DEF SettleRetry
  <2> HIDE DEF e, r
  <2>5. CASE r.status = "DEAD"
    BY <2>1, <2>2, <2>3, <2>4, <2>5, BuriesIsBury DEF Delivery!Next
  <2>6. CASE r.status = "FAILED"
    BY <2>1, <2>2, <2>3, <2>4, <2>6, Stutters DEF Queued
  <2> QED BY <2>3, <2>5, <2>6
<1>7. ASSUME NEW w \in Workers, SettleDead(w) PROVE Delivery!Next
  <2>1. worker[w].ev \in Events
    BY <1>7, LoadedType DEF SettleDead
  <2> QED BY <1>4, <1>5, <1>7, <2>1 DEF SettleDead, Delivery!Next
<1>8. ASSUME NEW w \in Workers, NEW e \in Events, SettleUndelivered(w, e)
      PROVE  Delivery!Next
  BY <1>4, <1>5, <1>8, PublishesIsDeliver DEF SettleUndelivered, Delivery!Next
<1>9. ASSUME NEW e \in Events, LeaseExpires(e) \/ LeaseOverrun(e) \/ RetryDue(e)
      PROVE  UNCHANGED <<Life, applied>>
  <2>1. row[e] \in Rows
    BY DEF TypeOK
  <2>2. \A d \in Events : row'[d].status = row[d].status
    BY <1>9, <2>1 DEF TypeOK, Rows, LeaseExpires, LeaseOverrun, RetryDue
  <2> QED BY <1>9, <2>2, LifeUnchanged DEF LeaseExpires, LeaseOverrun, RetryDue
<1>10. ASSUME NEW e \in Events, DeletePublished(e) PROVE Delivery!Expunge(e)
  <2>1. row[e] \in Rows /\ row[e].status = "PUBLISHED"
    BY <1>10 DEF TypeOK, DeletePublished
  <2> DEFINE r == [row[e] EXCEPT !.status = "DELETED"]
  <2>2. r \in Rows /\ r.status = "DELETED" /\ row' = [row EXCEPT ![e] = r]
    BY <1>10, <2>1 DEF Rows, Statuses, DeletePublished
  <2> HIDE DEF r
  <2>3. Life' = [Life EXCEPT ![e] = "gone"]
    BY <2>2, LifeOf
  <2>4. Life[e] = "delivered"
    BY <2>1 DEF Life, DeliveryState, Queued
  <2> QED BY <1>10, <2>3, <2>4 DEF Delivery!Expunge, DeletePublished, Life
<1>11. ASSUME NEW o \in Operators, RequeueDeadEvent(o)
       PROVE  Delivery!Next \/ UNCHANGED <<Life, applied>>
  <2>1. operator[o] \in [ev : Events, row : Rows]
    BY <1>11 DEF RequeueDeadEvent, TypeOK
  <2>2. CASE Exists(operator[o].ev)
    BY <1>11, <2>1, <2>2, RequeuedIsPutBack DEF RequeueDeadEvent, Delivery!Next
  <2>3. CASE ~Exists(operator[o].ev)
    BY <1>11, <2>3, LifeUnchanged DEF RequeueDeadEvent
  <2> QED BY <2>2, <2>3
<1>12. ASSUME NEW e \in Events, RetryDeadEvent(e)
       PROVE  Delivery!Next \/ UNCHANGED <<Life, applied>>
  <2>1. row[e] \in Rows /\ Exists(e)
    BY <1>12 DEF TypeOK, RetryDeadEvent, Exists
  <2> QED BY <1>12, <2>1, RequeuedIsPutBack DEF RetryDeadEvent, Delivery!Next
<1>13. ASSUME UNCHANGED <<row, applied>> PROVE UNCHANGED <<Life, applied>>
  BY <1>13, LifeUnchanged
<1> QED
  BY <1>1, <1>2, <1>3, <1>6, <1>7, <1>8, <1>9, <1>10, <1>11, <1>12, <1>13
  DEF Next, Deliver, vars, Load, SettleStale, SkipLostClaim, SettlementFails, Crash,
      OpenRequeue, RequeueFails, Delivery!Next

\* The outbox implements at-least-once delivery: what it calls delivered was
\* committed with its consequence, and a settled event stays so until an
\* operator or a late claimant says otherwise.
THEOREM OutboxImplementsDelivery == Spec => ImplementsDelivery
<1>1. Init => Delivery!Init
  BY DEF Init, Delivery!Init, DeliveryState, Unpublished, Queued
<1>2. IInv /\ [Next]_vars => [Delivery!Next]_(Delivery!vars)
  BY StepRefines DEF Delivery!vars, Life
<1> QED BY <1>1, <1>2, InductiveInvariant, PTL DEF Spec, ImplementsDelivery, Delivery!Spec

=============================================================================
