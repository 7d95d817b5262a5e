------------------------- MODULE IdempotencyProofs -------------------------
(***************************************************************************)
(* Proofs about API idempotency, for any number of requests and keys.      *)
(***************************************************************************)
EXTENDS IdempotencyProperties, TLAPS

USE IdempotencyConstants

\* A key of the transactional endpoints is never left reserved, its row is
\* absent or expired while a transaction inserts it, and that transaction is
\* of a request that carries the key.
TransactionalRows == \A k \in Transactional :
  /\ record[k].status \in {"none", "ok"}
  /\ holder[k] # None => KeyOf[holder[k]] = k /\ Gone(k)

\* While an owner by takeover runs on its lease, no other request finds the
\* reservation stale.
WinnersLeaseHolds == \A r \in Requests :
  request[r].pc = "running" /\ request[r].won /\ ~request[r].lapsed =>
    ~IsStaleReservation(KeyOf[r])

TransactionalInv ==
  /\ OneTransactionPerKey
  /\ TransactionalRows
  /\ TransactionalIsExactlyOnce

WinnersInv ==
  /\ WinnersLeaseHolds
  /\ OneWinnerPerLapse

IInv ==
  /\ TypeOK
  /\ ExecutionClosesTheKey
  /\ TransactionalInv
  /\ WinnersInv

-----------------------------------------------------------------------------
LEMMA KeysInRange ==
  \A r \in Requests : KeyOf[r] \in Keys
OBVIOUS

LEMMA AttemptTypes ==
  /\ Idle \in Attempts
  /\ Won \in Attempts
  /\ \A pc \in {"idle", "absent", "stale", "running"} : At(pc) \in Attempts
BY DEF At, Idle, Won, Attempts

LEMMA CountTypes ==
  \A n, d \in Counts : Plus(n, d) \in Counts
BY DEF Counts, Plus

LEMMA UpdateResponseType ==
  ASSUME TypeOK, NEW r \in Requests, NEW outcome \in Outcomes, NEW n \in {0, 1},
         UpdateResponse(r, outcome, n)
  PROVE  TypeOK'
<1>1. record[KeyOf[r]] \in Records
  BY KeysInRange DEF TypeOK
<1>2. [record[KeyOf[r]] EXCEPT !.status = outcome, !.lapsed = FALSE] \in Records
  BY <1>1 DEF Records, Outcomes
<1>3. Plus(effect[KeyOf[r]], n) \in Counts
  BY CountTypes, KeysInRange DEF TypeOK, Counts
<1> QED BY <1>2, <1>3, KeysInRange, AttemptTypes DEF TypeOK, UpdateResponse

\* Every step keeps the types: one case per action.
LEMMA TypeStep ==
  ASSUME TypeOK, [Next]_vars
  PROVE  TypeOK'
<1> USE KeysInRange, AttemptTypes DEF TypeOK
<1>1. ASSUME NEW r \in Requests, CheckAbsent(r) PROVE TypeOK'
  BY <1>1 DEF CheckAbsent, NoRecord, Records, Counts
<1>2. ASSUME NEW r \in Requests, CheckStale(r) PROVE TypeOK'
  BY <1>2 DEF CheckStale
<1>3. ASSUME NEW r \in Requests, TakeOver(r) PROVE TypeOK'
  <2>1. [record[KeyOf[r]] EXCEPT !.lapsed = FALSE] \in Records
    BY DEF Records
  <2> QED BY <1>3, <2>1 DEF TakeOver
<1>4. ASSUME NEW r \in Requests, LoseTakeOver(r) PROVE TypeOK'
  BY <1>4 DEF LoseTakeOver
<1>5. ASSUME NEW r \in Requests, Reserve(r) PROVE TypeOK'
  BY <1>5 DEF Reserve, Reserved, Records
<1>6. ASSUME NEW r \in Requests, ReserveExisting(r) PROVE TypeOK'
  BY <1>6 DEF ReserveExisting
<1>7. ASSUME NEW r \in Requests, Respond(r) PROVE TypeOK'
  BY <1>7, UpdateResponseType DEF Respond, Outcomes
<1>8. ASSUME NEW r \in Requests, LookTransactional(r) PROVE TypeOK'
  BY <1>8 DEF LookTransactional
<1>9. ASSUME NEW r \in Requests, InsertTransactional(r) PROVE TypeOK'
  BY <1>9 DEF InsertTransactional
<1>10. ASSUME NEW r \in Requests, LoseInsert(r) PROVE TypeOK'
  BY <1>10 DEF LoseInsert
<1>11. ASSUME NEW r \in Requests, CommitTransactional(r) PROVE TypeOK'
  <2>1. Answered \in Records
    BY DEF Answered, Records, Outcomes
  <2>2. Plus(IF record[KeyOf[r]].expired THEN 0 ELSE effect[KeyOf[r]], 1) \in Counts
    BY CountTypes DEF Counts
  <2> QED BY <1>11, <2>1, <2>2 DEF CommitTransactional
<1>12. ASSUME NEW r \in Requests, ReleaseTransactional(r) PROVE TypeOK'
  BY <1>12 DEF ReleaseTransactional, NoRecord, Records, Counts
<1>13. ASSUME NEW r \in Requests, Abandon(r) PROVE TypeOK'
  BY <1>13 DEF Abandon
<1>14. ASSUME NEW k \in Keys, LeaseLapses(k) PROVE TypeOK'
  <2>1. [record[k] EXCEPT !.lapsed = TRUE] \in Records
    BY DEF Records
  <2>2. \A r \in Requests : [request[r] EXCEPT !.lapsed = TRUE] \in Attempts
    BY DEF Attempts
  <2> QED BY <1>14, <2>1, <2>2 DEF LeaseLapses
<1>15. ASSUME NEW k \in Keys, RetentionEnds(k) PROVE TypeOK'
  <2>1. [record[k] EXCEPT !.expired = TRUE] \in Records
    BY DEF Records
  <2> QED BY <1>15, <2>1 DEF RetentionEnds
<1>16. CASE UNCHANGED vars
  BY <1>16 DEF vars
<1> QED
  BY <1>1, <1>2, <1>3, <1>4, <1>5, <1>6, <1>7, <1>8, <1>9, <1>10, <1>11, <1>12,
     <1>13, <1>14, <1>15, <1>16 DEF Next, Serve

\* update_response answers its key and touches no other.
LEMMA ResponsesAnswer ==
  ASSUME TypeOK, NEW r \in Requests, Respond(r)
  PROVE  /\ KeyOf[r] \notin Transactional
         /\ record'[KeyOf[r]].status \in Outcomes
         /\ \A k \in Keys \ {KeyOf[r]} : record'[k] = record[k] /\ effect'[k] = effect[k]
         /\ request' = [request EXCEPT ![r] = Idle]
         /\ holder' = holder
<1> DEFINE k == KeyOf[r]
<1>1. PICK outcome \in Outcomes, n \in {0, 1} : UpdateResponse(r, outcome, n)
  BY DEF Respond, Outcomes
<1>2. /\ record' = [record EXCEPT ![k] = [record[k] EXCEPT !.status = outcome, !.lapsed = FALSE]]
      /\ effect' = [effect EXCEPT ![k] = Plus(effect[k], n)]
  BY <1>1 DEF UpdateResponse
<1>3. record[k] \in Records
  BY KeysInRange DEF TypeOK
<1>4. [record[k] EXCEPT !.status = outcome, !.lapsed = FALSE].status = outcome
  BY <1>3 DEF Records
<1>5. record'[k].status = outcome
  BY <1>2, <1>4, KeysInRange DEF TypeOK
<1> QED BY <1>1, <1>2, <1>5, KeysInRange DEF TypeOK, UpdateResponse

\* No step leaves a committed execution without its outcome.
LEMMA ExecutionStep ==
  ASSUME TypeOK, ExecutionClosesTheKey, [Next]_vars
  PROVE  ExecutionClosesTheKey'
<1> USE KeysInRange DEF TypeOK, ExecutionClosesTheKey
<1>1. ASSUME NEW r \in Requests, CheckAbsent(r) PROVE ExecutionClosesTheKey'
  BY <1>1 DEF CheckAbsent, NoRecord
<1>2. ASSUME NEW r \in Requests, CheckStale(r) PROVE ExecutionClosesTheKey'
  BY <1>2 DEF CheckStale
<1>3. ASSUME NEW r \in Requests, TakeOver(r) PROVE ExecutionClosesTheKey'
  BY <1>3 DEF TakeOver, Records, Outcomes
<1>4. ASSUME NEW r \in Requests, LoseTakeOver(r) PROVE ExecutionClosesTheKey'
  BY <1>4 DEF LoseTakeOver
<1>5. ASSUME NEW r \in Requests, Reserve(r) PROVE ExecutionClosesTheKey'
  BY <1>5 DEF Reserve, Reserved, Counts, Outcomes
<1>6. ASSUME NEW r \in Requests, ReserveExisting(r) PROVE ExecutionClosesTheKey'
  BY <1>6 DEF ReserveExisting
<1>7. ASSUME NEW r \in Requests, Respond(r) PROVE ExecutionClosesTheKey'
  BY <1>7, ResponsesAnswer
<1>8. ASSUME NEW r \in Requests, LookTransactional(r) PROVE ExecutionClosesTheKey'
  BY <1>8 DEF LookTransactional
<1>9. ASSUME NEW r \in Requests, InsertTransactional(r) PROVE ExecutionClosesTheKey'
  BY <1>9 DEF InsertTransactional
<1>10. ASSUME NEW r \in Requests, LoseInsert(r) PROVE ExecutionClosesTheKey'
  BY <1>10 DEF LoseInsert
<1>11. ASSUME NEW r \in Requests, CommitTransactional(r) PROVE ExecutionClosesTheKey'
  BY <1>11 DEF CommitTransactional, Answered, Outcomes
<1>12. ASSUME NEW r \in Requests, ReleaseTransactional(r) PROVE ExecutionClosesTheKey'
  BY <1>12 DEF ReleaseTransactional, NoRecord
<1>13. ASSUME NEW r \in Requests, Abandon(r) PROVE ExecutionClosesTheKey'
  BY <1>13 DEF Abandon
<1>14. ASSUME NEW k \in Keys, LeaseLapses(k) PROVE ExecutionClosesTheKey'
  BY <1>14 DEF LeaseLapses, Records, Outcomes
<1>15. ASSUME NEW k \in Keys, RetentionEnds(k) PROVE ExecutionClosesTheKey'
  BY <1>15 DEF RetentionEnds, Records, Outcomes
<1>16. CASE UNCHANGED vars
  BY <1>16 DEF vars
<1> QED
  BY <1>1, <1>2, <1>3, <1>4, <1>5, <1>6, <1>7, <1>8, <1>9, <1>10, <1>11, <1>12, <1>13, <1>14, <1>15, <1>16 DEF Next, Serve

\* A transaction that reserves, executes and answers keeps all others out.
LEMMA TransactionStep ==
  ASSUME TypeOK, TransactionalInv, [Next]_vars
  PROVE  TransactionalInv'
<1> USE KeysInRange DEF TypeOK, TransactionalInv, OneTransactionPerKey, TransactionalRows,
           TransactionalIsExactlyOnce, Gone
<1>1. ASSUME NEW r \in Requests, CheckAbsent(r) PROVE TransactionalInv'
  BY <1>1 DEF CheckAbsent, At, NoRecord
<1>2. ASSUME NEW r \in Requests, CheckStale(r) PROVE TransactionalInv'
  BY <1>2 DEF CheckStale, At
<1>3. ASSUME NEW r \in Requests, TakeOver(r) PROVE TransactionalInv'
  BY <1>3 DEF TakeOver, Won, IsStaleReservation
<1>4. ASSUME NEW r \in Requests, LoseTakeOver(r) PROVE TransactionalInv'
  BY <1>4 DEF LoseTakeOver, At, Idle
<1>5. ASSUME NEW r \in Requests, Reserve(r) PROVE TransactionalInv'
  BY <1>5 DEF Reserve, At, Reserved
<1>6. ASSUME NEW r \in Requests, ReserveExisting(r) PROVE TransactionalInv'
  BY <1>6 DEF ReserveExisting, At
<1>7. ASSUME NEW r \in Requests, Respond(r) PROVE TransactionalInv'
  BY <1>7, ResponsesAnswer DEF At, Idle
<1>8. ASSUME NEW r \in Requests, LookTransactional(r) PROVE TransactionalInv'
  BY <1>8 DEF LookTransactional, At
<1>9. ASSUME NEW r \in Requests, InsertTransactional(r) PROVE TransactionalInv'
  BY <1>9 DEF InsertTransactional, At
<1>10. ASSUME NEW r \in Requests, LoseInsert(r) PROVE TransactionalInv'
  BY <1>10 DEF LoseInsert, At, Idle
<1>11. ASSUME NEW r \in Requests, CommitTransactional(r) PROVE TransactionalInv'
  BY <1>11 DEF CommitTransactional, At, Idle, Answered, Outcomes, Plus
<1>12. ASSUME NEW r \in Requests, ReleaseTransactional(r) PROVE TransactionalInv'
  BY <1>12 DEF ReleaseTransactional, At, Idle, NoRecord, Outcomes
<1>13. ASSUME NEW r \in Requests, Abandon(r) PROVE TransactionalInv'
  BY <1>13 DEF Abandon, At, Idle
<1>14. ASSUME NEW k \in Keys, LeaseLapses(k) PROVE TransactionalInv'
  BY <1>14 DEF LeaseLapses, Records, Attempts
<1>15. ASSUME NEW k \in Keys, RetentionEnds(k) PROVE TransactionalInv'
  BY <1>15 DEF RetentionEnds, Records
<1>16. CASE UNCHANGED vars
  BY <1>16 DEF vars
<1> QED
  BY <1>1, <1>2, <1>3, <1>4, <1>5, <1>6, <1>7, <1>8, <1>9, <1>10, <1>11, <1>12,
     <1>13, <1>14, <1>15, <1>16 DEF Next, Serve

\* A takeover finds no owner by takeover whose lease still runs.
LEMMA WinnerStep ==
  ASSUME TypeOK, TransactionalInv, WinnersInv, [Next]_vars
  PROVE  WinnersInv'
<1> USE KeysInRange DEF TypeOK, WinnersInv, WinnersLeaseHolds, OneWinnerPerLapse, Owns, IsStaleReservation
<1>1. ASSUME NEW r \in Requests, CheckAbsent(r) PROVE WinnersInv'
  BY <1>1 DEF CheckAbsent, At, NoRecord
<1>2. ASSUME NEW r \in Requests, CheckStale(r) PROVE WinnersInv'
  BY <1>2 DEF CheckStale, At
<1>3. ASSUME NEW r \in Requests, TakeOver(r) PROVE WinnersInv'
  BY <1>3 DEF TakeOver, Won
<1>4. ASSUME NEW r \in Requests, LoseTakeOver(r) PROVE WinnersInv'
  BY <1>4 DEF LoseTakeOver, At, Idle
<1>5. ASSUME NEW r \in Requests, Reserve(r) PROVE WinnersInv'
  BY <1>5 DEF Reserve, At, Reserved
<1>6. ASSUME NEW r \in Requests, ReserveExisting(r) PROVE WinnersInv'
  BY <1>6 DEF ReserveExisting, At
<1>7. ASSUME NEW r \in Requests, Respond(r) PROVE WinnersInv'
  BY <1>7, ResponsesAnswer DEF At, Idle, Outcomes
<1>8. ASSUME NEW r \in Requests, LookTransactional(r) PROVE WinnersInv'
  BY <1>8 DEF LookTransactional, At
<1>9. ASSUME NEW r \in Requests, InsertTransactional(r) PROVE WinnersInv'
  BY <1>9 DEF InsertTransactional, At
<1>10. ASSUME NEW r \in Requests, LoseInsert(r) PROVE WinnersInv'
  BY <1>10 DEF LoseInsert, At, Idle
<1>11. ASSUME NEW r \in Requests, CommitTransactional(r) PROVE WinnersInv'
  BY <1>11 DEF CommitTransactional, At, Idle, Answered, Outcomes, Plus
<1>12. ASSUME NEW r \in Requests, ReleaseTransactional(r) PROVE WinnersInv'
  BY <1>12 DEF ReleaseTransactional, At, Idle, NoRecord, Outcomes
<1>13. ASSUME NEW r \in Requests, Abandon(r) PROVE WinnersInv'
  BY <1>13 DEF Abandon, At, Idle
<1>14. ASSUME NEW k \in Keys, LeaseLapses(k) PROVE WinnersInv'
  BY <1>14 DEF LeaseLapses, Records, Attempts
<1>15. ASSUME NEW k \in Keys, RetentionEnds(k) PROVE WinnersInv'
  BY <1>15 DEF RetentionEnds, Records
<1>16. CASE UNCHANGED vars
  BY <1>16 DEF vars
<1> QED
  BY <1>1, <1>2, <1>3, <1>4, <1>5, <1>6, <1>7, <1>8, <1>9, <1>10, <1>11, <1>12,
     <1>13, <1>14, <1>15, <1>16 DEF Next, Serve

-----------------------------------------------------------------------------
LEMMA InitInv ==
  Init => IInv
<1> SUFFICES ASSUME Init PROVE IInv
  OBVIOUS
<1>1. TypeOK
  BY AttemptTypes DEF Init, TypeOK, NoRecord, Records, Counts
<1>2. ExecutionClosesTheKey
  BY DEF Init, ExecutionClosesTheKey
<1>3. TransactionalInv
  BY KeysInRange DEF Init, TransactionalInv, OneTransactionPerKey, TransactionalRows,
     TransactionalIsExactlyOnce, NoRecord, Outcomes, Idle, At
<1>4. WinnersInv
  BY DEF Init, WinnersInv, WinnersLeaseHolds, OneWinnerPerLapse, Owns, Idle, At
<1> QED BY <1>1, <1>2, <1>3, <1>4 DEF IInv

\* The inductive invariant of API idempotency.
THEOREM InductiveInvariant == Spec => []IInv
<1>1. Init => IInv
  BY InitInv
<1>2. IInv /\ [Next]_vars => IInv'
  BY TypeStep, ExecutionStep, TransactionStep, WinnerStep DEF IInv
<1> QED BY <1>1, <1>2, PTL DEF Spec

\* Every reachable state is well typed.
THEOREM TypeCorrect == Spec => []TypeOK
<1>1. IInv => TypeOK
  BY DEF IInv
<1> QED BY <1>1, InductiveInvariant, PTL

\* A committed execution always has its outcome on record.
THEOREM CommittedIsAnswered == Spec => []ExecutionClosesTheKey
<1>1. IInv => ExecutionClosesTheKey
  BY DEF IInv
<1> QED BY <1>1, InductiveInvariant, PTL

\* check_or_reserve_transactional_idempotency executes exactly once.
THEOREM TransactionalOnce == Spec => []TransactionalIsExactlyOnce
<1>1. IInv => TransactionalIsExactlyOnce
  BY DEF IInv, TransactionalInv
<1> QED BY <1>1, InductiveInvariant, PTL

\* take_over_reservation has one winner while the lease lasts.
THEOREM OneWinner == Spec => []OneWinnerPerLapse
<1>1. IInv => OneWinnerPerLapse
  BY DEF IInv, WinnersInv
<1> QED BY <1>1, InductiveInvariant, PTL

=============================================================================
