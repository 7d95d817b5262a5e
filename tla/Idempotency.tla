----------------------------- MODULE Idempotency -----------------------------
(***************************************************************************)
(* API idempotency: IdempotencyService and the two ways in which endpoints *)
(* use it (api/idempotency.py).                                            *)
(*                                                                         *)
(* Most endpoints claim a key with a committed placeholder before they run *)
(* (check_or_reserve_idempotency) and commit the response with what their  *)
(* handler flushed.  The others claim it inside their one transaction.     *)
(*                                                                         *)
(* Time appears as events: a reservation's lease (15 minutes) lapses, a    *)
(* record's retention (24 hours) runs out.  Only requests that carry the   *)
(* same body are modelled: one with another body is refused and changes    *)
(* nothing, as is one that is answered from the record.                    *)
(***************************************************************************)
EXTENDS Naturals

CONSTANTS
  Requests,      \* slots for requests under way; a retry uses one again
  Keys,          \* idempotency keys, each of one organization and endpoint
  KeyOf,         \* KeyOf[r]: the key requests of slot r carry
  Transactional, \* keys of the endpoints that reserve in their transaction
  None,
  MaxFaults,     \* bound: requests that end without recording an outcome
  MaxExpiries    \* bound: records whose retention runs out

ASSUME IdempotencyConstants ==
  /\ KeyOf \in [Requests -> Keys]
  /\ Transactional \subseteq Keys
  /\ None \notin Requests
  /\ MaxFaults \in Nat
  /\ MaxExpiries \in Nat

VARIABLES
  record,   \* platform.idempotency_record, by key
  request,  \* the requests under way
  holder,   \* the transaction that inserted a key and has not ended
  effect,   \* committed executions of the operation since the record began
  faults,
  expiries

vars == <<record, request, holder, effect, faults, expiries>>

-----------------------------------------------------------------------------
\* 202 is reserved; any other response status is an outcome.
Outcomes == {"ok", "error"}

\* lapsed: created_at is older than the lease; expired: expires_at has passed.
Records == [status : {"none", "reserved"} \cup Outcomes, lapsed : BOOLEAN, expired : BOOLEAN]

NoRecord == [status |-> "none", lapsed |-> FALSE, expired |-> FALSE]
Answered == [status |-> "ok", lapsed |-> FALSE, expired |-> FALSE]
Reserved == [status |-> "reserved", lapsed |-> FALSE, expired |-> FALSE]

\* pc: "absent" and "stale" lie between a request's check and its claim.
\* won: it owns the key by a takeover; lapsed: its lease ran out meanwhile.
Attempts == [pc : {"idle", "absent", "stale", "running"}, won : BOOLEAN, lapsed : BOOLEAN]

At(pc) == [pc |-> pc, won |-> FALSE, lapsed |-> FALSE]

Idle == At("idle")

Won == [pc |-> "running", won |-> TRUE, lapsed |-> FALSE]

\* Committed executions are counted up to two: twice is once too often.
Counts == 0..2
Plus(n, d) == IF n + d > 2 THEN 2 ELSE n + d

Init ==
  /\ record = [k \in Keys |-> NoRecord]
  /\ request = [r \in Requests |-> Idle]
  /\ holder = [k \in Keys |-> None]
  /\ effect = [k \in Keys |-> 0]
  /\ faults = 0
  /\ expiries = 0

Gone(k) == record[k].status = "none" \/ record[k].expired

\* Variant: no lease, a reservation is stale when its retention has run out.
StaleWhenExpired(k) == record[k].status = "reserved" /\ record[k].expired

IsStaleReservation(k) == record[k].status = "reserved" /\ record[k].lapsed

-----------------------------------------------------------------------------
(* Reservations that are committed before the operation runs.              *)

\* check finds no record, or one that expired, which it deletes.
CheckAbsent(r) ==
  LET k == KeyOf[r] IN
  /\ k \notin Transactional
  /\ request[r].pc = "idle"
  /\ Gone(k)
  /\ request' = [request EXCEPT ![r] = At("absent")]
  /\ record' = [record EXCEPT ![k] = NoRecord]
  /\ effect' = [effect EXCEPT ![k] = 0]
  /\ UNCHANGED <<holder, faults, expiries>>

\* check finds an unfinished reservation whose lease has lapsed.
CheckStale(r) ==
  LET k == KeyOf[r] IN
  /\ k \notin Transactional
  /\ request[r].pc = "idle"
  /\ ~Gone(k)
  /\ IsStaleReservation(k)
  /\ request' = [request EXCEPT ![r] = At("stale")]
  /\ UNCHANGED <<record, holder, effect, faults, expiries>>

\* Variant: the UPDATE names the record and does not look at its age again.
TakeOverUnconditionally(r) ==
  LET k == KeyOf[r] IN
  /\ request[r].pc = "stale"
  /\ record[k].status = "reserved"
  /\ record' = [record EXCEPT ![k].lapsed = FALSE]
  /\ request' = [request EXCEPT ![r] = Won]
  /\ UNCHANGED <<holder, effect, faults, expiries>>

\* take_over_reservation: one conditional UPDATE.  Who updates the row runs.
TakeOver(r) ==
  LET k == KeyOf[r] IN
  /\ request[r].pc = "stale"
  /\ IsStaleReservation(k)
  /\ record' = [record EXCEPT ![k].lapsed = FALSE]
  /\ request' = [request EXCEPT ![r] = Won]
  /\ UNCHANGED <<holder, effect, faults, expiries>>

\* Who updates no row replays what the record says by now.
LoseTakeOver(r) ==
  /\ request[r].pc = "stale"
  /\ ~IsStaleReservation(KeyOf[r])
  /\ request' = [request EXCEPT ![r] = Idle]
  /\ UNCHANGED <<record, holder, effect, faults, expiries>>

\* reserve inserts the placeholder and commits it.
Reserve(r) ==
  LET k == KeyOf[r] IN
  /\ k \notin Transactional
  /\ request[r].pc = "absent"
  /\ record[k].status = "none"
  /\ record' = [record EXCEPT ![k] = Reserved]
  /\ request' = [request EXCEPT ![r] = At("running")]
  /\ UNCHANGED <<holder, effect, faults, expiries>>

\* When another request inserted it first, reserve returns that record,
\* check_or_reserve_idempotency drops it, and the request runs all the same.
ReserveExisting(r) ==
  /\ KeyOf[r] \notin Transactional
  /\ request[r].pc = "absent"
  /\ record[KeyOf[r]].status # "none"
  /\ request' = [request EXCEPT ![r] = At("running")]
  /\ UNCHANGED <<record, holder, effect, faults, expiries>>

\* Variant: the operation is committed first, the outcome with the cleanup.
CommitThenUpdate(r, outcome, executed) ==
  LET k == KeyOf[r] IN
  /\ k \notin Transactional
  /\ request[r].pc = "running"
  /\ \/ /\ effect' = [effect EXCEPT ![k] = Plus(@, executed)]
        /\ request' = [request EXCEPT ![r] = At("stale")]
        /\ UNCHANGED record
     \/ /\ record' = [record EXCEPT ![k].status = outcome, ![k].lapsed = FALSE]
        /\ request' = [request EXCEPT ![r] = Idle]
        /\ UNCHANGED effect
  /\ UNCHANGED <<holder, faults, expiries>>

\* update_response: the outcome goes to whatever record the key has by now,
\* or to a new one, and is committed with all that the handler flushed.  On
\* an error that is anything from nothing to most of the operation.
UpdateResponse(r, outcome, executed) ==
  LET k == KeyOf[r] IN
  /\ k \notin Transactional
  /\ request[r].pc = "running"
  /\ record' = [record EXCEPT ![k].status = outcome, ![k].lapsed = FALSE]
  /\ effect' = [effect EXCEPT ![k] = Plus(@, executed)]
  /\ request' = [request EXCEPT ![r] = Idle]
  /\ UNCHANGED <<holder, faults, expiries>>

Respond(r) ==
  \/ UpdateResponse(r, "ok", 1)
  \/ \E executed \in {0, 1} : UpdateResponse(r, "error", executed)

-----------------------------------------------------------------------------
(* Reservations inside the operation's transaction.                        *)

\* The first look finds no record, or an expired one.
LookTransactional(r) ==
  /\ KeyOf[r] \in Transactional
  /\ request[r].pc = "idle"
  /\ Gone(KeyOf[r])
  /\ request' = [request EXCEPT ![r] = At("absent")]
  /\ UNCHANGED <<record, holder, effect, faults, expiries>>

\* Variant: the check is trusted, and nothing waits for the unique key.
InsertUnchecked(r) ==
  LET k == KeyOf[r] IN
  /\ k \in Transactional
  /\ request[r].pc = "absent"
  /\ holder' = [holder EXCEPT ![k] = r]
  /\ request' = [request EXCEPT ![r] = At("running")]
  /\ UNCHANGED <<record, effect, faults, expiries>>

\* The INSERT waits for a transaction that inserted the key before it; then
\* it succeeds, the deletion of an expired record included.
InsertTransactional(r) ==
  LET k == KeyOf[r] IN
  /\ k \in Transactional
  /\ request[r].pc = "absent"
  /\ holder[k] = None
  /\ Gone(k)
  /\ holder' = [holder EXCEPT ![k] = r]
  /\ request' = [request EXCEPT ![r] = At("running")]
  /\ UNCHANGED <<record, effect, faults, expiries>>

\* Or it violates the unique key, and the request replays the record.
LoseInsert(r) ==
  LET k == KeyOf[r] IN
  /\ k \in Transactional
  /\ request[r].pc = "absent"
  /\ holder[k] = None
  /\ ~Gone(k)
  /\ request' = [request EXCEPT ![r] = Idle]
  /\ UNCHANGED <<record, holder, effect, faults, expiries>>

\* The outcome is staged, and operation and record are committed at once.
CommitTransactional(r) ==
  LET k == KeyOf[r] IN
  /\ k \in Transactional
  /\ request[r].pc = "running"
  /\ record' = [record EXCEPT ![k] = Answered]
  /\ effect' = [effect EXCEPT ![k] = Plus(IF record[k].expired THEN 0 ELSE @, 1)]
  /\ holder' = [holder EXCEPT ![k] = None]
  /\ request' = [request EXCEPT ![r] = Idle]
  /\ UNCHANGED <<faults, expiries>>

\* Variant: the reservation is marked released and kept.
ReleaseByStatus(r) ==
  LET k == KeyOf[r] IN
  /\ k \in Transactional
  /\ request[r].pc = "running"
  /\ record' = [record EXCEPT ![k].status = "released"]
  /\ holder' = [holder EXCEPT ![k] = None]
  /\ request' = [request EXCEPT ![r] = Idle]
  /\ UNCHANGED <<effect, faults, expiries>>

\* A refused operation releases its reservation; the deletion of an expired
\* record is committed all the same.
ReleaseTransactional(r) ==
  LET k == KeyOf[r] IN
  /\ k \in Transactional
  /\ request[r].pc = "running"
  /\ record' = [record EXCEPT ![k] = NoRecord]
  /\ effect' = [effect EXCEPT ![k] = 0]
  /\ holder' = [holder EXCEPT ![k] = None]
  /\ request' = [request EXCEPT ![r] = Idle]
  /\ UNCHANGED <<faults, expiries>>

-----------------------------------------------------------------------------
(* Faults and time.                                                        *)

\* The process dies, the outcome cannot be written, or the handler raises
\* past its endpoint: what was not committed is rolled back.
Abandon(r) ==
  LET k == KeyOf[r] IN
  /\ request[r].pc # "idle"
  /\ faults < MaxFaults
  /\ faults' = faults + 1
  /\ request' = [request EXCEPT ![r] = Idle]
  /\ holder' = [holder EXCEPT ![k] = IF @ = r THEN None ELSE @]
  /\ UNCHANGED <<record, effect, expiries>>

\* Fifteen minutes pass since a reservation was made or taken over; whoever
\* runs under it may run on.
LeaseLapses(k) ==
  /\ record[k].status = "reserved"
  /\ ~record[k].lapsed
  /\ record' = [record EXCEPT ![k].lapsed = TRUE]
  /\ request' = [r \in Requests |->
       IF KeyOf[r] = k /\ request[r].pc = "running"
       THEN [request[r] EXCEPT !.lapsed = TRUE] ELSE request[r]]
  /\ UNCHANGED <<holder, effect, faults, expiries>>

\* Twenty-four hours pass since a record was inserted, though not in the
\* moment between a request's check and its claim.
RetentionEnds(k) ==
  /\ record[k].status # "none"
  /\ ~record[k].expired
  /\ \A r \in Requests : KeyOf[r] = k => request[r].pc \in {"idle", "running"}
  /\ expiries < MaxExpiries
  /\ expiries' = expiries + 1
  /\ record' = [record EXCEPT ![k].expired = TRUE]
  /\ UNCHANGED <<request, holder, effect, faults>>

-----------------------------------------------------------------------------
\* What the code does for a request, faults apart.
Serve(r) ==
  \/ CheckAbsent(r) \/ CheckStale(r)
  \/ TakeOver(r) \/ LoseTakeOver(r)
  \/ Reserve(r) \/ ReserveExisting(r)
  \/ Respond(r)
  \/ LookTransactional(r) \/ InsertTransactional(r) \/ LoseInsert(r)
  \/ CommitTransactional(r) \/ ReleaseTransactional(r)

Next ==
  \/ \E r \in Requests : Serve(r) \/ Abandon(r)
  \/ \E k \in Keys : LeaseLapses(k) \/ RetentionEnds(k)

Spec == Init /\ [][Next]_vars

\* Requests are served, clients send a request again until it is answered
\* with an outcome, and the clock runs.
FairSpec ==
  /\ Spec
  /\ \A r \in Requests : WF_vars(Serve(r))
  /\ \A k \in Keys : WF_vars(LeaseLapses(k))

=============================================================================
