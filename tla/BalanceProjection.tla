-------------------------- MODULE BalanceProjection --------------------------
(***************************************************************************)
(* The GL balance projection of one organization and fiscal period:        *)
(* gl.account_balance, derived from gl.posted_ledger_line and kept current *)
(* by the refresh queue, the outbox relay, the hourly reconciler and the   *)
(* nightly rebuild, all on PostgreSQL READ COMMITTED.                      *)
(*                                                                         *)
(* A session is one open transaction.  Its writes are kept in its record   *)
(* and reach the tables when it commits; until then it holds the row locks *)
(* and advisory locks it took, and a statement that needs a lock held by   *)
(* another session waits.  A balance is the set of postings it sums.       *)
(***************************************************************************)
EXTENDS Naturals, Sequences, FiniteSets

CONSTANTS
  Keys,         \* account keys: (account, period) pairs
  Postings,     \* journals to post
  Lines,        \* Lines[p]: the keys posting p has ledger lines on
  Relays,       \* sessions delivering ledger.posting.completed
  QueueWorkers, \* sessions running BalanceRefreshService.process_queue
  Reconciler,   \* the session of OutboxBalanceReconciler
  Rebuilder,    \* the session of data_health.rebuild_account_balances
  None,
  Reconciling,  \* whether the hourly reconciler runs
  MaxRebuilds,  \* bound: nightly rebuilds
  MaxFailures   \* bound: transactions lost to crashes and errors

Refreshers == Relays \cup QueueWorkers
Sessions == Postings \cup Refreshers \cup {Reconciler, Rebuilder}

\* What a session has yet to write to a row.
Writes == [i : Nat, sum : SUBSET Postings, writesSum : BOOLEAN, clearsStale : BOOLEAN]

ASSUME ProjectionConstants ==
  /\ Keys \subseteq Nat \ {0}
  /\ Lines \in [Postings -> (SUBSET Keys) \ {{}}]
  /\ None \notin Keys \cup Postings
  /\ None \notin Writes
  /\ Relays \cap QueueWorkers = {}
  /\ Postings \cap (Refreshers \cup {Reconciler, Rebuilder}) = {}
  /\ Reconciler # Rebuilder
  /\ {Reconciler, Rebuilder} \cap Refreshers = {}
  /\ Reconciling \in BOOLEAN
  /\ MaxRebuilds \in Nat
  /\ MaxFailures \in Nat

VARIABLES
  rows,       \* rows[k]: the account_balance rows of a key, as inserted
  queue,      \* queue[k]: its balance_refresh_queue entry
  event,      \* event[p]: the outbox row of a posting; "none" until it commits
  poster,     \* poster[p]: the posting transaction
  refresher,  \* the refresh transactions of relays and queue workers
  reconciler, \* the repair transaction
  rebuilder,  \* the rebuild transaction
  rebuilds,   \* rebuilds started
  failures    \* transactions lost

vars == <<rows, queue, event, poster, refresher, reconciler, rebuilder, rebuilds, failures>>

-----------------------------------------------------------------------------
(* The tables *)

Row(sum) == [live |-> TRUE, sum |-> sum, stale |-> FALSE]
Gone == [live |-> FALSE, sum |-> {}, stale |-> FALSE]

Live(k) == {i \in DOMAIN rows[k] : rows[k][i].live}

\* The posted ledger lines of a key, as a statement run now reads them.
Ledger(k) == {p \in Postings : event[p] # "none" /\ k \in Lines[p]}

\* What a session writes to the row it read (or, with index 0, inserts).  An
\* unchanged column is not part of the ORM's UPDATE.
Write(i, old, sum, refresh) ==
  [i |-> i, sum |-> sum, writesSum |-> i = 0 \/ old.sum # sum,
   clearsStale |-> refresh /\ old.stale]

Written(s, w) ==
  IF w = None THEN s
  ELSE IF w.i = 0 THEN Append(s, Row(w.sum))
  ELSE [s EXCEPT ![w.i].sum = IF w.writesSum THEN w.sum ELSE @,
                 ![w.i].stale = @ /\ ~w.clearsStale]

NoWrites == [k \in Keys |-> None]
NoSums == [k \in Keys |-> {}]

\* The row of a key a session reads: none, or any one of them, since a map
\* keyed by the dimensions keeps one of duplicate rows.
Reads(k, i) == IF Live(k) = {} THEN i = 0 ELSE i \in Live(k)

Read(k, i) == IF i = 0 THEN Gone ELSE rows[k][i]

-----------------------------------------------------------------------------
(* Sessions *)

IdlePoster == [pc |-> "idle", key |-> None, todo |-> {}, seen |-> "none",
               targets |-> {}, marked |-> {}, queued |-> {}, reset |-> {}]

IdleRefresher == [pc |-> "idle", ev |-> None, key |-> None, todo |-> {}, sum |-> {},
                  i |-> 0, old |-> Gone, writes |-> NoWrites, done |-> {},
                  queued |-> {}]

IdleReconciler == [pc |-> "idle", sums |-> NoSums, targets |-> {}, victims |-> {}]

IdleRebuilder == [pc |-> "idle", sums |-> NoSums, writes |-> NoWrites]

Init ==
  /\ rows = [k \in Keys |-> <<>>]
  /\ queue = [k \in Keys |-> "none"]
  /\ event = [p \in Postings |-> "none"]
  /\ poster = [p \in Postings |-> IdlePoster]
  /\ refresher = [r \in Refreshers |-> IdleRefresher]
  /\ reconciler = IdleReconciler
  /\ rebuilder = IdleRebuilder
  /\ rebuilds = 0
  /\ failures = 0

RowLock(k, i) == <<"row", k, i>>
QueueLock(k)  == <<"queue", k, 0>>
KeyLock(k)    == <<"key", k, 0>>

RowLocks(writes) ==
  {RowLock(k, writes[k].i) : k \in {j \in Keys : writes[j] # None /\ writes[j].i # 0}}

RowsOf(k) == {RowLock(k, i) : i \in Live(k)}
AllRows == UNION {RowsOf(k) : k \in Keys}

\* What the open transaction of a session holds.
Holds(s) ==
  IF s \in Postings THEN
    poster[s].marked \cup {QueueLock(k) : k \in poster[s].queued}
  ELSE IF s \in Refreshers THEN
    RowLocks(refresher[s].writes)
      \cup {QueueLock(k) : k \in refresher[s].queued}
      \cup {KeyLock(k) : k \in {j \in Keys : \/ refresher[s].writes[j] # None
                                             \/ refresher[s].pc \in {"read", "flush"}
                                                  /\ j = refresher[s].key}}
  ELSE IF s = Reconciler THEN reconciler.victims
  ELSE IF rebuilder.pc = "commit" THEN RowLocks(rebuilder.writes)
  ELSE {}

\* The rows a rebuild updates: only those whose sum it changes.
RebuildRows == [k \in Keys |->
  IF rebuilder.writes[k] # None /\ rebuilder.writes[k].writesSum
    THEN rebuilder.writes[k] ELSE None]

\* What the next statement of a session has to lock.
Needs(s) ==
  IF s \in Postings THEN
    CASE poster[s].pc = "mark"  -> poster[s].targets \cap AllRows
      [] poster[s].pc = "write" -> {QueueLock(poster[s].key)}
      [] OTHER -> {}
  ELSE IF s \in Refreshers THEN
    CASE refresher[s].pc = "lock"  -> {KeyLock(refresher[s].key)}
      [] refresher[s].pc = "flush" ->
           (IF refresher[s].i = 0 THEN {} ELSE {RowLock(refresher[s].key, refresher[s].i)})
             \cup {QueueLock(k) : k \in refresher[s].done}
      [] refresher[s].pc = "close" -> {QueueLock(k) : k \in refresher[s].done}
      [] OTHER -> {}
  ELSE IF s = Reconciler THEN
    IF reconciler.pc = "delete" THEN reconciler.targets \cap AllRows ELSE {}
  ELSE IF rebuilder.pc = "flush" THEN RowLocks(RebuildRows) ELSE {}

WaitsFor(s, t) == s # t /\ Needs(s) \cap Holds(t) # {}

Granted(s) == \A t \in Sessions : ~WaitsFor(s, t)

\* A cycle of waits: PostgreSQL breaks it by aborting one of its members.
Deadlocked(s) == ~Granted(s) /\ \E C \in SUBSET {t \in Sessions : ~Granted(t)} :
  /\ s \in C
  /\ \A t \in C : /\ \E u \in C : WaitsFor(t, u)
                  /\ \E u \in C : WaitsFor(u, t)

-----------------------------------------------------------------------------
(* Posting: ledger lines, BalanceInvalidationService.invalidate_batch and  *)
(* the outbox event, in one transaction.                                   *)

PosterOnly == UNCHANGED <<refresher, reconciler, rebuilder, rebuilds, failures>>

\* Variant: a journal that is posted can be posted again.
BeginPostingAgain(p, k) ==
  /\ poster[p].pc = "idle"
  /\ k \in Lines[p]
  /\ poster' = [poster EXCEPT ![p] = [IdlePoster EXCEPT !.pc = "mark", !.key = k]]
  /\ PosterOnly /\ UNCHANGED <<rows, queue, event>>

BeginPosting(p, k) ==
  /\ event[p] = "none"
  /\ poster[p].pc = "idle"
  /\ k \in Lines[p]
  /\ poster' = [poster EXCEPT ![p] = [IdlePoster EXCEPT !.pc = "mark", !.key = k,
                                                        !.todo = Lines[p] \ {k},
                                                        !.targets = RowsOf(k)]]
  /\ PosterOnly /\ UNCHANGED <<rows, queue, event>>

\* UPDATE account_balance SET is_stale: it waits for the rows its snapshot
\* held, and passes over those deleted meanwhile.
MarkStale(p) ==
  /\ poster[p].pc = "mark"
  /\ Granted(p)
  /\ poster' = [poster EXCEPT ![p].pc = "select", ![p].targets = {},
                                    ![p].marked = @ \cup Needs(p)]
  /\ PosterOnly /\ UNCHANGED <<rows, queue, event>>

SelectEntry(p) ==
  /\ poster[p].pc = "select"
  /\ poster' = [poster EXCEPT ![p].pc = "write", ![p].seen = queue[poster[p].key]]
  /\ PosterOnly /\ UNCHANGED <<rows, queue, event>>

\* The entry is inserted, reopened, or (when it was read as pending) only
\* touched: processed_at is then unchanged and not written.
WriteEntry(p) ==
  LET k == poster[p].key IN
  /\ poster[p].pc = "write"
  /\ Granted(p)
  /\ poster[p].seen = "none" => queue[k] = "none"
  /\ \E next \in IF poster[p].todo = {} THEN {None} ELSE poster[p].todo :
       poster' = [poster EXCEPT
         ![p].pc = IF next = None THEN "commit" ELSE "mark",
         ![p].key = next,
         ![p].todo = @ \ {next},
         ![p].targets = IF next = None THEN {} ELSE RowsOf(next),
         ![p].queued = @ \cup {k},
         ![p].reset = IF poster[p].seen = "pending" THEN @ ELSE @ \cup {k}]
  /\ PosterOnly /\ UNCHANGED <<rows, queue, event>>

CommitPosting(p) ==
  /\ poster[p].pc = "commit"
  /\ rows' = [k \in Keys |-> [i \in DOMAIN rows[k] |->
                [rows[k][i] EXCEPT !.stale = @ \/ RowLock(k, i) \in poster[p].marked]]]
  /\ queue' = [k \in Keys |-> IF k \in poster[p].reset THEN "pending" ELSE queue[k]]
  /\ event' = [event EXCEPT ![p] = "queued"]
  /\ poster' = [poster EXCEPT ![p] = IdlePoster]
  /\ PosterOnly

-----------------------------------------------------------------------------
(* BalanceRefreshService.refresh_balance, in a relay delivery or in a pass *)
(* over the queue.                                                         *)

RefresherOnly == UNCHANGED <<poster, reconciler, rebuilder, rebuilds, failures>>

\* Variant: only the first key of the event is refreshed.
StartFirstKeyOnly(r, p) ==
  /\ refresher[r].pc = "idle"
  /\ event[p] = "queued"
  /\ \E k \in Lines[p] :
       /\ \A j \in Lines[p] : k <= j
       /\ refresher' = [refresher EXCEPT ![r] =
            [IdleRefresher EXCEPT !.pc = "lock", !.ev = p, !.key = k]]
  /\ RefresherOnly /\ UNCHANGED <<rows, queue, event>>

\* The relay delivers a posting event: its keys in sorted order.
StartDelivery(r, p) ==
  /\ refresher[r].pc = "idle"
  /\ event[p] = "queued"
  /\ \E k \in Lines[p] :
       /\ \A j \in Lines[p] : k <= j
       /\ refresher' = [refresher EXCEPT ![r] =
            [IdleRefresher EXCEPT !.pc = "lock", !.ev = p, !.key = k,
                                  !.todo = Lines[p] \ {k}]]
  /\ RefresherOnly /\ UNCHANGED <<rows, queue, event>>

\* process_queue reads the pending entries.
StartPass(w) ==
  LET pending == {k \in Keys : queue[k] = "pending"} IN
  /\ refresher[w].pc = "idle"
  /\ \E k \in pending :
       refresher' = [refresher EXCEPT ![w] =
         [IdleRefresher EXCEPT !.pc = "lock", !.key = k, !.todo = pending \ {k}]]
  /\ RefresherOnly /\ UNCHANGED <<rows, queue, event>>

\* Variant: the account/period lock is not taken.
SumUnlocked(r) ==
  /\ refresher[r].pc = "lock"
  /\ refresher' = [refresher EXCEPT ![r].pc = "read", ![r].sum = Ledger(refresher[r].key)]
  /\ RefresherOnly /\ UNCHANGED <<rows, queue, event>>

\* Take the account/period lock, then sum the posted lines.
LockAndSum(r) ==
  LET k == refresher[r].key IN
  /\ refresher[r].pc = "lock"
  /\ Granted(r)
  /\ refresher' = [refresher EXCEPT ![r].pc = "read", ![r].sum = Ledger(k)]
  /\ RefresherOnly /\ UNCHANGED <<rows, queue, event>>

ReadRow(r) ==
  LET k == refresher[r].key IN
  /\ refresher[r].pc = "read"
  /\ \E i \in Live(k) \cup {0} :
       /\ Reads(k, i)
       /\ refresher' = [refresher EXCEPT ![r].pc = "flush", ![r].i = i,
                                         ![r].old = Read(k, i)]
  /\ RefresherOnly /\ UNCHANGED <<rows, queue, event>>

\* The row read is still there to be updated.
Writable(k, i) == i = 0 \/ i \in Live(k)

\* The refresh of r once its row is flushed, and its session's writes with it.
Flushed(r, next) ==
  LET k == refresher[r].key
      pc == IF next # None THEN "lock" ELSE IF r \in Relays THEN "commit" ELSE "close"
      w == Write(refresher[r].i, refresher[r].old, refresher[r].sum, TRUE)
  IN [refresher[r] EXCEPT
        !.pc = pc, !.key = next, !.todo = @ \ {next}, !.sum = {}, !.i = 0, !.old = Gone,
        !.writes = [@ EXCEPT ![k] = w], !.queued = @ \cup refresher[r].done,
        !.done = IF r \in Relays THEN {} ELSE {k}]

\* Flush the refreshed row, with the queue entries of the keys before it.
FlushRow(r) ==
  LET todo == refresher[r].todo
      rest == IF r \in Relays THEN {j \in todo : \A m \in todo : j <= m} ELSE todo
  IN
  /\ refresher[r].pc = "flush"
  /\ Granted(r)
  /\ Writable(refresher[r].key, refresher[r].i)
  /\ \E next \in IF todo = {} THEN {None} ELSE rest :
       refresher' = [refresher EXCEPT ![r] = Flushed(r, next)]
  /\ RefresherOnly /\ UNCHANGED <<rows, queue, event>>

\* The flush that ends process_queue.
ClosePass(w) ==
  /\ refresher[w].pc = "close"
  /\ Granted(w)
  /\ refresher' = [refresher EXCEPT ![w].pc = "commit", ![w].done = {},
                                    ![w].queued = @ \cup refresher[w].done]
  /\ RefresherOnly /\ UNCHANGED <<rows, queue, event>>

\* A relay publishes the event, a queue worker marks the entries processed.
CommitRefresh(r) ==
  /\ refresher[r].pc = "commit"
  /\ rows' = [k \in Keys |-> Written(rows[k], refresher[r].writes[k])]
  /\ queue' = [k \in Keys |-> IF k \in refresher[r].queued THEN "done" ELSE queue[k]]
  /\ event' = [p \in Postings |-> IF p = refresher[r].ev THEN "published" ELSE event[p]]
  /\ refresher' = [refresher EXCEPT ![r] = IdleRefresher]
  /\ RefresherOnly

-----------------------------------------------------------------------------
(* OutboxBalanceReconciler.reconcile_period and the writer it repairs with, *)
(* AccountBalanceService.rebuild_balances_for_period.                      *)

ReconcilerOnly == UNCHANGED <<queue, event, poster, refresher, rebuilder, rebuilds, failures>>

\* The amounts of a key's rows, added up, are those of the postings.
Agrees(k, sum) ==
  IF sum = {} THEN Live(k) = {}
  ELSE Cardinality(Live(k)) = 1 /\ \A i \in Live(k) : rows[k][i].sum = sum

\* The period has a posting event that was published in the lookback window.
StartReconcile ==
  /\ Reconciling
  /\ reconciler.pc = "idle"
  /\ \E p \in Postings : event[p] = "published"
  /\ reconciler' = [IdleReconciler EXCEPT !.pc = "compare", !.sums = [k \in Keys |-> Ledger(k)]]
  /\ ReconcilerOnly /\ UNCHANGED rows

\* Variant: only missing rows count as drift.
CompareMissingRows ==
  /\ reconciler.pc = "compare"
  /\ reconciler' = IF \A k \in Keys : reconciler.sums[k] = {} \/ Live(k) # {}
                     THEN IdleReconciler
                     ELSE [IdleReconciler EXCEPT !.pc = "repair"]
  /\ ReconcilerOnly /\ UNCHANGED rows

Compare ==
  /\ reconciler.pc = "compare"
  /\ reconciler' = IF \A k \in Keys : Agrees(k, reconciler.sums[k])
                     THEN IdleReconciler
                     ELSE [IdleReconciler EXCEPT !.pc = "repair"]
  /\ ReconcilerOnly /\ UNCHANGED rows

IssueDelete ==
  /\ reconciler.pc = "repair"
  /\ reconciler' = [reconciler EXCEPT !.pc = "delete", !.targets = AllRows]
  /\ ReconcilerOnly /\ UNCHANGED rows

DeleteRows ==
  /\ reconciler.pc = "delete"
  /\ Granted(Reconciler)
  /\ reconciler' = [reconciler EXCEPT !.pc = "aggregate", !.targets = {},
                                        !.victims = Needs(Reconciler)]
  /\ ReconcilerOnly /\ UNCHANGED rows

Aggregate ==
  /\ reconciler.pc = "aggregate"
  /\ reconciler' = [reconciler EXCEPT !.pc = "commit", !.sums = [k \in Keys |-> Ledger(k)]]
  /\ ReconcilerOnly /\ UNCHANGED rows

CommitRepair ==
  /\ reconciler.pc = "commit"
  /\ rows' = [k \in Keys |->
       LET kept == [i \in DOMAIN rows[k] |->
                      IF RowLock(k, i) \in reconciler.victims THEN Gone ELSE rows[k][i]]
       IN  IF reconciler.sums[k] = {} THEN kept ELSE Append(kept, Row(reconciler.sums[k]))]
  /\ reconciler' = IdleReconciler
  /\ ReconcilerOnly

-----------------------------------------------------------------------------
(* data_health.rebuild_account_balances: one aggregate over the ledger,    *)
(* then a write per row, without the account/period lock.                  *)

RebuilderOnly == UNCHANGED <<queue, event, poster, refresher, reconciler, failures>>

StartRebuild ==
  /\ rebuilds < MaxRebuilds
  /\ rebuilder.pc = "idle"
  /\ rebuilder' = [IdleRebuilder EXCEPT !.pc = "read", !.sums = [k \in Keys |-> Ledger(k)]]
  /\ rebuilds' = rebuilds + 1
  /\ RebuilderOnly /\ UNCHANGED rows

ReadRows ==
  /\ rebuilder.pc = "read"
  /\ \E found \in [Keys -> UNION {Live(k) : k \in Keys} \cup {0}] :
       /\ \A k \in Keys : Reads(k, found[k])
       /\ rebuilder' = [rebuilder EXCEPT !.pc = "flush", !.sums = NoSums,
            !.writes = [k \in Keys |->
              IF rebuilder.sums[k] = {} THEN None
              ELSE Write(found[k], Read(k, found[k]), rebuilder.sums[k], FALSE)]]
  /\ RebuilderOnly /\ UNCHANGED <<rows, rebuilds>>

FlushRebuild ==
  /\ rebuilder.pc = "flush"
  /\ Granted(Rebuilder)
  /\ \A k \in Keys : RebuildRows[k] # None => Writable(k, RebuildRows[k].i)
  /\ rebuilder' = [rebuilder EXCEPT !.pc = "commit", !.writes = RebuildRows]
  /\ RebuilderOnly /\ UNCHANGED <<rows, rebuilds>>

CommitRebuild ==
  /\ rebuilder.pc = "commit"
  /\ rows' = [k \in Keys |-> Written(rows[k], rebuilder.writes[k])]
  /\ rebuilder' = IdleRebuilder
  /\ RebuilderOnly /\ UNCHANGED rebuilds

-----------------------------------------------------------------------------
(* Rollbacks: nothing of the transaction remains, its locks are released.  *)

RollBack(s) ==
  /\ poster' = IF s \in Postings THEN [poster EXCEPT ![s] = IdlePoster] ELSE poster
  /\ refresher' = IF s \in Refreshers THEN [refresher EXCEPT ![s] = IdleRefresher]
                                      ELSE refresher
  /\ reconciler' = IF s = Reconciler THEN IdleReconciler ELSE reconciler
  /\ rebuilder' = IF s = Rebuilder THEN IdleRebuilder ELSE rebuilder
  /\ UNCHANGED <<rows, queue, event, rebuilds>>

Open(s) ==
  IF s \in Postings THEN poster[s].pc # "idle"
  ELSE IF s \in Refreshers THEN refresher[s].pc # "idle"
  ELSE IF s = Reconciler THEN reconciler.pc # "idle"
  ELSE rebuilder.pc # "idle"

\* uq_balance_refresh_key: another posting inserted the entry first.
UniqueViolation(p) ==
  /\ poster[p].pc = "write"
  /\ poster[p].seen = "none"
  /\ queue[poster[p].key] # "none"

\* StaleDataError: the row was deleted after it was read.
RowVanished(s) ==
  \/ s \in Refreshers /\ refresher[s].pc = "flush"
                      /\ ~Writable(refresher[s].key, refresher[s].i)
  \/ s = Rebuilder /\ rebuilder.pc = "flush"
                   /\ \E k \in Keys : RebuildRows[k] # None /\ ~Writable(k, RebuildRows[k].i)

Refused(s) ==
  /\ \/ Deadlocked(s)
     \/ s \in Postings /\ UniqueViolation(s) /\ Granted(s)
     \/ RowVanished(s) /\ Granted(s)
  /\ RollBack(s)
  /\ UNCHANGED failures

\* A process dies, a connection drops, a statement fails.
Fail(s) ==
  /\ failures < MaxFailures
  /\ Open(s)
  /\ RollBack(s)
  /\ failures' = failures + 1

-----------------------------------------------------------------------------
PosterStep(p) ==
  \/ MarkStale(p) \/ SelectEntry(p) \/ WriteEntry(p) \/ CommitPosting(p)

RefresherStep(r) ==
  \/ LockAndSum(r) \/ ReadRow(r) \/ FlushRow(r) \/ CommitRefresh(r)
  \/ r \in QueueWorkers /\ ClosePass(r)

Start(r) ==
  \/ r \in Relays /\ \E p \in Postings : StartDelivery(r, p)
  \/ r \in QueueWorkers /\ StartPass(r)

ReconcilerStep == Compare \/ IssueDelete \/ DeleteRows \/ Aggregate \/ CommitRepair
RebuilderStep == ReadRows \/ FlushRebuild \/ CommitRebuild

Next ==
  \/ \E p \in Postings : \/ \E k \in Keys : BeginPosting(p, k)
                         \/ PosterStep(p)
  \/ \E r \in Refreshers : Start(r) \/ RefresherStep(r)
  \/ StartReconcile \/ ReconcilerStep
  \/ StartRebuild \/ RebuilderStep
  \/ \E s \in Sessions : Refused(s) \/ Fail(s)

\* Beat starts the relay, the queue pass and the reconciler again and again;
\* an open transaction goes on, since lock queues are first come first served;
\* and PostgreSQL answers a deadlock.
Fairness ==
  /\ \A p \in Postings : SF_vars(PosterStep(p))
  /\ \A r \in Refreshers : SF_vars(RefresherStep(r) \/ Start(r))
  /\ SF_vars(StartReconcile \/ ReconcilerStep)
  /\ SF_vars(RebuilderStep)
  /\ WF_vars(\E s \in Sessions : Refused(s))

Spec == Init /\ [][Next]_vars

FairSpec == Spec /\ Fairness

=============================================================================
