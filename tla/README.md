# Formal models of the dotmac ERP

TLA+ models of the parts of this repository in which correctness depends on
the order of concurrent steps: the event outbox, the general ledger's balance
projection, journals with their postings and reversals, fiscal periods and their
closing, API idempotency, posting sagas, and the payout of expense claims through
Paystack. The models are checked
with TLC on small instances; theorems about each of them are proved with TLAPS for
every value of their constants.

Paths below are relative to `src/app/`.

## 1. Inventory

The program is a multi-tenant ERP: FastAPI pages and APIs, Celery tasks
started by a beat schedule (`services/scheduler_config.py`), one PostgreSQL
database at READ COMMITTED. Its sessions are SQLAlchemy sessions with
`autoflush=False` (`db/__init__.py:127`). Two facts about them shape every
model here:

* an UPDATE carries only the columns whose new value differs from the loaded
  one;
* a row loaded once stays in the session's identity map, and a later locking
  `get` locks the row in the table without refreshing the loaded instance.
  `services/finance/payments/payment_service.py:2348` documents the latter.

| component | state | operations | interacts with | what is hard | what makes it correct |
|---|---|---|---|---|---|
| Outbox publisher and relay (`services/finance/platform/outbox_publisher.py`, `tasks/outbox_relay.py`) | `platform.event_outbox`: status, retry count, next retry, claim token, lease | publish, claim, deliver, settle (published, retry, dead, unsupported), requeue, replay, purge | every producer, in its transaction; handlers; the requeue page | takeover of expired claims, late and dead workers, loaded tokens, failed settlements | exclusive claims; published means applied; nothing stranded; all settled in the end |
| Balance projection (`services/finance/gl/balance_invalidation.py`, `balance_refresh.py`, `account_balance.py`, `services/finance/platform/outbox_reconciler.py`, `tasks/data_health.py`) | `gl.account_balance`, `gl.balance_refresh_queue` | invalidate, refresh a key, process the queue, reconcile, rebuild | posting (same transaction), relay (handler), beat | five writers of one table with different locks, deadlocks, deleted rows, null dimensions under a unique constraint | no regress, one row per key, published means projected, agreement in the end |
| Journals, posting, reversal (`services/finance/gl/journal.py`, `ledger_posting.py`, `reversal.py`, `posting_backlog.py`, `services/finance/posting/base.py`) | `gl.journal_entry`, `gl.posting_batch`, `gl.posted_ledger_line` | create, submit, approve, post, replay, reverse, void, delete, revert | source documents (AR, AP, payroll, sync), numbering, periods, outbox | statuses checked on unlocked rows, replays, retirement of a key after a reversal | one posting in force per key; a status says what the ledger says; one reversal |
| Fiscal periods (`fiscal_period.py`, `period_guard.py`, `period_close.py` in `services/finance/gl/`) | `gl.fiscal_period`, reopen sessions | create, open, soft and hard close, reopen, guard, close gate | every posting, operators | guard, gate and transitions check a row that nobody locks; periods of one date overlap | columns agree with the status; lines in a period of their date and kind; a hard close is permanent once older requests are over |
| Saga orchestrator and recovery (`services/finance/platform/saga_orchestrator.py`, `saga_recovery.py`) | saga and step rows | execute, resume, compensate, recover, retry compensation, manual verdict, retention | AR and AP posting sagas | a commit per step, crashes between effect and status, two resumers | rows tell the effects in force; repetition only by crashes; reverse order; a settled saga is left alone |
| Idempotency (`services/finance/platform/idempotency.py`, `api/idempotency.py`) | `platform.idempotency_record` | check, reserve, take over, record the response, release, expire | most API endpoints that write | lapsed reservations against a slow owner, lost insertions, transactions that wait for each other | a committed execution answers its key; one winner of a lapse; no reservation for ever |
| Expense payouts (`services/finance/payments/payment_service.py`, `webhook_service.py`, `api/finance/payments.py`, `tasks/expense.py`, `services/expense/service_claims.py`) | `payments.payment_intent`, `payments.payment_webhook`, the expense claim and its action row | open, initiate, poll, resolve, hear webhooks, expire, reset, pay by hand | Paystack, operators, beat | lost requests and answers, writers that act on what they read before a lock, events in any order | statuses true of the transfer; a claim paid once; PAID exactly while a payment stands |
| Numbering (`services/finance/platform/sequence.py`) | counter rows | next, reset, configure | every document | reset against next | unique, without gaps after rollback |
| Approval workflow, service hooks, automation | request, execution and delivery rows | request, approve, dispatch, retry | outbox | escalation, retry | one decision, bounded retries |
| AR, AP, banking, collections | documents, allocations, charges, matches | post, allocate, match, collect | ledger, gateways | concurrent allocation, charges reported twice | no over-allocation, one receipt per payment |
| Inventory, expense, assets, people, fleet, projects, procurement, support, synchronization, authentication, reports | rows of their own | mostly CRUD and calculation | posting adapters | little of it concurrent | arithmetic |

`PROJECT.json` lists the components with their sources, and the hazards of the
code at the lines where they bite.

## 2. Modules

| module | what it is |
|---|---|
| `OutboxDelivery` | the abstract promise: deliver at least once, effect and record in one step |
| `Outbox` | the publisher and the relay, one action per operation |
| `OutboxProperties` | type invariant, safety, action and liveness properties, the inductive invariant, the refinement mapping |
| `OutboxProofs` | the theorems and their proofs |
| `MCOutbox` | instances for TLC |
| `BalanceProjection`, `BalanceProperties`, `BalanceProofs`, `MCBalance` | the balance projection and its writers |
| `DocumentLedger` | the abstract promise of posting and reversal: an idempotency key is a switch |
| `JournalLedger`, `LedgerProperties`, `LedgerProofs`, `LedgerEffectProofs`, `MCLedger` | journals, postings and reversals |
| `FiscalPeriod`, `PeriodProperties`, `PeriodProofs`, `MCPeriod` | fiscal periods, the close gate and the posting guard |
| `Idempotency`, `IdempotencyProperties`, `IdempotencyProofs`, `MCIdempotency` | idempotency records and the two ways endpoints use them |
| `Saga`, `SagaProperties`, `SagaProofs`, `MCSaga` | the orchestrator, its recovery service, and the effects of steps |
| `Payout`, `PayoutProperties`, `PayoutProofs`, `MCPayout` | the payouts of one expense claim |

In each row of several modules the first is the system, the second what it promises, the
third the theorems with their proofs, the last the instances for TLC. Of the
ledger's two proof modules the second, on what journals count for, builds on the
first.

Definitions whose comment begins with *Variant* are deliberately wrong forms of
the definition that follows them (a dropped guard, an off-by-one, a missing
lock). No specification uses them: each exists so that a property can be seen
to fail when the code had that bug.

### Outbox

`row` is the table: status, retry count, `due` (whether `next_retry_at` has
passed), token, and the lease as none, live or expired. `worker` holds each
relay task: its token, what is left of its batch, and, while it delivers, the
event and the token its session loaded. `operator` holds the requests of the
requeue page with the row they loaded, `applied` counts the committed
transactions that applied an event.

`ClaimPendingEvents` is one short transaction. `Load` is the start of a
delivery; from there `SettlePublished` is handler, `mark_published` and commit
in one step and compares the *loaded* token, whereas `SettleRetry` and
`SettleDead` follow a rollback, which expires the session, and so compare the
token in the table. `SettleUndelivered` is the path without handler or
organization, whose fresh session also reads the table. `SettlementFails`,
`Crash` and `LeaseOverrun` are the faults. Requeueing writes what the ORM would
emit, given the row the request loaded.

Abstractions: time is `LeaseExpires` and `RetryDue`; a requeue request is taken
to be shorter than the shortest retry delay (60 seconds), which `RetryDue`
states; the order of a batch is any order; the token is fresh among those in
use; `mark_dead` without a token has no caller and is left out;
`retry_dead_event`, the audited replay, has no caller in the application and is
included.

### Balance projection

A session is a transaction under way. Its uncommitted writes and its locks live
in its record; they reach `rows`, `queue` and `event` when it commits. `Needs`
is what the next statement locks, `Holds` what the session has locked;
`Deadlocked` finds a cycle of waits, and `Refused` is PostgreSQL aborting one
of its members, a unique violation, or the ORM's StaleDataError on a row that was deleted
after it was read. A balance is the set of postings it sums, so that an old sum
is a smaller set. The five writers are the poster (`BeginPosting` to
`CommitPosting`), the refreshes of relay and queue worker (`LockAndSum`,
`ReadRow`, `FlushRow`, `CommitRefresh`), the reconciler (`StartReconcile` to
`CommitRepair`), and the nightly rebuild (`StartRebuild` to `CommitRebuild`).
Only the refreshes take the advisory account/period lock.

Abstractions: one organization, period and currency; dimensions null, which is
the case in which `uq_account_balance` does not hold duplicates off; opening
balances zero; the 26 hours the reconciler looks back never pass, since it runs
hourly; posting events are not dead-lettered.

### Journals and the ledger

A session loads a journal, remembers it as loaded, looks its key up and writes.
`batches` are the posting batches in order of insertion, each with the key it
holds (until `retired`) and the journal whose lines it carries; `Effect` counts
a journal's lines minus the reversals that mirror them. `BeginPost` covers the
posting of an approved journal and `create_approve_and_post_journal`, which
creates the journal in the same transaction. `FindBatch` and `CommitPost` are
apart because the lookup of the key precedes the insertion, which the unique
index guards. `LinkReversal` is where a reversal takes the numbering lock,
which orders reversals, and flushes the link, which locks the original's row.

Abstractions: a batch stands for its lines; the period guard and the balance
checks are a refusal (`RollBack`, or `RevertUnpostedJournal` for the adapters);
`FAILED` and `PROCESSING` batches are never committed and are left out, as are
`update_journal` and segregation of duties; reversals are those with
`auto_post`, as all callers ask for; a reversal that is refused ends its request,
also in the synchronization, which catches the refusal (`_invoices.py:864`) and then
raises itself (line 502), so that the document's savepoint is rolled back
(`RollBack`); void is that of its one caller, with its
check for evidence of a posting (`services/dotmac_sub/sync/_invoices.py:871-897`).
The docstring of `void_journal` speaks of draft and submitted journals; the code
also voids approved ones, and so does the model. The other writer of VOID is the
compensation of a posting saga's first step, which asks for nothing but a status
other than POSTED (`undo`; `ap_posting_saga.py:404`, `ar_posting_saga.py:393`).

A journal is posted under its callers' key or under the one that
`post_journal` makes up when it is given none (`journal.py:763`), as the posting
backlog does; `KeysOf` has both.

`Locked` and `ReversalKey` describe the callers of `create_reversal`, by the
journal they reverse: `bank_fee_wrong_account_correction.py` locks it (line
568), the payment and synchronization callers derive the key from it, and the
manual reversal, AP, payroll and revaluation callers do neither.

`DocumentLedger` is what all this promises of the journals whose reversers lock:
`counts` are the postings whose lines count, as pairs of a journal and a key,
`mirrored` the journals that were reversed. `Post` takes effect only where nothing
counts under its key, `Reverse` only on a posting that counts, of a journal not
reversed before. Its `counts` are the batches in force (`InForce`: no reversal has
taken them back), its `mirrored` the journals with a posted reversal; loads,
lookups, flushes, replays and statuses are stutters, and the step that counts is
the commit. A document with two keys is two switches.

### Fiscal periods

`period` are the rows, `journal` the journals with the period they were created
with (`period`) and that of their ledger lines (`lines`), `session` the requests
under way and the rows they have flushed. A transition is `Begin` (load and
check), `Flush` (an UPDATE of the row as it is by then, which waits for another
session's) and `Commit`. `BeginGate`, `Assess`, `CloseNext` and `SkipNext` are
one run of `scripts/close_fiscal_periods.py --execute`: it lists the periods,
counts the unposted journals of each, closes those it may and goes on past
refusals. `Guard` and `Post` are the two ends of a posting. Periods are numbered
in the order in which a date resolves to them.

What is read without a lock is acted on late, and the model has all of it: an
open or a reopening that loaded a period before its hard close undoes the close,
a posting guarded before it lands after it, two reopenings count as one, and
the gate closes over a journal drafted since it counted. `Settled` says when that is
over. The gate counts journals by the period they were created with, although
the guard may post them to another period of their date, and a hard run of it
always refuses a REOPENED period, which it does not soft-close first.

Abstractions: the bank reconciliation check may refuse at any time; the filters
of the gate by date and year only shorten its list, as skipping does; its trial
balance is zero, since journals balance; journal statuses below POSTED are one;
that nothing else happens to a journal while it is posted belongs to
`JournalLedger`. `_ensure_period_exists` is left out, since a journal that is posted
was created with a period of its date; so are `update_journal`, the transitions
of `PeriodGuardService`, which nothing calls, and one-off scripts that write
statuses themselves (`scripts/import_tb_audit.py:367` opens a HARD_CLOSED
period). `reopen_period` is called by scripts; those that reopen several periods
in one transaction are as many requests here.

### Idempotency

`record` is the row of each key: absent, reserved by the placeholder 202, or
answered; `lapsed` says that the reservation is older than its lease, `expired`
that retention is over. `request` holds who is between check and claim
(`absent`, `stale`) or runs the operation, and `effect` counts committed
executions since the record began. Keys in `Transactional` are those of the
endpoints that insert the record inside the operation's transaction: `holder` is
that transaction, for which a second insertion of the key waits. The other keys
are reserved with a commit of their own (`Reserve`), taken over by conditional
update (`TakeOver`) and answered together with what the handler flushed
(`Respond`; an error commits too, since `update_response` commits). `Abandon` is
the death of a request, or an exception that records nothing.

Abstractions: lease and retention are events; a record does not expire in the
moment between a request's check and its claim; only requests with the same
body are modelled, since others are refused and change nothing.

### Saga

One saga under one key. `saga` and `step` are its rows, `effect` counts how
often each step's effect is in force, `runner` holds the requests and recovery
calls with their place in the loops of `_execute_steps` and `_compensate_steps`;
an action is what lies between two commits. Steps are of three kinds: read-only,
committing for themselves before they return (`StepCommits`, a crash after which
repeats them), and left to the orchestrator's commit, in which effect and row
change together. Sessions expire on commit, so `current_step` is read fresh,
while `seen` is the status as loaded, which decides whether the ORM writes one.

Abstractions: nothing keeps two runners apart in the code; `overlapped` records
that two were at it at once, and the properties are stated up to then. Only
`SettledStaysSettled` goes on: a settled saga has nobody at it unless two
overlapped, and once nobody is at it, it is left alone whoever overlapped before. What a
failing step had flushed before it failed, and what it writes, is left out.

### Payouts

One approved claim. `intent` are its rows in order of creation, `transfer` what
Paystack has under each intent's reference (adrift: the request was sent and may
not have arrived), `heard` the webhook events on record, `session` what each
database session has read and locked. `CheckIntents`/`OpenIntent` are
`create_expense_payment_intent` before and after the claim's lock;
`Send`/`Answered`, `Refused` or `Unobserved` are `initiate_expense_transfer`
around its call; `Poll`/`PollSettle` are the fast poller and the slow reconciler;
a poll is told the state of a transfer Paystack has, or "refused", an error that
Paystack answers whatever that state (a 4xx, `status: false`), or nothing
("unreachable"); `NoVerdict` counts the attempt, and `GivenUp` is what the last one
makes of the row. `Refused` may also answer a request that was sent before;
`Hear`/`Handle` a webhook before and after the row's lock; `ResetLoad`/
`ResetWrite` the reset page. A session may end at every point (`RollBack`). A
webhook acts on the status it loaded, since the lock in
`process_successful_transfer` does not refresh the row; a poll acts on the row it
locked. `Overwrite` writes only a status that differs from the loaded one.

`mishaps` is a history, as is the column `misread`: which of seven named steps have been taken after which
money and claim may part. The code takes all of them (section 4); naming them
makes the rest checkable: without one of them, a claim is paid once and says so.
`GoesOn` says whether runs go on after the first; `Attended` whether operators
reset intents and pay by hand.

Abstractions: the 24 hours of an intent are an event; amounts, fees, the
approver's budget, transfer batches, the posting to the ledger, claims that are
withdrawn, and a status that the code does not know are left out; a batch's
session is one session per intent. Poll attempts without a verdict of the slow
reconciler are not counted, since nothing reads the count.

## 3. Runs

| run | instance | what it shows |
|---|---|---|
| `MCOutbox` | 2 events (one handled, one without consequence), 2 workers, 1 requeue session, 1 fault, 1 requeue | exclusive claims, no stranded event, published means applied, the refinement of `OutboxDelivery`; every waiting event is settled in the end |
| `MCOutboxStaleClaimantCannotSettle` | the same, 2 faults | a finding: a stale claimant does settle |
| `MCBalanceRefresh` | 2 keys, 3 postings, relay and queue worker, 1 failure | without the repairers, refreshes never regress, duplicate a row, or leave a published posting out |
| `MCBalanceRepair` | 1 key, 2 postings, all writers, 1 rebuild | with them, balances agree with the ledger in the end |
| `MCLedgerSafety` | 2 journals of one document, each with a default key besides the document's; reversers lock the one and rely on the key for the other; 2 reversals, 2 requests | one posting in force per key, journals are reversed once, settled statuses are true, retired keys are mirrored; the refinement of `DocumentLedger` |
| `MCLedgerReversedAtMostOnce` | 1 journal, 2 reversals, 2 requests, no lock, key by reversal | a finding: it is reversed twice |
| `MCPeriod` | a month and a period of its last day, created as its adjustment period or as a regular one; 1 journal, 2 sessions, 1 reopening | the columns of a period agree, lines lie where they belong, a hard close settles |
| `MCIdempotency` | 3 requests of a key with a placeholder, 2 of a transactional one, 1 fault, 1 expiry | a committed execution is never repeated, one winner per lapse, no reservation for ever |
| `MCIdempotencyNoneMeansOwned` | the same | a finding: two first requests both execute |
| `MCSaga` | 3 steps, one of each kind, 2 runners, 2 crashes | rows tell the effects in force, crashes alone repeat, compensation goes in reverse, a settled saga stays settled |
| `MCPayout` | 2 intents, 2 sessions, 2 polls, every verdict, operators; up to the first mishap | statuses are true of the transfer unless an answered error was misread, a claim is paid once and reads so, unknown stays unknown |
| `MCPayoutPaidAtMostOnce` | the same without operators, past mishaps | a finding: a claim is paid twice |

Why the bounds are enough. A takeover needs two workers; a batch that is half
done when it happens, two events. Four tokens leave one fresh in every state.
`MaxRetryCount` and `ClaimMaxRetry` are 2 where the code has 5 and 5: the ladder
has a first and a last rung. One fault is enough for each kind of fault to
occur, and the finding uses two; events without handler or organization are
covered by the theorems. For the projection, an older and a newer refresh need
two postings that share a key; opposite lock orders need two keys; the third
posting has lines on one of them only. For the ledger, a key must be posted,
reversed and posted again, which takes two journals of a document, while another
request sleeps on what it read; a default key beside it makes a journal count
twice. Six batches hold what this takes, two reversals included: a guard refuses more,
and 383,384 states are left. The theorems have no such bound on keys and requests. A contest for a lapsed reservation needs a late owner and two
that find it stale, an insertion that waits for a transaction two requests. A
saga needs a step of each kind, in the order of the AP saga, a runner that dies
and one that takes over; a second crash hits the resumption or the compensation.
A payout needs two sessions for one to act on what the other changed, and two
intents for a claim to be paid, or reopened, by the wrong one; a poll limit of 2
(10 in the code) has a first and a last attempt. For fiscal periods, a date has a
choice of two, and either of two sessions overtakes the other, as transition,
gate or posting. Symmetry is over sets whose
members no definition distinguishes, and only in runs without liveness
properties.

All systems may stop: events are purged or dead, postings are finitely many,
batches are bounded, requests are answered, claims are paid. So no run checks
for deadlock of the model; deadlocks of database transactions are modelled as
such.

Preconditions of `MCLedgerSafety` (section 6 says what happens outside them):
callers of the reversal lock the original or key by it, and key by it in both
cases; only originals are reversed, and reversals are not posted again. The
theorems of section 5 have the same ones by name.
`StatusTellsTheLedger` and `ImplementsDocuments` are about journals whose reversers lock;
`CountsOncePerKey` about those and about journals that nothing mirrors yet. Both
limits are needed (section 6); what is left without the lock is
`RetiredKeysAreMirrored` and `ReversedAtMostOnce`.

### Fairness

Outbox: beat starts a relay every 30 seconds and the claim takes the oldest
first, so an event that is claimable again and again is claimed at last (strong
fairness per event, since a takeover can be interrupted); a worker that has not
died finishes what it began, and clocks advance (weak fairness). Crashes, late
workers, failed settlements and requeues are finitely many; handlers may fail
every time, since the retry ladder ends.

Projection: beat starts the relay, the queue pass and the reconciler again and
again; waiting statements are served in order, and a session's steps are fair
(strong fairness per session); PostgreSQL resolves deadlocks (weak fairness of
`Refused`). Nothing makes a posting begin or the nightly rebuild start. With two
keys a deadlock can repeat for ever under this fairness, as it can in the
database, so the liveness run has one.

Idempotency: requests are served, a client sends its request again until it is
answered with an outcome, and a lease lapses in the end (weak fairness of
`Serve` and `LeaseLapses`). Deaths and expiries are finitely many, by the bounds.

Sagas have no liveness run: recovery is a call an operator or a retry makes, and
nothing obliges anyone to make it. Payouts have none because their instance is
too large for TLC's liveness check; that the slow reconciler has no attempt
limit, so that an INDETERMINATE intent is asked about for ever, is in the model.

## 4. Findings

1. **A stale claimant can settle** (`outbox_publisher.py:211`). `_deliver_one`
   loads the row before the handler; `_get_claimed_event` then locks it but
   compares the loaded token. A worker whose lease ran out during the handler, and whose
   event was claimed again, still publishes; then both apply the handler.
   `outbox_relay.py:16-20` says a stale claimant cannot settle. A handler has to be idempotent:
   the refinement of `OutboxDelivery`, with at-least-once delivery, still holds.
2. **A journal is reversed twice** (`reversal.py:99`): two requests without a
   key pass the check before the sequence lock orders them.
3. **Two first requests both execute** (`api/idempotency.py:88`): `reserve` hands
   the existing record to the loser of the insertion, its caller drops it and
   returns `None`, which the docstring says means ownership.
4. **A claim is paid twice** (`payment_service.py:975`): the checks for other
   intents come before the claim's lock and are not repeated under it.

Other steps of `Payout` after which money and claim part; each is a mishap that
`MCPayout` names and does not go past:

* *misread*: an error that Paystack answers is taken for a verdict on the transfer,
  although it need not be about it (a 401 after a key was rotated, a 429). The last
  attempt of the fast poller writes FAILED for it (`payment_service.py:2756`), also
  over a transfer that is pending or has succeeded; the claim can then be paid
  by a second intent. The docstring of `_from_http_status` (`paystack_client.py:56`)
  knows that a 401 teaches nothing and says that the give-up path defends against it:
  "there, anything that is not an affirmative provider verdict is treated as
  unobserved". It is not: `is_unobserved` (line 134) is false for every 4xx. The
  initiation of `services/sync/sub/expenses.py:1284` likewise records FAILED when a
  repeated request is refused as a duplicate and its verification is answered
  with an error (`_recover_transfer_initiation`). No run is spent on this: the
  mishap names it, and `VerdictsAreTrue` makes it the only exception.

* *expired in flight*: creating an intent expires a due PROCESSING one
  (`payment_service.py:984-989`) and opens another beside the transfer under way;
  line 2389 says of the same write in the poller that it "would hide an in-flight
  payout". A later success webhook of the expired intent is refused, and being
  on record is not heard again.
* *forced*: a reset with `force`, or one that loaded the row before it was
  settled, abandons an intent whose money is out, or an INDETERMINATE one,
  although `resolve_indeterminate_transfer` calls itself (line 2532) "the only
  writer permitted to move an intent OUT of INDETERMINATE".
* *reverted*: a late failure or reversal of one intent reopens a claim that
  another intent, or a payment by hand, has paid (`mark_transfer_failed`).
* *not reverted*: a reversal that read the claim before a poll marked it paid
  leaves it PAID.
* *unmarked*: after a reversal the claim's MARK_PAID action is COMPLETED, so
  `mark_paid` for a second payout does nothing and the claim stays APPROVED.

Also seen: an invalidation can be lost (`balance_refresh.py:59`: a posting that
commits between a pass's sum and its final flush is marked processed unseen); the
posting's own event repairs the balance, as `EventuallyCurrent` and
`PublishedIsProjected` show. A hard run of the close gate never closes a REOPENED period
(`period_close.py:238`: it soft-closes only what it listed as OPEN, and
`hard_close_period` refuses the rest), although the period is listed as closeable;
`tests/services/test_period_close.py:192` takes REOPENED for already soft-closed,
over a mocked service. An answer "pending" counts against the fast poller's attempts, after
ten of which it asks no more and only a webhook can settle the intent. After a posting
saga was compensated, the journal that its posting step reversed is VOID, so
`_batch_posting_reversed` is false of its batch (`ledger_posting.py:476`): the key
goes on answering "already posted", although nothing counts under it, where the
comment of step 2 (line 199) has it that after a reversal "The idempotency key is
actionable again".

## 5. Proofs

`OutboxProofs` proves, for every set of events, workers, operators and tokens
and all bounds satisfying `OutboxConstants` (`MaxRetryCount` at least 2 and at
most `ClaimMaxRetry`; `None` not a token or an event):

| theorem | statement |
|---|---|
| `InductiveInvariant` | `Spec => []IInv` |
| `TypeCorrect`, `ExclusiveClaims`, `NoEventIsStranded`, `PublishedIsApplied` | the invariants of `MCOutbox` |
| `ClaimsOnlyOnQueuedRows` | `Spec => []ClaimsAreOnQueuedRows`, a part of `IInv` |
| `LiveLeasesHold`, `FailuresAreTheClaimants` | its action properties |
| `OutboxImplementsDelivery` | `Spec => Delivery!Spec` |

The invariants are not inductive as they stand. Exclusive claims rest on tokens
that no two tasks share (`TokensAreUnique`) and on tasks that hold a token
exactly while they have a batch (`WorkersHoldBatches`). That nothing is stranded
rests on what a requeue request may have loaded: it writes back only columns
that differ from the loaded row, so a request that loaded a retry count of zero
does not reset it, and `RequeueSeesRetries` says the count is then at most one
and the row not due before the request ends. `ClaimsAreOnQueuedRows` is part of
the invariant too, since a purge or a settlement releases token and lease
together. `IInv` is their conjunction; each action preserves it in a lemma, by
one step per conjunct it can disturb. The action properties and the refinement
follow step by step from `IInv`.

`BalanceProofs`, for any keys, postings, lines of postings, relays, queue workers
and failures:

| theorem | statement |
|---|---|
| `TypeCorrect` | types, with all five writers |
| `LockDiscipline` | `Spec => []SafeInv`, provided the repairers do not run (`NoRepairers`) |
| `OneRowEach`, `PublishedCounts` | the invariants of `MCBalanceRefresh`, under the same proviso |
| `NothingRegresses` | its action property, likewise |

The proviso is that of the run, and needed: reconciler and rebuild do not take
the account/period lock. `SafeInv` says that a key has one holder of that lock at a time
(`OneHolder`); that what a holder has read of the key is so until it commits (`KeySafe`):
its sum has all that the projection has and nothing the ledger has not, the row it
found is the only one, and a column it leaves out of its UPDATE has the value it
would write; and that a delivery has each key of its posting before it or summed
with the posting in it (`DeliverySafe`). The commit of a refresh then leaves each
key it wrote with one row and a sum that contains the one before.

`LedgerProofs`, for any journals, keys, requests and bounds:

| theorem | statement |
|---|---|
| `TypeCorrect` | types, with what a request under way has in hand |
| `RetirementIsSafe` | a key is retired only from a batch whose journal has a posted reversal, provided a reversal's key tells the journal it reverses (`KeysIdentify`) |
| `ReversalHappensOnce` | a journal is reversed once, provided all its reversals share a key under which nothing is posted (`KeysAgree`), whether or not callers lock |

The provisos are about the callers' keys, and are stated in the theorems. The
first rests on `MirrorInv`: a superseded batch is that of a journal REVERSED,
whose reversal was posted under a key of its own. The second rests on `OnceInv`:
the batches under the shared key that are not retired are at most one, and a
reversal's batch is never retired, since nothing marks a reversal REVERSED under
its own key.

`LedgerEffectProofs`, for the same constants:

| theorem | statement |
|---|---|
| `StatusIsTheLedgers` | `Spec => []StatusTellsTheLedger` |
| `OnePostingPerKey` | `Spec => []CountsOncePerKey` |
| `LedgerImplementsDocuments` | `Spec => Documents!Spec` (`ImplementsDocuments`) |

All assume that a reversal's key tells its journal (`KeysIdentify`), and that only
originals are reversed and reversals are not posted again (`ReversalsRest`). How many
keys a journal has is left open. `EffectInv` adds to `OnceInv` who may write a
journal and what its batches are. A request that creates a journal in order to
post it has it to itself (`NewAreAlone`), and a reverser that locked a journal finds
it at its commit as it checked it, POSTED and linked to nothing (`ReversersHold`). So
a locked journal is `Settled`: it knows its last batch, nothing mirrors it before
it is linked, then the linked reversal does and no other. That reversal took back the
last posting before its own (`Undone`, which no later step changes): while the
journal is REVERSED its last batch is undone, and when it is POSTED again that is
a new one. And only an undone posting gives up its key (`GivenUpAreUndone`), to
whoever has found it superseded as well as in the table, which is what keeps a
second posting out: two in force would both hold the key. `Effect` is a recursive
function, one level deep here: no reversal is reversed (`MirrorsAreOfOriginals`), so
`EffectIsNet` shows that it counts batches less mirrors, by exhibiting that count
as a solution of its equation; a mirror undoes one batch (`OneUndone`), so that is the
number of postings in force.
The refinement takes what counts journal by journal (`CountsByJournal`). A
committing posting adds a batch that nothing has undone, and nothing counted under
its key before, since what does holds the key (`PostRefines`); a committing
reversal undoes the one batch its lock kept in force (`ReverseRefines`).

`IdempotencyProofs`: `TypeCorrect`, `CommittedIsAnswered`, `TransactionalOnce`
and `OneWinner`, from an inductive invariant that adds who holds the transaction
of a key (`TransactionalInv`) and that a reservation is not stale while its
winner's lease runs (`WinnersInv`).

`SagaProofs`: the seven properties of `MCSaga`, for any number of steps of any
kinds, runners and crashes. Types and positions hold always; as long as no two
runners have overlapped, `Course` relates rows to `current_step` and to the one
runner's place (steps before it are COMPLETED, the ones after it are not; while
compensation runs, steps behind the loop are not COMPLETED), and `Effects`
relates effects to rows and crashes. Both are inductive together, since a step's
effect is committed with its row or inside the one runner's place. `OutcomesAreFinal`
needs only that a runner keeps the saga unsettled (a part of `Course`), and that
what takes up a saga asks for one that is not COMPLETED or COMPENSATED. It does
not say that a late runner leaves an outcome alone: two overlapping runners, or one
and the manual verdict, overwrite each other (section 6).

`PeriodProofs`, for any periods, kinds, dates, journals and sessions:
`TypeCorrect`, `StampsAgree` (`StampsTellTheHistory`), `LinesAreInPlace`
(`LinesBelong`) and `HardCloseIsPermanent` (`HardCloseSettles`). Transitions
overwrite rows they did not read, so the invariant cannot say that a request's
row is as it was loaded. It says what survives being overtaken (`Sound`): a row
takes the place of another only as its `Successor`, whose soft close stays on
record and whose kind is kept; a hard close or reopening under way was let pass
by a soft close that is still on record; a posting under way has a period of its
date and kind. `Apart` says that no two sessions hold one row or post one
journal. With it, `HardCloseIsPermanent` is one step per action: none begins
with a HARD_CLOSED period.

`PayoutProofs`, for any sessions, intents and polls:

| theorem | statement |
|---|---|
| `TypeCorrect` | types, mishaps or not |
| `NoMadeUpVerdict` | `Spec => []VerdictsAreTrue`, likewise |
| `UnknownStaysUnknown` | `Spec => UnknownIsKept`, likewise |
| `ClaimIsPaidOnce` | `Spec => []PaidOnce` |
| `ClaimTellsThePayment` | `Spec => []ClaimTells` |

The invariant of the first three adds `Orderly`: intents are
numbered as opened, a transfer belongs to an open intent, two sessions never
hold one row, and each session may rely on what it read (`Relies`): a verdict it
heard stays true of the transfer, and a poll holds an intent that is INDETERMINATE,
or PROCESSING with attempts left. `NoMadeUpVerdict` holds past every mishap: the row
itself keeps the one exception, a FAILED that was `misread`.

The last two say what the seven mishaps are for: as long as none has happened, no
interleaving of any number of sessions pays a claim twice or leaves it saying
otherwise. `PaidOnce` speaks of money that is out, which no session reads; the
invariant (`Sound`) relates it to what they do read. Until the first mishap, at
most one intent is in flight (`OneInFlight`), at most one has its money out
(`OneOut`), an intent that is FAILED, EXPIRED or ABANDONED has not (`GivenUpIsNotOut`), a payment by
hand is alone (`HandIsAlone`), and the claim says what stands (`ClaimIsTold`). A
session about to open an intent has seen every other one in flight, unless one was
opened since it looked, and then its next step is the mishap (`OpenersKnow`). A
lemma per action shows that it keeps all of it or is a mishap (`Safe`).

Only model-checked is liveness (`EventuallySettled`, `EventuallyCurrent`,
`ReservationsEnd`), which with ENABLED is beyond the prover. Every safety
property of the passing runs is a theorem.

## 6. Not modelled, and hazards without a run

Numbering, approvals, service hooks and automation, allocation
and banking, collections, and the components of the inventory's last row, most
of which are CRUD and calculation over single rows with no protocol of their
own; the plan is in section 7. Of the modelled parts, these behaviours are in the
code and outside the runs:

* A step that checked a status on an unlocked row overwrites POSTED
  (`journal.py:839`, and approve, submit and `_revert_unposted_journal`): the
  model has these steps, `CountsOncePerKey` is proved across them, and
  `StatusTellsTheLedger` says nothing of a status they leave.
* `create_approve_and_post_journal` on a key that is answered leaves its journal
  APPROVED; `posting_backlog.py` later posts it under its default key, and the
  document counts twice. This is in the model, and no property forbids it: what the code
  promises, and `CountsOncePerKey` says, is one posting for a key.
* When reversers rely on the key alone, a reversal that finds its key answered marks
  a journal REVERSED that it did not reverse, and `CountsOncePerKey` would fail for it.
  With one journal that takes four requests. Two load it POSTED to reverse it, two more had loaded it APPROVED to post it. The
  first reverses it and the third posts it again under the key that gave up; then
  the second marks it REVERSED by replay, so that the new batch looks superseded
  and the fourth posts once more: three batches, one mirror. The theorems on
  what counts are therefore about reversers that lock.
* Two runners of one saga execute or compensate a step twice, and each writes its
  outcome over the other's; nothing locks it. `mark_failed` (`saga_recovery.py:183`) asks
  for no status and for nobody's absence: it turns COMPLETED into FAILED, and a live
  runner turns that into its own outcome again.
* `requeue_dead_event` checks the status the page loaded, so that a published
  event can be requeued (`outbox_publisher.py:461`); what the row may then look
  like is checked.
* A reversal that is itself reversed makes the document's key actionable while
  the document counts again.
* A period that an open or reopening request loaded before its hard close becomes
  OPEN or REOPENED again, against "permanent" (`fiscal_period.py:357`); a posting
  guarded before a close lands after it. `HardCloseSettles` is about what comes then.
* With the repairers running, the properties of `MCBalanceRefresh` fail for a
  while (a stale rebuild, a duplicate row); `EventuallyCurrent` says the reconciler
  repairs them. `outbox_reconciler.py` speaks of one canonical writer, which
  the nightly rebuild of `data_health.py` is not.
* An event that kills its worker is redelivered without end, since only a
  settled failure counts as a retry.
* `refresh_stale_balances` visits organizations in order without catching an
  error per organization and with one shared budget.

## 7. Plan

Written, in this order: `OutboxDelivery`, `Outbox`, `OutboxProofs`;
`BalanceProjection`; `JournalLedger`; `Idempotency`, `Saga`, `LedgerProofs`,
`Payout`, `BalanceProofs`, `FiscalPeriod`, each with its proofs, `DocumentLedger`. Next:

1. `JournalLedger`'s posting composed with `FiscalPeriod`'s guard, whose refusal it
   leaves open today, and `_ensure_period_exists`.
2. The inbound half of `payment_service.py`: charges, webhooks and verification
   against an invoice's payments and allocations.
3. `Sequence` and `Allocation` (AR) as small modules of their own.
4. Liveness of payouts on an instance with one intent: an intent whose transfer
   Paystack concludes is settled, given the slow reconciler.

Modules meant for proof have no RECURSIVE operator, named assumptions on their
constants, one action per operation, and invariants that are conjunctions of
named parts.
