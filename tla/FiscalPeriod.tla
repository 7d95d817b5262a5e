---------------------------- MODULE FiscalPeriod ----------------------------
(***************************************************************************)
(* Fiscal periods: FiscalPeriodService, which moves them between their     *)
(* statuses, the close gate (period_close.py), and the guard every posting *)
(* passes (PeriodGuardService).                                            *)
(*                                                                         *)
(* Nobody locks a period before checking it.  A request reads the row,     *)
(* decides by its status, flushes an UPDATE that has no condition on what  *)
(* was read, and commits.  A posting only reads it.                        *)
(***************************************************************************)
EXTENDS Naturals, FiniteSets

CONSTANTS
  Periods,      \* numbered in the order in which a date resolves to them:
                \* the later start first, then the earlier end
  Days,         \* Days[p]: the dates of p
  Kinds,        \* Kinds[p]: what p may be created as
  Journals,
  Date,         \* Date[j]: the posting date of j
  Sessions,     \* requests, and runs of the gate
  None,
  MaxReopens    \* bound: reopen sessions

ASSUME PeriodConstants ==
  /\ Periods \subseteq Nat
  /\ DOMAIN Days = Periods
  /\ Kinds \in [Periods -> SUBSET {"regular", "adjustment", "closing"}]
  /\ DOMAIN Date = Journals
  /\ None \notin Periods \cup Journals
  /\ MaxReopens \in Nat

VARIABLES
  period,     \* gl.fiscal_period
  journal,    \* gl.journal_entry, and the period of its posted ledger lines
  session,    \* the requests under way
  issued      \* the reopen session ids handed out: 1..issued

vars == <<period, journal, session, issued>>

-----------------------------------------------------------------------------
Postable == {"OPEN", "REOPENED"}

\* kind: is_adjustment_period or is_closing_period; soft, hard: soft_closed_at and
\* hard_closed_at are set; id: last_reopen_session_id, zero for NULL.
Absent == [status |-> "NONE", kind |-> None, soft |-> FALSE, hard |-> FALSE, count |-> 0, id |-> 0]

\* lines: the period of the ledger lines; adjusting: they were posted with
\* allow_adjustment.
Unwritten == [status |-> "NONE", period |-> None, lines |-> None, adjusting |-> FALSE]

\* p, seen: the period under work and its reopen_count as loaded.  todo: the
\* periods the gate has still to assess, or to close; opened: those a hard close
\* found OPEN; ready: those it will close.  writes: flushed rows, locked until
\* the end.
Idle == [pc |-> "idle", op |-> None, p |-> None, kind |-> None, seen |-> 0,
         j |-> None, adjusting |-> FALSE,
         todo |-> {}, opened |-> {}, ready |-> {}, hard |-> FALSE,
         writes |-> [p \in Periods |-> None]]

Init ==
  /\ period = [p \in Periods |-> Absent]
  /\ journal = [j \in Journals |-> Unwritten]
  /\ session = [s \in Sessions |-> Idle]
  /\ issued = 0

Exists(p) == period[p].status # "NONE"

\* Another session has flushed p: an UPDATE or INSERT of it waits.
RowFree(s, p) == \A t \in Sessions \ {s} : session[t].writes[p] = None

Goes(s, work) == session' = [session EXCEPT ![s] = work]

Begins(s, work) == session[s].pc = "idle" /\ Goes(s, work)

-----------------------------------------------------------------------------
(* A change of one period: load, check, flush, commit. *)

Overlap(p, q) == Days[p] \cap Days[q] # {}

\* create_period, for a period that is not there yet; regular ones do not overlap.
Creatable(p, kind) ==
  /\ ~Exists(p)
  /\ kind \in Kinds[p]
  /\ kind = "regular" =>
       ~ \E q \in Periods : period[q].kind = "regular" /\ Overlap(p, q)

\* Variant: hard_close_period closes an OPEN period, as the unused method of
\* PeriodGuardService would.
AcceptsHardFromOpen(op, p) ==
  CASE op = "open" -> period[p].status \in {"FUTURE", "SOFT_CLOSED"}
    [] op \in {"soft", "both"} -> period[p].status \in {"OPEN", "REOPENED"}
    [] op = "hard" -> period[p].status \in {"OPEN", "SOFT_CLOSED"}
    [] op = "reopen" -> period[p].status = "SOFT_CLOSED"

\* Variant: reopen_period takes any closed period.
AcceptsAnyClosed(op, p) ==
  CASE op = "open" -> period[p].status \in {"FUTURE", "SOFT_CLOSED"}
    [] op \in {"soft", "both"} -> period[p].status \in {"OPEN", "REOPENED"}
    [] op = "hard" -> period[p].status = "SOFT_CLOSED"
    [] op = "reopen" -> period[p].status \in {"SOFT_CLOSED", "HARD_CLOSED"}

\* What each transition wants to see.
Accepts(op, p) ==
  CASE op = "open" -> period[p].status \in {"FUTURE", "SOFT_CLOSED"}
    [] op \in {"soft", "both"} -> period[p].status \in {"OPEN", "REOPENED"}
    [] op \in {"hard", "reopen"} -> period[p].status = "SOFT_CLOSED"

Transitions == {"open", "soft", "hard", "reopen"}

\* Variant: a reopening writes a status the enumeration does not have.
ChangedToUnknown(work, row) ==
  CASE work.op = "create" -> [row EXCEPT !.status = "FUTURE", !.kind = work.kind]
    [] work.op = "open" -> [row EXCEPT !.status = "OPEN"]
    [] work.op = "soft" -> [row EXCEPT !.status = "SOFT_CLOSED", !.soft = TRUE]
    [] work.op = "hard" -> [row EXCEPT !.status = "HARD_CLOSED", !.hard = TRUE]
    [] work.op = "both" -> [row EXCEPT !.status = "HARD_CLOSED", !.soft = TRUE, !.hard = TRUE]
    [] work.op = "reopen" -> [row EXCEPT !.status = "REOPEN", !.count = work.seen + 1]

\* The columns each change sets; "both" is a soft and then a hard close.
Changed(work, row) ==
  CASE work.op = "create" -> [row EXCEPT !.status = "FUTURE", !.kind = work.kind]
    [] work.op = "open" -> [row EXCEPT !.status = "OPEN"]
    [] work.op = "soft" -> [row EXCEPT !.status = "SOFT_CLOSED", !.soft = TRUE]
    [] work.op = "hard" -> [row EXCEPT !.status = "HARD_CLOSED", !.hard = TRUE]
    [] work.op = "both" -> [row EXCEPT !.status = "HARD_CLOSED", !.soft = TRUE, !.hard = TRUE]
    [] work.op = "reopen" -> [row EXCEPT !.status = "REOPENED", !.count = work.seen + 1,
                                         !.id = issued + 1]

BeginCreate(s, p, kind) ==
  /\ Creatable(p, kind)
  /\ Begins(s, [Idle EXCEPT !.pc = "flush", !.op = "create", !.p = p, !.kind = kind])
  /\ UNCHANGED <<period, journal, issued>>

\* A soft close may also find a bank account that is not reconciled, and end.
Begin(s, op, p) ==
  /\ Accepts(op, p)
  /\ Begins(s, [Idle EXCEPT !.pc = "flush", !.op = op, !.p = p, !.seen = period[p].count])
  /\ UNCHANGED <<period, journal, issued>>

\* The UPDATE applies to the row as it is by now; an INSERT beside a committed
\* one violates uq_fiscal_period.
Flush(s) ==
  LET op == session[s].op
      p == session[s].p
  IN
  /\ session[s].pc = "flush"
  /\ RowFree(s, p)
  /\ op = "create" => ~Exists(p)
  /\ op = "reopen" => issued < MaxReopens
  /\ issued' = IF op = "reopen" THEN issued + 1 ELSE issued
  /\ Goes(s, [session[s] EXCEPT
                !.pc = "close", !.op = None, !.p = None, !.kind = None, !.seen = 0,
                !.writes = [@ EXCEPT ![p] = Changed(session[s], period[p])]])
  /\ UNCHANGED <<period, journal>>

Commit(s) ==
  LET writes == session[s].writes IN
  /\ session[s].pc = "close"
  /\ session[s].todo = {}
  /\ period' = [p \in Periods |-> IF writes[p] = None THEN period[p] ELSE writes[p]]
  /\ Goes(s, Idle)
  /\ UNCHANGED <<journal, issued>>

-----------------------------------------------------------------------------
(* The gate: list the periods, assess each, close those it may. *)

Unposted(p) == {j \in Journals : journal[j].status = "UNPOSTED" /\ journal[j].period = p}

\* The earliest start first.
Earliest(T, p) == p \in T /\ \A q \in T : q <= p

BeginGate(s, hard) ==
  LET listed == {p \in Periods : period[p].status \in Postable} IN
  /\ listed # {}
  /\ Begins(s, [Idle EXCEPT !.pc = "assess", !.hard = hard, !.todo = listed,
                            !.opened = {p \in listed : hard /\ period[p].status = "OPEN"}])
  /\ UNCHANGED <<period, journal, issued>>

\* Journals balance, so that the blockers are the unposted ones; force closes
\* over them.
Assess(s, p, force) ==
  LET rest == session[s].todo \ {p}
      ready == IF force \/ Unposted(p) = {} THEN session[s].ready \cup {p} ELSE session[s].ready
  IN
  /\ session[s].pc = "assess"
  /\ Earliest(session[s].todo, p)
  /\ Goes(s, [session[s] EXCEPT
                !.pc = IF rest = {} THEN "close" ELSE "assess",
                !.todo = IF rest = {} THEN ready ELSE rest,
                !.ready = IF rest = {} THEN {} ELSE ready])
  /\ UNCHANGED <<period, journal, issued>>

\* How the gate closes p: a hard close of a period it listed as OPEN takes both
\* transitions.
Closer(s, p) ==
  IF ~session[s].hard THEN "soft" ELSE IF p \in session[s].opened THEN "both" ELSE "hard"

\* The period is loaded again.
CloseNext(s, p) ==
  /\ session[s].pc = "close"
  /\ Earliest(session[s].todo, p)
  /\ Accepts(Closer(s, p), p)
  /\ Goes(s, [session[s] EXCEPT !.pc = "flush", !.op = Closer(s, p), !.p = p,
                                !.todo = @ \ {p}])
  /\ UNCHANGED <<period, journal, issued>>

\* A period that cannot be closed is reported, and the gate goes on: its status
\* changed since it was listed, or a bank account is not reconciled.
SkipNext(s, p) ==
  /\ session[s].pc = "close"
  /\ Earliest(session[s].todo, p)
  /\ Closer(s, p) = "hard" => ~Accepts("hard", p)
  /\ Goes(s, [session[s] EXCEPT !.todo = @ \ {p}])
  /\ UNCHANGED <<period, journal, issued>>

-----------------------------------------------------------------------------
(* Journals and their posting. *)

\* The periods of the date of j.
Dated(j) == {p \in Periods : Exists(p) /\ Date[j] \in Days[p]}

First(T, p) == p \in T /\ \A q \in T : p <= q

\* create_journal takes the first period of the date, whatever its status.
CreateJournal(j) ==
  /\ journal[j].status = "NONE"
  /\ \E p \in Periods :
       /\ First(Dated(j), p)
       /\ journal' = [journal EXCEPT ![j] = [Unwritten EXCEPT
              !.status = "UNPOSTED", !.period = p]]
  /\ UNCHANGED <<period, session, issued>>

InPosting(j) == \E s \in Sessions : session[s].j = j

\* An unposted journal is deleted, or voided.
DropJournal(j) ==
  /\ journal[j].status = "UNPOSTED"
  /\ ~InPosting(j)
  /\ journal' = [journal EXCEPT ![j] = Unwritten]
  /\ UNCHANGED <<period, session, issued>>

\* The periods of the date that take j, by their status.
Preferred(j, adjusting) == {p \in Dated(j) :
  period[p].status \in Postable /\ (period[p].kind = "adjustment" => adjusting)}

\* _resolve_period_for_date, with prefer_postable.
Resolved(j, p, adjusting) ==
  IF Preferred(j, adjusting) # {} THEN First(Preferred(j, adjusting), p) ELSE First(Dated(j), p)

\* Variant: the guard trusts _resolve_period_for_date to have left adjustment
\* periods out.
AllowedAnyKind(p, adjusting, id) ==
  /\ period[p].status \in Postable
  /\ period[p].status = "REOPENED" => id # 0 /\ id = period[p].id

\* require_open_period, for a request that brings the reopen session id, or zero.
Allowed(p, adjusting, id) ==
  /\ period[p].kind = "adjustment" => adjusting
  /\ period[p].status \in Postable
  /\ period[p].status = "REOPENED" => id # 0 /\ id = period[p].id

Guard(s, j, p, adjusting) ==
  /\ journal[j].status = "UNPOSTED"
  /\ ~InPosting(j)
  /\ Resolved(j, p, adjusting)
  /\ \E id \in 0..issued : Allowed(p, adjusting, id)
  /\ Begins(s, [Idle EXCEPT !.pc = "post", !.p = p, !.j = j, !.adjusting = adjusting])
  /\ UNCHANGED <<period, journal, issued>>

\* The ledger lines go to the period the guard returned; the journal keeps the
\* period it was created with.
Post(s) ==
  LET j == session[s].j IN
  /\ session[s].pc = "post"
  /\ journal' = [journal EXCEPT ![j].status = "POSTED", ![j].lines = session[s].p,
                                      ![j].adjusting = session[s].adjusting]
  /\ Goes(s, Idle)
  /\ UNCHANGED <<period, issued>>

-----------------------------------------------------------------------------
\* A request fails, or its process dies: its transaction is rolled back.
Fail(s) ==
  /\ session[s].pc # "idle"
  /\ Goes(s, Idle)
  /\ UNCHANGED <<period, journal, issued>>

Next ==
  \/ \E s \in Sessions :
       \/ \E p \in Periods : \/ \E kind \in Kinds[p] : BeginCreate(s, p, kind)
                             \/ \E op \in Transitions : Begin(s, op, p)
       \/ Flush(s) \/ Commit(s) \/ Post(s) \/ Fail(s)
       \/ \E hard \in BOOLEAN : BeginGate(s, hard)
       \/ \E p \in Periods : \/ \E force \in BOOLEAN : Assess(s, p, force)
                             \/ CloseNext(s, p) \/ SkipNext(s, p)
       \/ \E j \in Journals, p \in Periods, adjusting \in BOOLEAN : Guard(s, j, p, adjusting)
  \/ \E j \in Journals : CreateJournal(j) \/ DropJournal(j)

Spec == Init /\ [][Next]_vars

=============================================================================
