-------------------------- MODULE PeriodProperties --------------------------
(***************************************************************************)
(* What fiscal periods promise, although nobody locks them.                *)
(***************************************************************************)
EXTENDS FiscalPeriod

Statuses == {"NONE", "FUTURE", "OPEN", "SOFT_CLOSED", "HARD_CLOSED", "REOPENED"}

KindsOfPeriod == {"regular", "adjustment", "closing", None}

Rows == [status : Statuses, kind : KindsOfPeriod, soft : BOOLEAN, hard : BOOLEAN, count : Nat, id : Nat]

JournalRows == [status : {"NONE", "UNPOSTED", "POSTED"},
                period : Periods \cup {None}, lines : Periods \cup {None}, adjusting : BOOLEAN]

Work == [pc : {"idle", "flush", "close", "assess", "post"},
         op : Transitions \cup {"create", "both", None}, p : Periods \cup {None}, kind : KindsOfPeriod,
         seen : Nat, j : Journals \cup {None}, adjusting : BOOLEAN, todo : SUBSET Periods, opened : SUBSET Periods,
         ready : SUBSET Periods, hard : BOOLEAN, writes : [Periods -> Rows \cup {None}]]

\* Every row, journal and request has its fields in range.
TypeOK ==
  /\ period \in [Periods -> Rows]
  /\ journal \in [Journals -> JournalRows]
  /\ session \in [Sessions -> Work]
  /\ issued \in Nat

\* The columns of a row agree, also when a transition overwrites another that
\* it never saw: nothing is closed for good without a soft close on record, a
\* closed period carries the stamp of its close, and a REOPENED one the session
\* id postings must bring and a count of reopenings (FiscalPeriodService).
Consistent(row) ==
  /\ row.status \in {"SOFT_CLOSED", "REOPENED"} => row.soft
  /\ row.status = "HARD_CLOSED" => row.hard
  /\ row.hard => row.soft
  /\ row.status = "REOPENED" => row.id # 0
  /\ row.id # 0 <=> row.count # 0

StampsTellTheHistory == \A p \in Periods : Consistent(period[p])

\* Ledger lines lie in a period of their date, and those of a request without
\* allow_adjustment never in an adjustment period, whichever periods of the date
\* are open at the time (_resolve_period_for_date, can_post_to_date).
LinesBelong == \A j \in Journals :
  journal[j].status = "POSTED" =>
    /\ journal[j].lines \in Periods
    /\ Date[j] \in Days[journal[j].lines]
    /\ period[journal[j].lines].kind = "adjustment" => journal[j].adjusting

\* Nobody that read p before its hard close is still at work on it.
Settled(p) ==
  /\ period[p].status = "HARD_CLOSED"
  /\ \A s \in Sessions : session[s].p # p /\ session[s].writes[p] = None

Lines(p) == {j \in Journals : journal[j].status = "POSTED" /\ journal[j].lines = p}

StaysSettled(p) ==
  Settled(p) => /\ Settled(p)'
                /\ period'[p] = period[p]
                /\ Lines(p)' = Lines(p)

\* "Hard close a fiscal period (permanent)": once the requests that read the
\* period before the close are over, no transition, gate or posting ever changes
\* the period or its lines again.
HardCloseSettles == [][\A p \in Periods : StaysSettled(p)]_vars

=============================================================================
