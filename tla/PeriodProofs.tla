---------------------------- MODULE PeriodProofs ----------------------------
(***************************************************************************)
(* Proofs about fiscal periods, for any periods, kinds, dates, journals    *)
(* and requests, and any number of reopenings.                             *)
(***************************************************************************)
EXTENDS PeriodProperties, TLAPS

\* row may take the place of old: the soft close stays on record, and the kind
\* of a period that exists never changes.
Successor(row, old) ==
  /\ row.status # "NONE"
  /\ Consistent(row)
  /\ old.soft => row.soft
  /\ old.status # "NONE" => row.kind = old.kind

\* A hard close or a reopening is under way only where a soft close is on record.
SoundChange(w) == w.pc = "flush" =>
  /\ w.p \in Periods
  /\ w.op \in Transitions \cup {"create", "both"}
  /\ w.op \in {"hard", "reopen"} => period[w.p].soft

\* The guard let w pass: what it saw of the kind and the dates is still so.
SoundPosting(w) ==
  /\ w.pc = "post" =>
       /\ w.j \in Journals
       /\ w.p \in Periods
       /\ Exists(w.p)
       /\ Date[w.j] \in Days[w.p]
       /\ period[w.p].kind = "adjustment" => w.adjusting
       /\ journal[w.j].status = "UNPOSTED"
  /\ w.j # None => w.pc = "post"

SoundWrites(w) == \A p \in Periods : w.writes[p] # None => Successor(w.writes[p], period[p])

Sound(w) == SoundChange(w) /\ SoundPosting(w) /\ SoundWrites(w)

\* No two sessions hold one row, or post one journal.
Apart(s, w) == \A t \in Sessions \ {s} :
  /\ w.j # None => session[t].j # w.j
  /\ \A p \in Periods : w.writes[p] = None \/ session[t].writes[p] = None

LinesExist == \A j \in Journals : journal[j].status = "POSTED" => Exists(journal[j].lines)

SessionsAreSound == \A s \in Sessions : Sound(session[s]) /\ Apart(s, session[s])

Inv == TypeOK /\ StampsTellTheHistory /\ LinesBelong /\ LinesExist /\ SessionsAreSound

-----------------------------------------------------------------------------
(* Steps that change nothing but their own session.                        *)

\* What becomes of the sessions.
LEMMA Going ==
  ASSUME TypeOK, NEW s \in Sessions, NEW w \in Work, Goes(s, w)
  PROVE  /\ session' \in [Sessions -> Work]
         /\ session'[s] = w
         /\ \A t \in Sessions \ {s} : session'[t] = session[t]
BY DEF TypeOK, Goes

\* A session that turns to sound work, apart from the others, keeps Inv.
LEMMA QuietStep ==
  ASSUME Inv, NEW s \in Sessions, NEW w \in Work, Sound(w), Apart(s, w), Goes(s, w),
         period' = period, journal' = journal, issued' \in Nat
  PROVE  Inv'
<1>1. /\ session' \in [Sessions -> Work]
      /\ session'[s] = w
      /\ \A t \in Sessions \ {s} : session'[t] = session[t]
  BY Going DEF Inv
<1>2. (TypeOK /\ StampsTellTheHistory /\ LinesBelong /\ LinesExist)'
  BY <1>1 DEF Inv, TypeOK, StampsTellTheHistory, LinesBelong, LinesExist, Exists
<1>3. ASSUME NEW t \in Sessions
      PROVE  Sound(session[t])'
  <2>1. Sound(session'[t])
    BY <1>1 DEF Inv, SessionsAreSound
  <2> QED BY <2>1 DEF Sound, SoundChange, SoundPosting, SoundWrites, Exists
<1>4. ASSUME NEW t \in Sessions
      PROVE  Apart(t, session[t])'
  BY <1>1 DEF Inv, SessionsAreSound, Apart
<1> QED BY <1>2, <1>3, <1>4 DEF Inv, SessionsAreSound

LEMMA IdleIsSound ==
  ASSUME NEW s \in Sessions
  PROVE  /\ Idle \in Work
         /\ Idle.pc = "idle" /\ Idle.j = None /\ \A p \in Periods : Idle.writes[p] = None
         /\ Sound(Idle) /\ Apart(s, Idle)
<1>1. /\ Idle \in Work
      /\ Idle.pc = "idle" /\ Idle.j = None /\ \A p \in Periods : Idle.writes[p] = None
  BY DEF Idle, Work, Transitions, KindsOfPeriod
<1> QED BY <1>1 DEF Sound, SoundChange, SoundPosting, SoundWrites, Apart

-----------------------------------------------------------------------------
(* Requests that begin from nothing. *)

LEMMA CreateKeeps ==
  ASSUME Inv, NEW s \in Sessions, NEW p \in Periods, NEW kind \in Kinds[p], BeginCreate(s, p, kind)
  PROVE  Inv'
<1> DEFINE w == [Idle EXCEPT !.pc = "flush", !.op = "create", !.p = p, !.kind = kind]
<1>1. Goes(s, w) /\ period' = period /\ journal' = journal /\ issued' = issued
  BY DEF BeginCreate, Begins
<1>2. kind \in KindsOfPeriod
  BY PeriodConstants DEF KindsOfPeriod
<1>3. /\ w \in Work
      /\ w.pc = "flush" /\ w.op = "create" /\ w.p = p /\ w.j = None
      /\ \A q \in Periods : w.writes[q] = None
  BY <1>2, IdleIsSound DEF Work
<1> HIDE DEF w
<1>4. Sound(w) /\ Apart(s, w)
  BY <1>3 DEF Sound, SoundChange, SoundPosting, SoundWrites, Apart
<1> QED BY <1>1, <1>3, <1>4, QuietStep DEF Inv, TypeOK

LEMMA TransitionKeeps ==
  ASSUME Inv, NEW s \in Sessions, NEW op \in Transitions, NEW p \in Periods, Begin(s, op, p)
  PROVE  Inv'
<1> DEFINE w == [Idle EXCEPT !.pc = "flush", !.op = op, !.p = p, !.seen = period[p].count]
<1>1. /\ Goes(s, w) /\ period' = period /\ journal' = journal /\ issued' = issued
      /\ Accepts(op, p)
  BY DEF Begin, Begins
<1>2. period[p].count \in Nat
  BY DEF Inv, TypeOK, Rows
<1>3. /\ w \in Work
      /\ w.pc = "flush" /\ w.op = op /\ w.p = p /\ w.j = None
      /\ \A q \in Periods : w.writes[q] = None
  BY <1>2, IdleIsSound DEF Work
<1>4. op \in {"hard", "reopen"} => period[p].soft
  BY <1>1 DEF Accepts, Inv, StampsTellTheHistory, Consistent
<1> HIDE DEF w
<1>5. Sound(w) /\ Apart(s, w)
  BY <1>3, <1>4 DEF Sound, SoundChange, SoundPosting, SoundWrites, Apart
<1> QED BY <1>1, <1>3, <1>5, QuietStep DEF Inv, TypeOK

LEMMA ListingKeeps ==
  ASSUME Inv, NEW s \in Sessions, NEW hard \in BOOLEAN, BeginGate(s, hard)
  PROVE  Inv'
<1> DEFINE listed == {p \in Periods : period[p].status \in Postable}
           opened == {p \in listed : hard /\ period[p].status = "OPEN"}
           w == [Idle EXCEPT !.pc = "assess", !.hard = hard, !.todo = listed, !.opened = opened]
<1>1. Goes(s, w) /\ period' = period /\ journal' = journal /\ issued' = issued
  BY DEF BeginGate, Begins
<1>2. listed \subseteq Periods /\ opened \subseteq Periods
  OBVIOUS
<1>3. /\ w \in Work
      /\ w.pc = "assess" /\ w.j = None
      /\ \A q \in Periods : w.writes[q] = None
  <2> HIDE DEF listed, opened
  <2> QED BY <1>2, IdleIsSound DEF Work
<1> HIDE DEF w
<1>4. Sound(w) /\ Apart(s, w)
  BY <1>3 DEF Sound, SoundChange, SoundPosting, SoundWrites, Apart
<1> QED BY <1>1, <1>3, <1>4, QuietStep DEF Inv, TypeOK

\* What the guard establishes for the period it returns.
LEMMA GuardPasses ==
  ASSUME Inv, NEW s \in Sessions, NEW j \in Journals, NEW p \in Periods, NEW adjusting \in BOOLEAN,
         Guard(s, j, p, adjusting)
  PROVE  /\ Exists(p) /\ Date[j] \in Days[p]
         /\ period[p].status \in Postable
         /\ period[p].kind = "adjustment" => adjusting
         /\ journal[j].status = "UNPOSTED"
         /\ \A t \in Sessions : session[t].j # j
<1>1. p \in Dated(j)
  BY DEF Guard, Resolved, First, Preferred
<1> QED BY <1>1 DEF Guard, Dated, Allowed, InPosting

LEMMA GuardKeeps ==
  ASSUME Inv, NEW s \in Sessions, NEW j \in Journals, NEW p \in Periods, NEW adjusting \in BOOLEAN,
         Guard(s, j, p, adjusting)
  PROVE  Inv'
<1> DEFINE w == [Idle EXCEPT !.pc = "post", !.p = p, !.j = j, !.adjusting = adjusting]
<1>1. Goes(s, w) /\ period' = period /\ journal' = journal /\ issued' = issued
  BY DEF Guard, Begins
<1>2. /\ w \in Work
      /\ w.pc = "post" /\ w.p = p /\ w.j = j /\ w.adjusting = adjusting
      /\ \A q \in Periods : w.writes[q] = None
  BY IdleIsSound DEF Work
<1> HIDE DEF w
<1>3. Sound(w) /\ Apart(s, w)
  BY <1>2, GuardPasses DEF Sound, SoundChange, SoundPosting, SoundWrites, Apart
<1> QED BY <1>1, <1>2, <1>3, QuietStep DEF Inv, TypeOK

LEMMA FailureKeeps ==
  ASSUME Inv, NEW s \in Sessions, Fail(s)
  PROVE  Inv'
BY IdleIsSound, QuietStep DEF Fail, Inv, TypeOK

-----------------------------------------------------------------------------
(* The gate at work.                                                       *)

\* Work that keeps its journal and its writes, and neither flushes nor posts.
LEMMA KeptWork ==
  ASSUME Inv, NEW s \in Sessions, NEW w \in Work, session[s].pc # "post",
         w.j = session[s].j, w.writes = session[s].writes, w.pc # "post", SoundChange(w),
         Goes(s, w), period' = period, journal' = journal, issued' = issued
  PROVE  Inv'
<1>1. Sound(session[s]) /\ Apart(s, session[s])
  BY DEF Inv, SessionsAreSound
<1>2. Sound(w) /\ Apart(s, w)
  BY <1>1 DEF Sound, SoundPosting, SoundWrites, Apart
<1> QED BY <1>2, QuietStep DEF Inv, TypeOK

LEMMA AssessKeeps ==
  ASSUME Inv, NEW s \in Sessions, NEW p \in Periods, NEW force \in BOOLEAN, Assess(s, p, force)
  PROVE  Inv'
<1> DEFINE rest == session[s].todo \ {p}
           ready == IF force \/ Unposted(p) = {} THEN session[s].ready \cup {p} ELSE session[s].ready
           pc == IF rest = {} THEN "close" ELSE "assess"
           todo == IF rest = {} THEN ready ELSE rest
           left == IF rest = {} THEN {} ELSE ready
           w == [session[s] EXCEPT !.pc = pc, !.todo = todo, !.ready = left]
<1>1. /\ session[s].pc = "assess"
      /\ Goes(s, w) /\ period' = period /\ journal' = journal /\ issued' = issued
  BY DEF Assess
<1>2. session[s] \in Work
  BY DEF Inv, TypeOK
<1>3. todo \subseteq Periods /\ left \subseteq Periods /\ pc \in {"close", "assess"}
  BY <1>2 DEF Work
<1>4. w \in Work /\ w.pc = pc /\ w.j = session[s].j /\ w.writes = session[s].writes
  <2> HIDE DEF pc, todo, left
  <2> QED BY <1>2, <1>3 DEF Work
<1> HIDE DEF w
<1>5. w.pc \notin {"post", "flush"}
  BY <1>3, <1>4
<1> QED BY <1>1, <1>4, <1>5, KeptWork DEF SoundChange

LEMMA CloseKeeps ==
  ASSUME Inv, NEW s \in Sessions, NEW p \in Periods, CloseNext(s, p)
  PROVE  Inv'
<1> DEFINE op == Closer(s, p)
           todo == session[s].todo \ {p}
           w == [session[s] EXCEPT !.pc = "flush", !.op = op, !.p = p, !.todo = todo]
<1>1. /\ session[s].pc = "close" /\ Accepts(op, p)
      /\ Goes(s, w) /\ period' = period /\ journal' = journal /\ issued' = issued
  BY DEF CloseNext
<1>2. session[s] \in Work
  BY DEF Inv, TypeOK
<1>3. op \in {"soft", "both", "hard"} /\ todo \subseteq Periods
  BY <1>2 DEF Closer, Work
<1>4. op = "hard" => period[p].soft
  BY <1>1 DEF Accepts, Inv, StampsTellTheHistory, Consistent
<1>5. /\ w \in Work
      /\ w.pc = "flush" /\ w.op = op /\ w.p = p
      /\ w.j = session[s].j /\ w.writes = session[s].writes
  <2> HIDE DEF op, todo
  <2> QED BY <1>2, <1>3 DEF Work, Transitions
<1> HIDE DEF w
<1>6. SoundChange(w)
  <2> HIDE DEF op
  <2> QED BY <1>3, <1>4, <1>5 DEF SoundChange, Transitions
<1> QED BY <1>1, <1>5, <1>6, KeptWork

LEMMA SkipKeeps ==
  ASSUME Inv, NEW s \in Sessions, NEW p \in Periods, SkipNext(s, p)
  PROVE  Inv'
<1> DEFINE w == [session[s] EXCEPT !.todo = @ \ {p}]
<1>1. /\ session[s].pc = "close"
      /\ Goes(s, w) /\ period' = period /\ journal' = journal /\ issued' = issued
  BY DEF SkipNext
<1>2. session[s] \in Work
  BY DEF Inv, TypeOK
<1>3. w \in Work /\ w.pc = session[s].pc /\ w.j = session[s].j /\ w.writes = session[s].writes
  BY <1>2 DEF Work
<1> HIDE DEF w
<1> QED BY <1>1, <1>3, KeptWork DEF SoundChange

-----------------------------------------------------------------------------
(* A row is flushed and committed.                                         *)

\* The row that a change writes may take the place of the row it is applied to.
LEMMA ChangedRow ==
  ASSUME NEW w \in Work, NEW row \in Rows, Consistent(row), issued \in Nat,
         w.op \in Transitions \cup {"create", "both"},
         w.op \in {"hard", "reopen"} => row.soft,
         w.op = "create" => row.status = "NONE"
  PROVE  Changed(w, row) \in Rows /\ Successor(Changed(w, row), row)
<1>1. w.seen \in Nat /\ w.kind \in KindsOfPeriod
  BY DEF Work
<1>2. CASE w.op = "create"
  BY <1>1, <1>2 DEF Changed, Rows, Statuses, Successor, Consistent
<1>3. CASE w.op = "open"
  BY <1>3 DEF Changed, Rows, Statuses, Successor, Consistent
<1>4. CASE w.op = "soft"
  BY <1>4 DEF Changed, Rows, Statuses, Successor, Consistent
<1>5. CASE w.op = "hard"
  BY <1>5 DEF Changed, Rows, Statuses, Successor, Consistent
<1>6. CASE w.op = "both"
  BY <1>6 DEF Changed, Rows, Statuses, Successor, Consistent
<1>7. CASE w.op = "reopen"
  <2> DEFINE count == w.seen + 1
             id == issued + 1
  <2>1. count \in Nat \ {0} /\ id \in Nat \ {0}
    BY <1>1
  <2>2. Changed(w, row) = [row EXCEPT !.status = "REOPENED", !.count = count, !.id = id]
    BY <1>7 DEF Changed
  <2> HIDE DEF count, id
  <2> QED BY <1>7, <2>1, <2>2 DEF Rows, Statuses, Successor, Consistent
<1> QED BY <1>2, <1>3, <1>4, <1>5, <1>6, <1>7 DEF Transitions

LEMMA ChangedFollows ==
  ASSUME Inv, NEW s \in Sessions, session[s].pc = "flush",
         session[s].op = "create" => ~Exists(session[s].p)
  PROVE  /\ session[s].p \in Periods
         /\ Changed(session[s], period[session[s].p]) \in Rows
         /\ Successor(Changed(session[s], period[session[s].p]), period[session[s].p])
<1>1. /\ session[s] \in Work
      /\ session[s].p \in Periods
      /\ session[s].op \in Transitions \cup {"create", "both"}
      /\ session[s].op \in {"hard", "reopen"} => period[session[s].p].soft
  BY DEF Inv, TypeOK, SessionsAreSound, Sound, SoundChange
<1>2. period[session[s].p] \in Rows /\ Consistent(period[session[s].p]) /\ issued \in Nat
  BY <1>1 DEF Inv, TypeOK, StampsTellTheHistory
<1>3. session[s].op = "create" => period[session[s].p].status = "NONE"
  BY DEF Exists
<1> QED BY <1>1, <1>2, <1>3, ChangedRow

LEMMA FlushKeeps ==
  ASSUME Inv, NEW s \in Sessions, Flush(s)
  PROVE  Inv'
<1> DEFINE p == session[s].p
           row == Changed(session[s], period[p])
           writes == [session[s].writes EXCEPT ![p] = row]
           w == [session[s] EXCEPT !.pc = "close", !.op = None, !.p = None, !.kind = None,
                   !.seen = 0, !.writes = writes]
<1>1. /\ session[s].pc = "flush" /\ RowFree(s, p) /\ period' = period /\ journal' = journal
      /\ session[s].op = "create" => ~Exists(p)
      /\ Goes(s, w)
  BY Zenon DEF Flush
<1>2. issued' \in Nat
  BY DEF Flush, Inv, TypeOK
<1>3. p \in Periods /\ row \in Rows /\ Successor(row, period[p])
  BY <1>1, ChangedFollows
<1>4. session[s] \in Work /\ Sound(session[s]) /\ Apart(s, session[s])
  BY DEF Inv, TypeOK, SessionsAreSound
<1> HIDE DEF row, p
<1>5. /\ writes \in [Periods -> Rows \cup {None}]
      /\ writes[p] = row
      /\ \A q \in Periods \ {p} : writes[q] = session[s].writes[q]
  BY <1>3, <1>4 DEF Work
<1>6. w \in Work /\ w.pc = "close" /\ w.j = session[s].j /\ w.writes = writes
  <2> HIDE DEF writes
  <2> QED BY <1>4, <1>5 DEF Work, KindsOfPeriod
<1> HIDE DEF w, writes
<1>7. Sound(w)
  <2>1. w.j = None
    BY <1>1, <1>4, <1>6 DEF Sound, SoundPosting
  <2>2. SoundWrites(w)
    BY <1>3, <1>4, <1>5, <1>6 DEF Sound, SoundWrites
  <2> QED BY <1>6, <2>1, <2>2 DEF Sound, SoundChange, SoundPosting
<1>8. Apart(s, w)
  BY <1>1, <1>4, <1>5, <1>6 DEF Apart, RowFree
<1> QED BY <1>1, <1>2, <1>6, <1>7, <1>8, QuietStep

LEMMA CommitKeeps ==
  ASSUME Inv, NEW s \in Sessions, Commit(s)
  PROVE  Inv'
<1> DEFINE writes == session[s].writes
<1>1. /\ period' = [p \in Periods |-> IF writes[p] = None THEN period[p] ELSE writes[p]]
      /\ Goes(s, Idle) /\ journal' = journal /\ issued' = issued
  BY DEF Commit
<1>2. /\ session' \in [Sessions -> Work]
      /\ session'[s] = Idle
      /\ \A t \in Sessions \ {s} : session'[t] = session[t]
  BY <1>1, Going, IdleIsSound DEF Inv
<1>3. /\ session[s] \in Work /\ Sound(session[s]) /\ Apart(s, session[s])
      /\ writes \in [Periods -> Rows \cup {None}]
  BY DEF Inv, TypeOK, SessionsAreSound, Work
<1>4. ASSUME NEW p \in Periods
      PROVE  /\ period'[p] \in Rows
             /\ Consistent(period'[p])
             /\ period[p].soft => period'[p].soft
             /\ Exists(p) => Exists(p)' /\ period'[p].kind = period[p].kind
             /\ period'[p] = period[p] \/ \A t \in Sessions \ {s} : session[t].writes[p] = None
  BY <1>1, <1>3 DEF Inv, TypeOK, StampsTellTheHistory, Sound, SoundWrites, Successor, Exists, Apart
<1>5. TypeOK' /\ StampsTellTheHistory'
  BY <1>1, <1>2, <1>4 DEF Inv, TypeOK, StampsTellTheHistory
<1>6. LinesBelong' /\ LinesExist'
  BY <1>1, <1>4 DEF Inv, LinesBelong, LinesExist
<1>7. ASSUME NEW t \in Sessions
      PROVE  Sound(session[t])'
  <2>1. CASE t = s
    <3>1. session'[t] = Idle
      BY <1>2, <2>1
    <3> QED BY <3>1, IdleIsSound DEF Sound, SoundChange, SoundPosting, SoundWrites
  <2>2. CASE t # s
    <3>1. session'[t] = session[t] /\ Sound(session[t])
      BY <1>2, <2>2 DEF Inv, SessionsAreSound
    <3>2. SoundChange(session[t])'
      BY <1>4, <3>1 DEF Sound, SoundChange
    <3>3. SoundPosting(session[t])'
      BY <1>1, <1>4, <3>1 DEF Sound, SoundPosting
    <3>4. SoundWrites(session[t])'
      BY <1>4, <2>2, <3>1 DEF Sound, SoundWrites
    <3> QED BY <3>2, <3>3, <3>4 DEF Sound
  <2> QED BY <2>1, <2>2
<1>8. ASSUME NEW t \in Sessions
      PROVE  Apart(t, session[t])'
  BY <1>2, IdleIsSound DEF Inv, SessionsAreSound, Apart
<1> QED BY <1>5, <1>6, <1>7, <1>8 DEF Inv, SessionsAreSound

-----------------------------------------------------------------------------
(* Journals, and their posting.                                            *)

LEMMA PostKeeps ==
  ASSUME Inv, NEW s \in Sessions, Post(s)
  PROVE  /\ Inv'
         /\ session[s].j \in Journals /\ journal[session[s].j].status = "UNPOSTED"
         /\ \A j \in Journals \ {session[s].j} : journal'[j] = journal[j]
         /\ journal'[session[s].j].lines = session[s].p
<1> DEFINE j == session[s].j
           p == session[s].p
           adjusting == session[s].adjusting
           row == [journal[j] EXCEPT !.status = "POSTED", !.lines = p, !.adjusting = adjusting]
<1>1. /\ session[s].pc = "post"
      /\ Goes(s, Idle) /\ period' = period /\ issued' = issued
  BY DEF Post
<1>2. journal' = [journal EXCEPT ![j] = row]
  BY DEF Post
<1>3. /\ session' \in [Sessions -> Work]
      /\ session'[s] = Idle
      /\ \A t \in Sessions \ {s} : session'[t] = session[t]
  BY <1>1, Going, IdleIsSound DEF Inv
<1>4. /\ j \in Journals /\ p \in Periods /\ Exists(p) /\ Date[j] \in Days[p]
      /\ period[p].kind = "adjustment" => adjusting
      /\ journal[j].status = "UNPOSTED"
      /\ adjusting \in BOOLEAN
      /\ Apart(s, session[s])
  BY <1>1 DEF Inv, TypeOK, Work, SessionsAreSound, Sound, SoundPosting
<1> HIDE DEF j, p, adjusting
<1>5. row \in JournalRows /\ row.status = "POSTED" /\ row.lines = p /\ row.adjusting = adjusting
  BY <1>4 DEF Inv, TypeOK, JournalRows
<1> HIDE DEF row
<1>6. /\ journal' \in [Journals -> JournalRows]
      /\ journal'[j] = row
      /\ \A i \in Journals \ {j} : journal'[i] = journal[i]
  BY <1>2, <1>4, <1>5 DEF Inv, TypeOK
<1>7. TypeOK' /\ StampsTellTheHistory'
  BY <1>1, <1>3, <1>6 DEF Inv, TypeOK, StampsTellTheHistory
<1>8. LinesBelong' /\ LinesExist'
  BY <1>1, <1>4, <1>5, <1>6 DEF Inv, LinesBelong, LinesExist, Exists
<1>9. ASSUME NEW t \in Sessions
      PROVE  Sound(session[t])'
  <2>1. CASE t = s
    <3>1. session'[t] = Idle
      BY <1>3, <2>1
    <3> QED BY <3>1, IdleIsSound DEF Sound, SoundChange, SoundPosting, SoundWrites
  <2>2. CASE t # s
    <3>1. session'[t] = session[t] /\ Sound(session[t])
      BY <1>3, <2>2 DEF Inv, SessionsAreSound
    <3>2. session[t].pc = "post" => session[t].j # j
      BY <1>4, <2>2, <3>1, PeriodConstants DEF Apart, Sound, SoundPosting, j
    <3> QED BY <1>1, <1>6, <3>1, <3>2 DEF Sound, SoundChange, SoundPosting, SoundWrites, Exists
  <2> QED BY <2>1, <2>2
<1>10. ASSUME NEW t \in Sessions
       PROVE  Apart(t, session[t])'
  BY <1>3, IdleIsSound DEF Inv, SessionsAreSound, Apart
<1>11. Inv'
  BY <1>7, <1>8, <1>9, <1>10 DEF Inv, SessionsAreSound
<1> QED BY <1>4, <1>5, <1>6, <1>11 DEF j, p

\* A journal outside any posting is created or dropped.
LEMMA JournalKeeps ==
  ASSUME Inv, NEW j \in Journals, NEW row \in JournalRows, row.status # "POSTED",
         \/ journal[j].status = "NONE"
         \/ ~InPosting(j),
         journal' = [journal EXCEPT ![j] = row],
         period' = period, session' = session, issued' = issued
  PROVE  Inv'
<1>1. /\ journal' \in [Journals -> JournalRows]
      /\ journal'[j] = row
      /\ \A i \in Journals \ {j} : journal'[i] = journal[i]
  BY DEF Inv, TypeOK
<1>2. (TypeOK /\ StampsTellTheHistory /\ LinesBelong /\ LinesExist)'
  BY <1>1 DEF Inv, TypeOK, StampsTellTheHistory, LinesBelong, LinesExist, Exists
<1>3. ASSUME NEW t \in Sessions
      PROVE  Sound(session[t])' /\ Apart(t, session[t])'
  <2>1. Sound(session[t]) /\ Apart(t, session[t])
    BY DEF Inv, SessionsAreSound
  <2>2. session[t].pc = "post" => session[t].j # j
    BY <2>1 DEF Sound, SoundPosting, InPosting
  <2>3. Sound(session[t])'
    BY <1>1, <2>1, <2>2 DEF Sound, SoundChange, SoundPosting, SoundWrites, Exists
  <2> QED BY <2>1, <2>3 DEF Apart
<1> QED BY <1>2, <1>3 DEF Inv, SessionsAreSound

LEMMA CreationKeeps ==
  ASSUME Inv, NEW j \in Journals, CreateJournal(j)
  PROVE  Inv'
<1>1. PICK p \in Periods : journal' = [journal EXCEPT ![j] = [Unwritten EXCEPT
                                          !.status = "UNPOSTED", !.period = p]]
  BY DEF CreateJournal
<1> DEFINE row == [Unwritten EXCEPT !.status = "UNPOSTED", !.period = p]
<1>2. row \in JournalRows /\ row.status # "POSTED"
  BY DEF Unwritten, JournalRows
<1> QED BY <1>1, <1>2, JournalKeeps DEF CreateJournal

LEMMA DropKeeps ==
  ASSUME Inv, NEW j \in Journals, DropJournal(j)
  PROVE  Inv'
<1>1. Unwritten \in JournalRows /\ Unwritten.status # "POSTED"
  BY DEF Unwritten, JournalRows
<1> QED BY <1>1, JournalKeeps DEF DropJournal

-----------------------------------------------------------------------------
(* The theorems.                                                           *)

LEMMA InvHolds == Spec => []Inv
<1>1. Init => Inv
  <2> SUFFICES ASSUME Init PROVE Inv
    OBVIOUS
  <2>1. TypeOK
    BY IdleIsSound DEF Init, TypeOK, Absent, Unwritten, Rows, Statuses, KindsOfPeriod, JournalRows
  <2>2. StampsTellTheHistory
    BY DEF Init, StampsTellTheHistory, Consistent, Absent
  <2>3. LinesBelong /\ LinesExist
    BY DEF Init, LinesBelong, LinesExist, Unwritten
  <2>4. SessionsAreSound
    BY IdleIsSound DEF Init, SessionsAreSound
  <2> QED BY <2>1, <2>2, <2>3, <2>4 DEF Inv
<1>2. Inv /\ [Next]_vars => Inv'
  <2> SUFFICES ASSUME Inv, [Next]_vars PROVE Inv'
    OBVIOUS
  <2>1. CASE Next
    BY <2>1, CreateKeeps, TransitionKeeps, FlushKeeps, CommitKeeps, PostKeeps, FailureKeeps,
       ListingKeeps, AssessKeeps, CloseKeeps, SkipKeeps, GuardKeeps, CreationKeeps, DropKeeps
       DEF Next
  <2>2. CASE UNCHANGED vars
    BY <2>2 DEF vars, Inv, TypeOK, StampsTellTheHistory, LinesBelong, LinesExist, SessionsAreSound,
                Sound, SoundChange, SoundPosting, SoundWrites, Apart, Exists
  <2> QED BY <2>1, <2>2
<1> QED BY <1>1, <1>2, PTL DEF Spec

\* Rows, journals and requests have their types.
THEOREM TypeCorrect == Spec => []TypeOK
BY InvHolds, PTL DEF Inv

\* A hard close is recorded after a soft close, and a REOPENED period has the
\* session id its postings must bring, whichever transitions overtake each other.
THEOREM StampsAgree == Spec => []StampsTellTheHistory
BY InvHolds, PTL DEF Inv

\* The ledger lines of a journal lie in a period of their date, and in an
\* adjustment period only where the request allowed it.
THEOREM LinesAreInPlace == Spec => []LinesBelong
BY InvHolds, PTL DEF Inv

\* A step that leaves periods and journals alone, and the settled period out of
\* its own session's work, leaves it settled.
LEMMA SettledAside ==
  ASSUME Inv, NEW p \in Periods, Settled(p), NEW s \in Sessions, NEW w, Goes(s, w),
         w.p # p, w.writes[p] = None
  PROVE  /\ \A t \in Sessions : session'[t].p # p /\ session'[t].writes[p] = None
         /\ period' = period /\ journal' = journal =>
              Settled(p)' /\ period'[p] = period[p] /\ Lines(p)' = Lines(p)
<1>1. \A t \in Sessions : session'[t] = IF t = s THEN w ELSE session[t]
  BY DEF Inv, TypeOK, Goes
<1>2. \A t \in Sessions : session'[t].p # p /\ session'[t].writes[p] = None
  BY <1>1 DEF Settled
<1> QED BY <1>2 DEF Settled, Lines

\* A hard-closed period that nobody is at work on keeps its status, its stamps
\* and its lines for ever: hard_close_period is permanent once the requests that
\* read the row before it are over.
THEOREM HardCloseIsPermanent == Spec => HardCloseSettles
<1>1. ASSUME Inv, Next, NEW p \in Periods, Settled(p)
      PROVE  Settled(p)' /\ period'[p] = period[p] /\ Lines(p)' = Lines(p)
  <2> USE <1>1
  <2>1. /\ period[p].status = "HARD_CLOSED"
        /\ \A t \in Sessions : session[t].p # p /\ session[t].writes[p] = None
    BY DEF Settled
  <2>2. p # None /\ Idle.p = None /\ Idle.writes[p] = None
    BY PeriodConstants DEF Idle
  <2>3. ASSUME NEW s \in Sessions, NEW q \in Periods, NEW kind \in Kinds[q], BeginCreate(s, q, kind)
        PROVE  Settled(p)' /\ period'[p] = period[p] /\ Lines(p)' = Lines(p)
    <3> DEFINE w == [Idle EXCEPT !.pc = "flush", !.op = "create", !.p = q, !.kind = kind]
    <3>1. q # p /\ Goes(s, w) /\ period' = period /\ journal' = journal
      BY <2>1, <2>3 DEF BeginCreate, Begins, Creatable, Exists
    <3>2. w.p = q /\ w.writes[p] = None
      BY <2>2 DEF Idle
    <3> QED BY <3>1, <3>2, SettledAside
  <2>4. ASSUME NEW s \in Sessions, NEW op \in Transitions, NEW q \in Periods, Begin(s, op, q)
        PROVE  Settled(p)' /\ period'[p] = period[p] /\ Lines(p)' = Lines(p)
    <3> DEFINE w == [Idle EXCEPT !.pc = "flush", !.op = op, !.p = q, !.seen = period[q].count]
    <3>1. q # p /\ Goes(s, w) /\ period' = period /\ journal' = journal
      BY <2>1, <2>4 DEF Begin, Begins, Accepts, Transitions
    <3>2. w.p = q /\ w.writes[p] = None
      BY <2>2 DEF Idle
    <3> QED BY <3>1, <3>2, SettledAside
  <2>5. ASSUME NEW s \in Sessions, Flush(s)
        PROVE  Settled(p)' /\ period'[p] = period[p] /\ Lines(p)' = Lines(p)
    <3> DEFINE q == session[s].p
               writes == [session[s].writes EXCEPT ![q] = Changed(session[s], period[q])]
               w == [session[s] EXCEPT !.pc = "close", !.op = None, !.p = None, !.kind = None,
                       !.seen = 0, !.writes = writes]
    <3>1. Goes(s, w) /\ period' = period /\ journal' = journal
      BY <2>5, Zenon DEF Flush
    <3>2. session[s] \in Work
      BY DEF Inv, TypeOK
    <3>3. writes[p] = None
      BY <2>1, <3>2 DEF Work
    <3>4. w.p = None /\ w.writes = writes
      <4> HIDE DEF writes
      <4> QED BY <3>2 DEF Work
    <3> HIDE DEF w, writes
    <3> QED BY <2>2, <3>1, <3>3, <3>4, SettledAside
  <2>6. ASSUME NEW s \in Sessions, Commit(s)
        PROVE  Settled(p)' /\ period'[p] = period[p] /\ Lines(p)' = Lines(p)
    <3>1. /\ Goes(s, Idle) /\ journal' = journal
          /\ period'[p] = period[p]
      BY <2>1, <2>6 DEF Commit
    <3>2. \A t \in Sessions : session'[t].p # p /\ session'[t].writes[p] = None
      BY <2>2, <3>1, SettledAside
    <3> QED BY <2>1, <3>1, <3>2 DEF Settled, Lines
  <2>7. ASSUME NEW s \in Sessions, Post(s)
        PROVE  Settled(p)' /\ period'[p] = period[p] /\ Lines(p)' = Lines(p)
    <3>1. Goes(s, Idle) /\ period' = period
      BY <2>7 DEF Post
    <3>2. \A t \in Sessions : session'[t].p # p /\ session'[t].writes[p] = None
      BY <2>2, <3>1, SettledAside
    <3>3. /\ session[s].j \in Journals /\ journal[session[s].j].status = "UNPOSTED"
          /\ \A j \in Journals \ {session[s].j} : journal'[j] = journal[j]
          /\ journal'[session[s].j].lines = session[s].p
      BY <2>7, PostKeeps
    <3>4. Lines(p)' = Lines(p)
      BY <2>1, <3>3 DEF Lines
    <3> QED BY <2>1, <3>1, <3>2, <3>4 DEF Settled
  <2>8. ASSUME NEW s \in Sessions, Fail(s)
        PROVE  Settled(p)' /\ period'[p] = period[p] /\ Lines(p)' = Lines(p)
    BY <2>2, <2>8, SettledAside DEF Fail
  <2>9. ASSUME NEW s \in Sessions, NEW hard \in BOOLEAN, BeginGate(s, hard)
        PROVE  Settled(p)' /\ period'[p] = period[p] /\ Lines(p)' = Lines(p)
    <3> DEFINE listed == {q \in Periods : period[q].status \in Postable}
               opened == {q \in listed : hard /\ period[q].status = "OPEN"}
               w == [Idle EXCEPT !.pc = "assess", !.hard = hard, !.todo = listed, !.opened = opened]
    <3>1. Goes(s, w) /\ period' = period /\ journal' = journal
      BY <2>9 DEF BeginGate, Begins
    <3>2. w.p = None /\ w.writes[p] = None
      BY <2>2 DEF Idle
    <3> QED BY <2>2, <3>1, <3>2, SettledAside
  <2>10. ASSUME NEW s \in Sessions, NEW q \in Periods, NEW force \in BOOLEAN, Assess(s, q, force)
         PROVE  Settled(p)' /\ period'[p] = period[p] /\ Lines(p)' = Lines(p)
    <3> DEFINE rest == session[s].todo \ {q}
               ready == IF force \/ Unposted(q) = {} THEN session[s].ready \cup {q}
                                                     ELSE session[s].ready
               w == [session[s] EXCEPT !.pc = IF rest = {} THEN "close" ELSE "assess",
                       !.todo = IF rest = {} THEN ready ELSE rest,
                       !.ready = IF rest = {} THEN {} ELSE ready]
    <3>1. Goes(s, w) /\ period' = period /\ journal' = journal
      BY <2>10 DEF Assess
    <3>2. w.p = session[s].p /\ w.writes = session[s].writes
      BY DEF Inv, TypeOK, Work
    <3> HIDE DEF w
    <3> QED BY <2>1, <3>1, <3>2, SettledAside
  <2>11. ASSUME NEW s \in Sessions, NEW q \in Periods, CloseNext(s, q)
         PROVE  Settled(p)' /\ period'[p] = period[p] /\ Lines(p)' = Lines(p)
    <3> DEFINE w == [session[s] EXCEPT !.pc = "flush", !.op = Closer(s, q), !.p = q, !.todo = @ \ {q}]
    <3>1. q # p /\ Goes(s, w) /\ period' = period /\ journal' = journal
      BY <2>1, <2>11 DEF CloseNext, Closer, Accepts
    <3>2. w.p = q /\ w.writes = session[s].writes
      BY DEF Inv, TypeOK, Work
    <3> HIDE DEF w
    <3> QED BY <2>1, <3>1, <3>2, SettledAside
  <2>12. ASSUME NEW s \in Sessions, NEW q \in Periods, SkipNext(s, q)
         PROVE  Settled(p)' /\ period'[p] = period[p] /\ Lines(p)' = Lines(p)
    <3> DEFINE w == [session[s] EXCEPT !.todo = @ \ {q}]
    <3>1. Goes(s, w) /\ period' = period /\ journal' = journal
      BY <2>12 DEF SkipNext
    <3>2. w.p = session[s].p /\ w.writes = session[s].writes
      BY DEF Inv, TypeOK, Work
    <3> HIDE DEF w
    <3> QED BY <2>1, <3>1, <3>2, SettledAside
  <2>13. ASSUME NEW s \in Sessions, NEW j \in Journals, NEW q \in Periods, NEW adjusting \in BOOLEAN,
                Guard(s, j, q, adjusting)
         PROVE  Settled(p)' /\ period'[p] = period[p] /\ Lines(p)' = Lines(p)
    <3> DEFINE w == [Idle EXCEPT !.pc = "post", !.p = q, !.j = j, !.adjusting = adjusting]
    <3>1. Goes(s, w) /\ period' = period /\ journal' = journal
      BY <2>13 DEF Guard, Begins
    <3>2. q # p
      BY <2>1, <2>13, GuardPasses DEF Postable
    <3>3. w.p = q /\ w.writes[p] = None
      BY <2>2 DEF Idle
    <3> QED BY <3>1, <3>2, <3>3, SettledAside
  <2>14. ASSUME NEW j \in Journals, CreateJournal(j) \/ DropJournal(j)
         PROVE  Settled(p)' /\ period'[p] = period[p] /\ Lines(p)' = Lines(p)
    <3>1. PICK row : row.status # "POSTED" /\ journal' = [journal EXCEPT ![j] = row]
      BY <2>14 DEF CreateJournal, DropJournal, Unwritten
    <3>2. journal[j].status # "POSTED" /\ period' = period /\ session' = session
      BY <2>14 DEF CreateJournal, DropJournal
    <3>3. Lines(p)' = Lines(p)
      BY <3>1, <3>2 DEF Lines, Inv, TypeOK
    <3> QED BY <3>2, <3>3 DEF Settled
  <2> QED BY <2>3, <2>4, <2>5, <2>6, <2>7, <2>8, <2>9, <2>10, <2>11, <2>12, <2>13, <2>14 DEF Next
<1>2. Inv /\ [Next]_vars => [\A p \in Periods : StaysSettled(p)]_vars
  BY <1>1 DEF StaysSettled
<1> QED BY <1>2, InvHolds, PTL DEF Spec, HardCloseSettles

=============================================================================
