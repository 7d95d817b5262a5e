---------------------------- MODULE BalanceProofs ----------------------------
(***************************************************************************)
(* Proofs about the balance projection, for any number of accounts,        *)
(* postings, relays, queue workers and failures.                           *)
(***************************************************************************)
EXTENDS BalanceProperties, SequenceTheorems, FiniteSetTheorems, TLAPS

USE ProjectionConstants

Locks == {"row", "queue", "key"} \X Keys \X Nat

QueueStates == {"none", "pending", "done"}

Posters == [pc : {"idle", "mark", "select", "write", "commit"}, key : Keys \cup {None},
            todo : SUBSET Keys, seen : QueueStates, targets : SUBSET Locks,
            marked : SUBSET Locks, queued : SUBSET Keys, reset : SUBSET Keys]

Refreshing == [pc : {"idle", "lock", "read", "flush", "close", "commit"},
               ev : Postings \cup {None}, key : Keys \cup {None}, todo : SUBSET Keys,
               sum : SUBSET Postings, i : Nat, old : Rows,
               writes : [Keys -> Writes \cup {None}], done : SUBSET Keys, queued : SUBSET Keys]

Repairs == [pc : {"idle", "compare", "repair", "delete", "aggregate", "commit"},
            sums : [Keys -> SUBSET Postings], targets : SUBSET Locks, victims : SUBSET Locks]

Rebuilds == [pc : {"idle", "read", "flush", "commit"}, sums : [Keys -> SUBSET Postings],
             writes : [Keys -> Writes \cup {None}]]

TableTypes ==
  /\ rows \in [Keys -> Seq(Rows)]
  /\ queue \in [Keys -> QueueStates]
  /\ event \in [Postings -> {"none", "queued", "published"}]

SessionTypes ==
  /\ poster \in [Postings -> Posters]
  /\ refresher \in [Refreshers -> Refreshing]
  /\ reconciler \in Repairs
  /\ rebuilder \in Rebuilds

\* A posting transaction inserts the event; a delivery has one to deliver.
WorkInHand ==
  /\ \A p \in Postings :
       /\ poster[p].pc # "idle" => event[p] = "none"
       /\ poster[p].pc \in {"mark", "select", "write"} => poster[p].key \in Keys
       /\ poster[p].todo \subseteq Lines[p]
  /\ \A r \in Refreshers :
       /\ refresher[r].ev # None => event[refresher[r].ev] # "none"
       /\ refresher[r].pc \in {"lock", "read", "flush"} => refresher[r].key \in Keys

TypeInv ==
  /\ TableTypes
  /\ SessionTypes
  /\ WorkInHand
  /\ rebuilds \in 0..MaxRebuilds
  /\ failures \in 0..MaxFailures

-----------------------------------------------------------------------------
(* The tables. *)

LEMMA LinesOfKeys == \A p \in Postings : Lines[p] \subseteq Keys
OBVIOUS

LEMMA RowsOfKeys ==
  ASSUME TableTypes
  PROVE  /\ \A k \in Keys : RowsOf(k) \subseteq Locks
         /\ AllRows \subseteq Locks
         /\ \A k \in Keys : Live(k) \subseteq Nat \ {0}
<1>1. ASSUME NEW k \in Keys PROVE Live(k) \subseteq Nat \ {0}
  BY LenProperties DEF TableTypes, Live
<1>2. ASSUME NEW k \in Keys PROVE RowsOf(k) \subseteq Locks
  BY <1>1 DEF RowsOf, RowLock, Locks
<1> QED BY <1>1, <1>2 DEF AllRows

LEMMA LedgerIsPostings == \A k : Ledger(k) \subseteq Postings
BY DEF Ledger

LEMMA ReadIsRow ==
  ASSUME TableTypes, NEW k \in Keys, NEW i \in Live(k) \cup {0}
  PROVE  Read(k, i) \in Rows /\ i \in Nat
<1>1. Gone \in Rows
  BY DEF Gone, Rows
<1>2. ASSUME i # 0 PROVE rows[k][i] \in Rows /\ i \in Nat
  <2>1. rows[k] \in Seq(Rows) /\ i \in DOMAIN rows[k]
    BY <1>2 DEF TableTypes, Live
  <2> QED BY <2>1, LenProperties, ElementOfSeq
<1> QED BY <1>1, <1>2 DEF Read

LEMMA WriteIsTyped ==
  ASSUME NEW i \in Nat, NEW old \in Rows, NEW sum \in SUBSET Postings, NEW refresh \in BOOLEAN
  PROVE  Write(i, old, sum, refresh) \in Writes
BY DEF Write, Writes, Rows

LEMMA WrittenIsRows ==
  ASSUME NEW s \in Seq(Rows), NEW w \in Writes \cup {None}
  PROVE  Written(s, w) \in Seq(Rows)
<1>1. CASE w = None
  BY <1>1 DEF Written
<1>2. CASE w # None /\ w.i = 0
  <2>1. Row(w.sum) \in Rows
    BY <1>2 DEF Row, Rows, Writes
  <2> QED BY <1>2, <2>1, AppendProperties DEF Written
<1>3. CASE w # None /\ w.i # 0
  <2> DEFINE row(i) == [s[i] EXCEPT !.sum = IF w.writesSum THEN w.sum ELSE @,
                                   !.stale = @ /\ ~w.clearsStale]
  <2>1. /\ Len(s) \in Nat /\ DOMAIN s = 1..Len(s)
        /\ \A i \in DOMAIN s : s[i] \in Rows
    BY LenProperties, ElementOfSeq
  <2>2. \A i \in DOMAIN s : row(i) \in Rows
    BY <1>3, <2>1 DEF Rows, Writes
  <2>3. Written(s, w) = [s EXCEPT ![w.i] = row(w.i)]
    BY <1>3 DEF Written
  <2> HIDE DEF row
  <2>4. [s EXCEPT ![w.i] = row(w.i)] \in [1..Len(s) -> Rows]
    BY <2>1, <2>2
  <2> QED BY <2>1, <2>3, <2>4, SeqDef
<1> QED BY <1>1, <1>2, <1>3


-----------------------------------------------------------------------------
(* The types, across the steps of all four kinds of session.               *)

LEMMA IdleTypes ==
  /\ IdlePoster \in Posters
  /\ IdleRefresher \in Refreshing
  /\ IdleReconciler \in Repairs
  /\ IdleRebuilder \in Rebuilds
<1>1. Gone \in Rows
  BY DEF Gone, Rows
<1>2. NoWrites \in [Keys -> Writes \cup {None}] /\ NoSums \in [Keys -> SUBSET Postings]
  BY DEF NoWrites, NoSums
<1> QED BY <1>1, <1>2 DEF IdlePoster, Posters, QueueStates, IdleRefresher, Refreshing,
                         IdleReconciler, Repairs, IdleRebuilder, Rebuilds

\* A posting transaction that moves on leaves every other one alone.
LEMMA PosterMoves ==
  ASSUME TypeInv, NEW p \in Postings, NEW work \in Posters,
         work.pc # "idle" => event'[p] = "none",
         work.pc \in {"mark", "select", "write"} => work.key \in Keys,
         work.todo \subseteq Lines[p],
         poster' = [poster EXCEPT ![p] = work],
         \A q \in Postings \ {p} : event'[q] = event[q],
         \A q \in Postings : event[q] # "none" => event'[q] # "none",
         UNCHANGED refresher
  PROVE  poster' \in [Postings -> Posters] /\ WorkInHand'
BY DEF TypeInv, SessionTypes, WorkInHand, Refreshing

LEMMA BeginPostingTypes ==
  ASSUME TypeInv, NEW p \in Postings, NEW k \in Keys, BeginPosting(p, k)
  PROVE  TypeInv'
<1> DEFINE work == [IdlePoster EXCEPT !.pc = "mark", !.key = k, !.todo = Lines[p] \ {k},
                                      !.targets = RowsOf(k)]
<1>1. RowsOf(k) \subseteq Locks
  BY RowsOfKeys DEF TypeInv
<1>2. work \in Posters /\ work.todo \subseteq Lines[p] /\ work.key \in Keys
  BY <1>1, IdleTypes, LinesOfKeys DEF Posters, IdlePoster
<1>3. /\ event[p] = "none"
      /\ poster' = [poster EXCEPT ![p] = work]
      /\ UNCHANGED <<rows, queue, event, refresher, reconciler, rebuilder, rebuilds, failures>>
  BY DEF BeginPosting, PosterOnly
<1> HIDE DEF work
<1>4. poster' \in [Postings -> Posters] /\ WorkInHand'
  BY <1>2, <1>3, PosterMoves
<1> QED BY <1>3, <1>4 DEF TypeInv, TableTypes, SessionTypes

LEMMA PostingNeeds ==
  ASSUME TypeInv, NEW p \in Postings, poster[p].pc = "mark"
  PROVE  Needs(p) = poster[p].targets \cap AllRows
BY DEF Needs

LEMMA MarkStaleTypes ==
  ASSUME TypeInv, NEW p \in Postings, MarkStale(p)
  PROVE  TypeInv'
<1> DEFINE work == [poster[p] EXCEPT !.pc = "select", !.targets = {}, !.marked = @ \cup Needs(p)]
<1>1. Needs(p) \subseteq Locks
  BY PostingNeeds, RowsOfKeys DEF MarkStale, TypeInv
<1>2. /\ poster[p] \in Posters
      /\ poster[p].pc = "mark" => event[p] = "none" /\ poster[p].key \in Keys
      /\ poster[p].todo \subseteq Lines[p]
  BY DEF TypeInv, SessionTypes, WorkInHand
<1>3. work \in Posters /\ work.todo \subseteq Lines[p] /\ work.key \in Keys
  BY <1>1, <1>2 DEF Posters, MarkStale
<1>4. /\ event[p] = "none"
      /\ poster' = [poster EXCEPT ![p] = work]
      /\ UNCHANGED <<rows, queue, event, refresher, reconciler, rebuilder, rebuilds, failures>>
  BY <1>2 DEF MarkStale, PosterOnly
<1> HIDE DEF work
<1>5. poster' \in [Postings -> Posters] /\ WorkInHand'
  BY <1>3, <1>4, PosterMoves
<1> QED BY <1>4, <1>5 DEF TypeInv, TableTypes, SessionTypes

LEMMA SelectEntryTypes ==
  ASSUME TypeInv, NEW p \in Postings, SelectEntry(p)
  PROVE  TypeInv'
<1> DEFINE work == [poster[p] EXCEPT !.pc = "write", !.seen = queue[poster[p].key]]
<1>1. /\ poster[p] \in Posters
      /\ poster[p].pc = "select" => event[p] = "none" /\ poster[p].key \in Keys
      /\ poster[p].todo \subseteq Lines[p]
  BY DEF TypeInv, SessionTypes, WorkInHand
<1>2. work \in Posters /\ work.todo \subseteq Lines[p] /\ work.key \in Keys
  BY <1>1 DEF Posters, SelectEntry, TypeInv, TableTypes
<1>3. /\ event[p] = "none"
      /\ poster' = [poster EXCEPT ![p] = work]
      /\ UNCHANGED <<rows, queue, event, refresher, reconciler, rebuilder, rebuilds, failures>>
  BY <1>1 DEF SelectEntry, PosterOnly
<1> HIDE DEF work
<1>4. poster' \in [Postings -> Posters] /\ WorkInHand'
  BY <1>2, <1>3, PosterMoves
<1> QED BY <1>3, <1>4 DEF TypeInv, TableTypes, SessionTypes

LEMMA WriteEntryTypes ==
  ASSUME TypeInv, NEW p \in Postings, WriteEntry(p)
  PROVE  TypeInv'
<1> DEFINE k == poster[p].key
           work(next) == [poster[p] EXCEPT
             !.pc = IF next = None THEN "commit" ELSE "mark",
             !.key = next, !.todo = @ \ {next},
             !.targets = IF next = None THEN {} ELSE RowsOf(next),
             !.queued = @ \cup {k},
             !.reset = IF poster[p].seen = "pending" THEN @ ELSE @ \cup {k}]
<1>1. PICK next \in IF poster[p].todo = {} THEN {None} ELSE poster[p].todo :
        poster' = [poster EXCEPT
          ![p].pc = IF next = None THEN "commit" ELSE "mark",
          ![p].key = next, ![p].todo = @ \ {next},
          ![p].targets = IF next = None THEN {} ELSE RowsOf(next),
          ![p].queued = @ \cup {poster[p].key},
          ![p].reset = IF poster[p].seen = "pending" THEN @ ELSE @ \cup {poster[p].key}]
  BY Zenon DEF WriteEntry
<1>2. /\ poster[p] \in Posters
      /\ poster[p].pc = "write" => event[p] = "none" /\ poster[p].key \in Keys
      /\ poster[p].todo \subseteq Lines[p]
  BY DEF TypeInv, SessionTypes, WorkInHand
<1>3. /\ event[p] = "none"
      /\ k \in Keys
      /\ UNCHANGED <<rows, queue, event, refresher, reconciler, rebuilder, rebuilds, failures>>
  BY <1>2 DEF WriteEntry, PosterOnly
<1>4. /\ next \in Keys \cup {None}
      /\ next # None => RowsOf(next) \subseteq Locks
  BY <1>2, RowsOfKeys DEF TypeInv, Posters
<1>5. /\ work(next) \in Posters /\ work(next).todo \subseteq Lines[p]
      /\ work(next).pc = "commit" \/ work(next).key \in Keys
  BY <1>2, <1>3, <1>4 DEF Posters
<1>6. poster' = [poster EXCEPT ![p] = work(next)]
  BY <1>1
<1> HIDE DEF work
<1>7. poster' \in [Postings -> Posters] /\ WorkInHand'
  BY <1>3, <1>5, <1>6, PosterMoves
<1> QED BY <1>3, <1>7 DEF TypeInv, TableTypes, SessionTypes

LEMMA CommitPostingTypes ==
  ASSUME TypeInv, NEW p \in Postings, CommitPosting(p)
  PROVE  TypeInv'
<1>1. rows' \in [Keys -> Seq(Rows)]
  <2> DEFINE row(k, i) == [rows[k][i] EXCEPT !.stale = @ \/ RowLock(k, i) \in poster[p].marked]
             seq(k) == [i \in DOMAIN rows[k] |-> row(k, i)]
  <2>1. ASSUME NEW k \in Keys PROVE seq(k) \in Seq(Rows)
    <3>1. /\ rows[k] \in Seq(Rows) /\ Len(rows[k]) \in Nat /\ DOMAIN rows[k] = 1..Len(rows[k])
          /\ \A i \in DOMAIN rows[k] : rows[k][i] \in Rows
      BY LenProperties, ElementOfSeq DEF TypeInv, TableTypes
    <3>2. \A i \in DOMAIN rows[k] : row(k, i) \in Rows
      BY <3>1 DEF Rows
    <3> HIDE DEF row
    <3>3. seq(k) \in [1..Len(rows[k]) -> Rows]
      BY <3>1, <3>2
    <3> QED BY <3>1, <3>3, SeqDef
  <2>2. rows' = [k \in Keys |-> seq(k)]
    BY DEF CommitPosting
  <2> HIDE DEF seq
  <2> QED BY <2>1, <2>2
<1>2. /\ queue' \in [Keys -> QueueStates]
      /\ event' \in [Postings -> {"none", "queued", "published"}]
      /\ event' = [event EXCEPT ![p] = "queued"]
      /\ poster' = [poster EXCEPT ![p] = IdlePoster]
      /\ UNCHANGED <<refresher, reconciler, rebuilder, rebuilds, failures>>
  BY DEF CommitPosting, PosterOnly, TypeInv, TableTypes, QueueStates
<1>3. /\ \A q \in Postings \ {p} : event'[q] = event[q]
      /\ \A q \in Postings : event[q] # "none" => event'[q] # "none"
  BY <1>2 DEF TypeInv, TableTypes
<1>4. IdlePoster.pc = "idle" /\ IdlePoster.todo \subseteq Lines[p]
  BY DEF IdlePoster
<1>5. poster' \in [Postings -> Posters] /\ WorkInHand'
  BY <1>2, <1>3, <1>4, IdleTypes, PosterMoves
<1> QED BY <1>1, <1>2, <1>5 DEF TypeInv, TableTypes, SessionTypes


\* Another refresh is as it was.
OtherRefreshes(r) == \A q \in Refreshers \ {r} : refresher'[q] = refresher[q]

LEMMA RefresherMoves ==
  ASSUME TypeInv, NEW r \in Refreshers, NEW work \in Refreshing,
         refresher' = [refresher EXCEPT ![r] = work]
  PROVE  /\ refresher' \in [Refreshers -> Refreshing]
         /\ refresher'[r] = work
         /\ OtherRefreshes(r)
BY DEF TypeInv, SessionTypes, OtherRefreshes

\* What a transaction reads and holds does not concern the tables.
Reading == UNCHANGED <<rows, queue, event, poster, reconciler, rebuilder, rebuilds, failures>>

LEMMA RefresherTypes ==
  ASSUME TypeInv, NEW r \in Refreshers
  PROVE  /\ refresher[r] \in Refreshing
         /\ refresher[r].todo \subseteq Keys
         /\ refresher[r].pc \in {"lock", "read", "flush"} => refresher[r].key \in Keys
BY DEF TypeInv, SessionTypes, WorkInHand, Refreshing

\* What each statement of a refresh does to its session.
LEMMA DeliveryStarted ==
  ASSUME TypeInv, NEW r \in Refreshers, NEW p \in Postings, StartDelivery(r, p)
  PROVE  /\ Reading
         /\ refresher' \in [Refreshers -> Refreshing]
         /\ OtherRefreshes(r)
         /\ event[p] = "queued"
         /\ refresher[r].pc = "idle"
         /\ refresher'[r].pc = "lock"
         /\ refresher'[r].ev = p
         /\ refresher'[r].key \in Lines[p]
         /\ refresher'[r].todo = Lines[p] \ {refresher'[r].key}
         /\ refresher'[r].writes = NoWrites
<1> DEFINE work(k) == [IdleRefresher EXCEPT !.pc = "lock", !.ev = p, !.key = k,
                                            !.todo = Lines[p] \ {k}]
<1>1. PICK k \in Lines[p] : refresher' = [refresher EXCEPT ![r] = work(k)]
  BY Zenon DEF StartDelivery
<1>2. Reading /\ event[p] = "queued" /\ refresher[r].pc = "idle"
  BY DEF StartDelivery, RefresherOnly, Reading
<1>3. /\ work(k) \in Refreshing
      /\ work(k).pc = "lock" /\ work(k).ev = p /\ work(k).key = k
      /\ work(k).todo = Lines[p] \ {k} /\ work(k).writes = NoWrites
  BY IdleTypes, LinesOfKeys DEF Refreshing, IdleRefresher
<1> HIDE DEF work
<1>4. /\ refresher' \in [Refreshers -> Refreshing]
      /\ refresher'[r] = work(k)
      /\ OtherRefreshes(r)
  BY <1>1, <1>3, RefresherMoves
<1> QED BY <1>2, <1>3, <1>4

LEMMA PassStarted ==
  ASSUME TypeInv, NEW r \in Refreshers, StartPass(r)
  PROVE  /\ Reading
         /\ refresher' \in [Refreshers -> Refreshing]
         /\ OtherRefreshes(r)
         /\ refresher[r].pc = "idle"
         /\ refresher'[r].pc = "lock"
         /\ refresher'[r].ev = None
         /\ refresher'[r].key \in Keys
         /\ refresher'[r].key \notin refresher'[r].todo
         /\ refresher'[r].writes = NoWrites
<1> DEFINE pending == {k \in Keys : queue[k] = "pending"}
           work(k) == [IdleRefresher EXCEPT !.pc = "lock", !.key = k, !.todo = pending \ {k}]
<1>1. PICK k \in pending : refresher' = [refresher EXCEPT ![r] = work(k)]
  BY Zenon DEF StartPass
<1>2. Reading /\ refresher[r].pc = "idle"
  BY DEF StartPass, RefresherOnly, Reading
<1>3. /\ work(k) \in Refreshing
      /\ work(k).pc = "lock" /\ work(k).ev = None /\ work(k).key = k
      /\ k \notin work(k).todo /\ work(k).writes = NoWrites
  BY IdleTypes DEF Refreshing, IdleRefresher
<1>4. k \in Keys
  OBVIOUS
<1> HIDE DEF work
<1>5. /\ refresher' \in [Refreshers -> Refreshing]
      /\ refresher'[r] = work(k)
      /\ OtherRefreshes(r)
  BY <1>1, <1>3, RefresherMoves
<1> QED BY <1>2, <1>3, <1>4, <1>5

LEMMA LockTaken ==
  ASSUME TypeInv, NEW r \in Refreshers, LockAndSum(r)
  PROVE  /\ Reading
         /\ refresher' \in [Refreshers -> Refreshing]
         /\ OtherRefreshes(r)
         /\ refresher[r].pc = "lock"
         /\ refresher[r].key \in Keys
         /\ refresher'[r].pc = "read"
         /\ refresher'[r].sum = Ledger(refresher[r].key)
         /\ refresher'[r].key = refresher[r].key
         /\ refresher'[r].ev = refresher[r].ev
         /\ refresher'[r].todo = refresher[r].todo
         /\ refresher'[r].writes = refresher[r].writes
<1> DEFINE work == [refresher[r] EXCEPT !.pc = "read", !.sum = Ledger(refresher[r].key)]
<1>1. /\ Reading
      /\ refresher[r].pc = "lock"
      /\ refresher[r].key \in Keys
      /\ refresher' = [refresher EXCEPT ![r] = work]
  BY RefresherTypes DEF LockAndSum, RefresherOnly, Reading
<1>2. /\ work \in Refreshing
      /\ work.pc = "read" /\ work.sum = Ledger(refresher[r].key)
      /\ work.key = refresher[r].key /\ work.ev = refresher[r].ev
      /\ work.todo = refresher[r].todo /\ work.writes = refresher[r].writes
  <2>1. refresher[r] \in Refreshing /\ Ledger(refresher[r].key) \in SUBSET Postings
    BY RefresherTypes, LedgerIsPostings
  <2> HIDE DEF Ledger
  <2> QED BY <2>1 DEF Refreshing
<1> HIDE DEF work
<1>3. /\ refresher' \in [Refreshers -> Refreshing]
      /\ refresher'[r] = work
      /\ OtherRefreshes(r)
  BY <1>1, <1>2, RefresherMoves
<1> QED BY <1>1, <1>2, <1>3

LEMMA RowRead ==
  ASSUME TypeInv, NEW r \in Refreshers, ReadRow(r)
  PROVE  LET k == refresher[r].key
             i == refresher'[r].i
         IN /\ Reading
            /\ refresher' \in [Refreshers -> Refreshing]
            /\ OtherRefreshes(r)
            /\ refresher[r].pc = "read"
            /\ k \in Keys
            /\ refresher'[r].pc = "flush"
            /\ i \in Live(k) \cup {0}
            /\ Reads(k, i)
            /\ refresher'[r].old = Read(k, i)
            /\ refresher'[r].sum = refresher[r].sum
            /\ refresher'[r].key = k
            /\ refresher'[r].ev = refresher[r].ev
            /\ refresher'[r].todo = refresher[r].todo
            /\ refresher'[r].writes = refresher[r].writes
<1> DEFINE k == refresher[r].key
           work(i) == [refresher[r] EXCEPT !.pc = "flush", !.i = i, !.old = Read(k, i)]
<1>1. PICK i \in Live(k) \cup {0} :
        /\ Reads(k, i)
        /\ refresher' = [refresher EXCEPT ![r].pc = "flush", ![r].i = i, ![r].old = Read(k, i)]
  BY DEF ReadRow
<1>2. /\ Reading
      /\ refresher[r].pc = "read"
      /\ k \in Keys
  BY RefresherTypes DEF ReadRow, RefresherOnly, Reading
<1>3. refresher' = [refresher EXCEPT ![r] = work(i)]
  BY <1>1
<1>4. Read(k, i) \in Rows /\ i \in Nat
  BY <1>2, ReadIsRow DEF TypeInv
<1>5. /\ work(i) \in Refreshing
      /\ work(i).pc = "flush" /\ work(i).i = i /\ work(i).old = Read(k, i)
      /\ work(i).sum = refresher[r].sum /\ work(i).key = k /\ work(i).ev = refresher[r].ev
      /\ work(i).todo = refresher[r].todo /\ work(i).writes = refresher[r].writes
  <2>1. refresher[r] \in Refreshing
    BY RefresherTypes
  <2> QED BY <1>4, <2>1 DEF Refreshing
<1> HIDE DEF work
<1>6. /\ refresher' \in [Refreshers -> Refreshing]
      /\ refresher'[r] = work(i)
      /\ OtherRefreshes(r)
  BY <1>3, <1>5, RefresherMoves
<1> QED BY <1>1, <1>2, <1>5, <1>6

\* Of a flush: the write is in the session, and the next key is taken up.
LEMMA RowFlushed ==
  ASSUME TypeInv, NEW r \in Refreshers, FlushRow(r)
  PROVE  LET k == refresher[r].key
             next == refresher'[r].key
         IN /\ Reading
            /\ refresher' \in [Refreshers -> Refreshing]
            /\ OtherRefreshes(r)
            /\ refresher[r].pc = "flush"
            /\ k \in Keys
            /\ refresher'[r].writes = [refresher[r].writes EXCEPT
                 ![k] = Write(refresher[r].i, refresher[r].old, refresher[r].sum, TRUE)]
            /\ refresher'[r].ev = refresher[r].ev
            /\ refresher'[r].todo = refresher[r].todo \ {next}
            /\ \/ refresher[r].todo = {} /\ refresher'[r].pc \in {"commit", "close"}
               \/ next \in refresher[r].todo /\ refresher'[r].pc = "lock"
<1> DEFINE k == refresher[r].key
           todo == refresher[r].todo
           rest == IF r \in Relays THEN {j \in todo : \A m \in todo : j <= m} ELSE todo
           w == Write(refresher[r].i, refresher[r].old, refresher[r].sum, TRUE)
           pc(next) == IF next # None THEN "lock" ELSE IF r \in Relays THEN "commit" ELSE "close"
           done == IF r \in Relays THEN {} ELSE {k}
<1>1. PICK next \in IF todo = {} THEN {None} ELSE rest :
        refresher' = [refresher EXCEPT ![r] = Flushed(r, next)]
  BY Zenon DEF FlushRow
<1>2. Reading /\ refresher[r].pc = "flush" /\ k \in Keys /\ refresher[r] \in Refreshing
  BY RefresherTypes DEF FlushRow, RefresherOnly, Reading
<1>3. \/ next = None /\ todo = {}
      \/ next \in todo /\ next # None
  BY <1>2 DEF Refreshing
<1>4. w \in Writes
  <2>1. refresher[r].i \in Nat /\ refresher[r].old \in Rows /\ refresher[r].sum \in SUBSET Postings
    BY <1>2 DEF Refreshing
  <2> QED BY <2>1, WriteIsTyped
<1> DEFINE writes == [refresher[r].writes EXCEPT ![k] = w]
           queued == refresher[r].queued \cup refresher[r].done
<1>5. Flushed(r, next) = [refresher[r] EXCEPT
        !.pc = pc(next), !.key = next, !.todo = todo \ {next}, !.sum = {}, !.i = 0,
        !.old = Gone, !.writes = writes, !.queued = queued, !.done = done]
  BY Zenon DEF Flushed
<1>6. /\ Flushed(r, next).pc = pc(next) /\ Flushed(r, next).key = next
      /\ Flushed(r, next).ev = refresher[r].ev
      /\ Flushed(r, next).todo = todo \ {next}
      /\ Flushed(r, next).writes = writes
  <2> HIDE DEF w, pc, done, k, todo, writes, queued
  <2> QED BY <1>2, <1>5 DEF Refreshing
<1>7. Flushed(r, next) \in Refreshing
  <2>1. writes \in [Keys -> Writes \cup {None}]
    BY <1>2, <1>4 DEF Refreshing
  <2>2. pc(next) \in {"lock", "commit", "close"} /\ next \in Keys \cup {None}
    BY <1>2, <1>3 DEF Refreshing
  <2>3. Gone \in Rows /\ done \subseteq Keys
    BY <1>2 DEF Gone, Rows
  <2>4. todo \ {next} \subseteq Keys /\ queued \subseteq Keys
    BY <1>2 DEF Refreshing
  <2> DEFINE pc2 == pc(next)
             left == todo \ {next}
  <2>5. Flushed(r, next) = [refresher[r] EXCEPT
          !.pc = pc2, !.key = next, !.todo = left, !.sum = {}, !.i = 0,
          !.old = Gone, !.writes = writes, !.queued = queued, !.done = done]
    BY Zenon, <1>5
  <2>6. pc2 \in {"lock", "commit", "close"} /\ left \subseteq Keys
    BY Zenon, <2>2, <2>4
  <2> HIDE DEF w, pc, done, k, todo, writes, queued, pc2, left
  <2>7. Flushed(r, next) = [pc |-> pc2, ev |-> refresher[r].ev, key |-> next, todo |-> left,
                            sum |-> {}, i |-> 0, old |-> Gone, writes |-> writes,
                            done |-> done, queued |-> queued]
    BY <1>2, <2>5 DEF Refreshing
  <2>8. refresher[r].ev \in Postings \cup {None}
    BY <1>2 DEF Refreshing
  <2> QED BY <2>1, <2>2, <2>3, <2>4, <2>6, <2>7, <2>8 DEF Refreshing
<1>8. /\ refresher' \in [Refreshers -> Refreshing]
      /\ refresher'[r] = Flushed(r, next)
      /\ OtherRefreshes(r)
  BY <1>1, <1>7, RefresherMoves
<1>9. \/ todo = {} /\ pc(next) \in {"commit", "close"}
      \/ next \in todo /\ pc(next) = "lock"
  BY <1>3
<1> QED BY <1>2, <1>6, <1>8, <1>9

LEMMA PassClosed ==
  ASSUME TypeInv, NEW r \in Refreshers, ClosePass(r)
  PROVE  /\ Reading
         /\ refresher' \in [Refreshers -> Refreshing]
         /\ OtherRefreshes(r)
         /\ refresher[r].pc = "close"
         /\ refresher'[r].pc = "commit"
         /\ refresher'[r].ev = refresher[r].ev
         /\ refresher'[r].todo = refresher[r].todo
         /\ refresher'[r].writes = refresher[r].writes
<1> DEFINE work == [refresher[r] EXCEPT !.pc = "commit", !.done = {},
                                        !.queued = @ \cup refresher[r].done]
<1>1. /\ Reading
      /\ refresher[r].pc = "close"
      /\ refresher' = [refresher EXCEPT ![r] = work]
  BY DEF ClosePass, RefresherOnly, Reading
<1>2. /\ work \in Refreshing
      /\ work.pc = "commit" /\ work.ev = refresher[r].ev
      /\ work.todo = refresher[r].todo /\ work.writes = refresher[r].writes
  <2>1. refresher[r] \in Refreshing
    BY RefresherTypes
  <2> QED BY <2>1 DEF Refreshing
<1> HIDE DEF work
<1>3. /\ refresher' \in [Refreshers -> Refreshing]
      /\ refresher'[r] = work
      /\ OtherRefreshes(r)
  BY <1>1, <1>2, RefresherMoves
<1> QED BY <1>1, <1>2, <1>3

\* A refresh that only reads and locks keeps the types.
LEMMA RefreshReadsTypes ==
  ASSUME TypeInv, NEW r \in Refreshers, Reading, OtherRefreshes(r),
         refresher' \in [Refreshers -> Refreshing],
         refresher'[r].ev # None => event[refresher'[r].ev] # "none",
         refresher'[r].pc \in {"lock", "read", "flush"} => refresher'[r].key \in Keys
  PROVE  TypeInv'
<1>1. WorkInHand'
  BY DEF TypeInv, WorkInHand, Reading, OtherRefreshes
<1> QED BY <1>1 DEF TypeInv, TableTypes, SessionTypes, Reading

\* What the commit of a refresh does to the tables and to its session.
LEMMA RefreshCommitted ==
  ASSUME TypeInv, NEW r \in Refreshers, CommitRefresh(r)
  PROVE  /\ refresher[r].pc = "commit"
         /\ rows' = [k \in Keys |-> Written(rows[k], refresher[r].writes[k])]
         /\ event' = [p \in Postings |-> IF p = refresher[r].ev THEN "published" ELSE event[p]]
         /\ refresher' \in [Refreshers -> Refreshing]
         /\ refresher'[r] = IdleRefresher
         /\ OtherRefreshes(r)
         /\ UNCHANGED <<poster, reconciler, rebuilder, rebuilds, failures>>
<1>1. /\ refresher[r].pc = "commit"
      /\ rows' = [k \in Keys |-> Written(rows[k], refresher[r].writes[k])]
      /\ event' = [p \in Postings |-> IF p = refresher[r].ev THEN "published" ELSE event[p]]
      /\ refresher' = [refresher EXCEPT ![r] = IdleRefresher]
      /\ UNCHANGED <<poster, reconciler, rebuilder, rebuilds, failures>>
  BY DEF CommitRefresh, RefresherOnly
<1> QED BY <1>1, IdleTypes, RefresherMoves

LEMMA CommitRefreshTypes ==
  ASSUME TypeInv, NEW r \in Refreshers, CommitRefresh(r)
  PROVE  TypeInv'
<1>1. rows' \in [Keys -> Seq(Rows)]
  <2>1. ASSUME NEW k \in Keys PROVE Written(rows[k], refresher[r].writes[k]) \in Seq(Rows)
    <3>1. rows[k] \in Seq(Rows) /\ refresher[r].writes[k] \in Writes \cup {None}
      BY RefresherTypes DEF TypeInv, TableTypes, Refreshing
    <3> QED BY <3>1, WrittenIsRows
  <2> QED BY <2>1, RefreshCommitted
<1>2. /\ queue' \in [Keys -> QueueStates]
      /\ event' \in [Postings -> {"none", "queued", "published"}]
  BY DEF CommitRefresh, TypeInv, TableTypes, QueueStates
<1>3. \A p \in Postings : (event'[p] # "none") <=> (event[p] # "none")
  <2>1. refresher[r].ev # None => event[refresher[r].ev] # "none"
    BY DEF TypeInv, WorkInHand
  <2> QED BY <2>1, RefreshCommitted
<1>4. WorkInHand'
  <2>1. \A p \in Postings : event'[p] = "none" <=> event[p] = "none"
    BY <1>3
  <2>2. \A q \in Refreshers : refresher[q].ev \in Postings \cup {None}
    BY RefresherTypes DEF Refreshing
  <2>3. IdleRefresher.ev = None /\ IdleRefresher.pc = "idle"
    BY DEF IdleRefresher
  <2> QED BY <2>1, <2>2, <2>3, RefreshCommitted DEF TypeInv, WorkInHand, OtherRefreshes
<1> QED BY <1>1, <1>2, <1>4, RefreshCommitted DEF TypeInv, TableTypes, SessionTypes

LEMMA RefreshTypes ==
  ASSUME TypeInv, NEW r \in Refreshers, Start(r) \/ RefresherStep(r)
  PROVE  TypeInv'
<1>1. ASSUME NEW p \in Postings, StartDelivery(r, p) PROVE TypeInv'
  BY <1>1, DeliveryStarted, RefreshReadsTypes, LinesOfKeys
<1>2. CASE StartPass(r)
  BY <1>2, PassStarted, RefreshReadsTypes
<1>3. CASE LockAndSum(r)
  BY <1>3, LockTaken, RefreshReadsTypes DEF TypeInv, WorkInHand
<1>4. CASE ReadRow(r)
  BY <1>4, RowRead, RefreshReadsTypes DEF TypeInv, WorkInHand
<1>5. CASE FlushRow(r)
  <2>1. /\ Reading /\ OtherRefreshes(r)
        /\ refresher' \in [Refreshers -> Refreshing]
        /\ refresher'[r].ev = refresher[r].ev
        /\ refresher'[r].pc \in {"lock", "read", "flush"} => refresher'[r].key \in refresher[r].todo
    BY <1>5, RowFlushed
  <2> QED BY <2>1, RefresherTypes, RefreshReadsTypes DEF TypeInv, WorkInHand
<1>6. CASE ClosePass(r)
  BY <1>6, PassClosed, RefreshReadsTypes DEF TypeInv, WorkInHand
<1>7. CASE CommitRefresh(r)
  BY <1>7, CommitRefreshTypes
<1> QED BY <1>1, <1>2, <1>3, <1>4, <1>5, <1>6, <1>7 DEF Start, RefresherStep

\* The steps of the two repairers touch no posting and no refresh.
LEMMA RepairersTypes ==
  ASSUME TypeInv, rows' \in [Keys -> Seq(Rows)], reconciler' \in Repairs, rebuilder' \in Rebuilds,
         rebuilds' \in 0..MaxRebuilds, UNCHANGED <<queue, event, poster, refresher, failures>>
  PROVE  TypeInv'
<1>1. WorkInHand'
  BY DEF TypeInv, WorkInHand
<1> QED BY <1>1 DEF TypeInv, TableTypes, SessionTypes

LEMMA RepairTypes ==
  ASSUME TypeInv, StartReconcile \/ ReconcilerStep
  PROVE  TypeInv'
<1> USE DEF ReconcilerOnly
<1>1. /\ reconciler \in Repairs /\ IdleReconciler \in Repairs
      /\ rebuilder \in Rebuilds /\ rebuilds \in 0..MaxRebuilds
      /\ rows \in [Keys -> Seq(Rows)]
      /\ [k \in Keys |-> Ledger(k)] \in [Keys -> SUBSET Postings]
  BY IdleTypes, LedgerIsPostings DEF TypeInv, SessionTypes, TableTypes
<1>2. CASE StartReconcile
  <2>1. reconciler' = [IdleReconciler EXCEPT !.pc = "compare", !.sums = [k \in Keys |-> Ledger(k)]]
    BY <1>2 DEF StartReconcile
  <2>2. reconciler' \in Repairs
    BY <1>1, <2>1 DEF Repairs
  <2> QED BY <1>1, <1>2, <2>2, RepairersTypes DEF StartReconcile
<1>3. CASE Compare
  <2>1. reconciler' \in Repairs
    BY <1>1, <1>3 DEF Compare, Repairs
  <2> QED BY <1>1, <1>3, <2>1, RepairersTypes DEF Compare
<1>4. CASE IssueDelete
  <2>1. reconciler' \in Repairs
    BY <1>1, <1>4, RowsOfKeys DEF IssueDelete, Repairs, TypeInv
  <2> QED BY <1>1, <1>4, <2>1, RepairersTypes DEF IssueDelete
<1>5. CASE DeleteRows
  <2>1. Needs(Reconciler) = reconciler.targets \cap AllRows
    BY <1>5 DEF DeleteRows, Needs
  <2>2. reconciler' \in Repairs
    BY <1>1, <1>5, <2>1, RowsOfKeys DEF DeleteRows, Repairs, TypeInv
  <2> QED BY <1>1, <1>5, <2>2, RepairersTypes DEF DeleteRows
<1>6. CASE Aggregate
  <2>1. reconciler' \in Repairs
    BY <1>1, <1>6 DEF Aggregate, Repairs
  <2> QED BY <1>1, <1>6, <2>1, RepairersTypes DEF Aggregate
<1>7. CASE CommitRepair
  <2> DEFINE row(k, i) == IF RowLock(k, i) \in reconciler.victims THEN Gone ELSE rows[k][i]
             kept(k) == [i \in DOMAIN rows[k] |-> row(k, i)]
             repaired(k) == IF reconciler.sums[k] = {} THEN kept(k)
                            ELSE Append(kept(k), Row(reconciler.sums[k]))
  <2>1. ASSUME NEW k \in Keys PROVE repaired(k) \in Seq(Rows)
    <3>1. /\ rows[k] \in Seq(Rows) /\ Len(rows[k]) \in Nat /\ DOMAIN rows[k] = 1..Len(rows[k])
          /\ \A i \in DOMAIN rows[k] : rows[k][i] \in Rows
      BY <1>1, LenProperties, ElementOfSeq
    <3>2. \A i \in DOMAIN rows[k] : row(k, i) \in Rows
      BY <3>1 DEF Rows, Gone
    <3>3. kept(k) \in Seq(Rows)
      <4> HIDE DEF row
      <4>1. kept(k) \in [1..Len(rows[k]) -> Rows]
        BY <3>1, <3>2
      <4> QED BY <3>1, <4>1, SeqDef
    <3>4. Row(reconciler.sums[k]) \in Rows
      BY <1>1 DEF Repairs, Row, Rows
    <3> HIDE DEF kept
    <3> QED BY <3>3, <3>4, AppendProperties
  <2>2. rows' = [k \in Keys |-> repaired(k)]
    BY <1>7 DEF CommitRepair
  <2> HIDE DEF repaired
  <2>3. rows' \in [Keys -> Seq(Rows)]
    BY <2>1, <2>2
  <2> QED BY <1>1, <1>7, <2>3, RepairersTypes DEF CommitRepair
<1> QED BY <1>2, <1>3, <1>4, <1>5, <1>6, <1>7 DEF ReconcilerStep

LEMMA RebuildTypes ==
  ASSUME TypeInv, StartRebuild \/ RebuilderStep
  PROVE  TypeInv'
<1> USE DEF RebuilderOnly
<1>1. /\ rebuilder \in Rebuilds /\ IdleRebuilder \in Rebuilds
      /\ reconciler \in Repairs /\ rebuilds \in 0..MaxRebuilds
      /\ rows \in [Keys -> Seq(Rows)]
      /\ [k \in Keys |-> Ledger(k)] \in [Keys -> SUBSET Postings]
  BY IdleTypes, LedgerIsPostings DEF TypeInv, SessionTypes, TableTypes
<1>2. CASE StartRebuild
  <2>1. rebuilds' \in 0..MaxRebuilds
    BY <1>1, <1>2 DEF StartRebuild
  <2>2. rebuilder' = [IdleRebuilder EXCEPT !.pc = "read", !.sums = [k \in Keys |-> Ledger(k)]]
    BY <1>2 DEF StartRebuild
  <2>3. rebuilder' \in Rebuilds
    BY <1>1, <2>2 DEF Rebuilds
  <2> QED BY <1>1, <1>2, <2>1, <2>3, RepairersTypes DEF StartRebuild
<1>3. CASE ReadRows
  <2> DEFINE write(found, k) == IF rebuilder.sums[k] = {} THEN None
               ELSE Write(found[k], Read(k, found[k]), rebuilder.sums[k], FALSE)
             writes(found) == [k \in Keys |-> write(found, k)]
  <2>1. PICK found \in [Keys -> UNION {Live(k) : k \in Keys} \cup {0}] :
          /\ \A k \in Keys : Reads(k, found[k])
          /\ rebuilder' = [rebuilder EXCEPT !.pc = "flush", !.sums = NoSums,
                                            !.writes = writes(found)]
    BY <1>3, Zenon DEF ReadRows
  <2>2. ASSUME NEW k \in Keys PROVE write(found, k) \in Writes \cup {None}
    <3>1. found[k] \in Live(k) \cup {0}
      BY <2>1 DEF Reads
    <3>2. Read(k, found[k]) \in Rows /\ found[k] \in Nat
      BY <3>1, ReadIsRow DEF TypeInv
    <3>3. rebuilder.sums[k] \in SUBSET Postings
      BY <1>1 DEF Rebuilds
    <3> QED BY <3>2, <3>3, WriteIsTyped
  <2> HIDE DEF write
  <2>3. writes(found) \in [Keys -> Writes \cup {None}]
    BY <2>2
  <2> HIDE DEF writes
  <2>4. NoSums \in [Keys -> SUBSET Postings]
    BY DEF NoSums
  <2>5. rebuilder' \in Rebuilds
    BY <1>1, <2>1, <2>3, <2>4 DEF Rebuilds
  <2> QED BY <1>1, <1>3, <2>5, RepairersTypes DEF ReadRows
<1>4. CASE FlushRebuild
  <2>1. RebuildRows \in [Keys -> Writes \cup {None}]
    BY <1>1 DEF RebuildRows, Rebuilds
  <2>2. rebuilder' \in Rebuilds
    BY <1>1, <1>4, <2>1 DEF FlushRebuild, Rebuilds
  <2> QED BY <1>1, <1>4, <2>2, RepairersTypes DEF FlushRebuild
<1>5. CASE CommitRebuild
  <2>1. ASSUME NEW k \in Keys PROVE Written(rows[k], rebuilder.writes[k]) \in Seq(Rows)
    <3>1. rows[k] \in Seq(Rows) /\ rebuilder.writes[k] \in Writes \cup {None}
      BY <1>1 DEF Rebuilds
    <3> QED BY <3>1, WrittenIsRows
  <2>2. rows' \in [Keys -> Seq(Rows)]
    BY <1>5, <2>1 DEF CommitRebuild
  <2> QED BY <1>1, <1>5, <2>2, RepairersTypes DEF CommitRebuild
<1> QED BY <1>2, <1>3, <1>4, <1>5 DEF RebuilderStep

\* A rollback returns one session to rest, and no table changes.
LEMMA RolledBack ==
  ASSUME NEW s, RollBack(s)
  PROVE  /\ UNCHANGED <<rows, queue, event, rebuilds>>
         /\ poster' = IF s \in Postings THEN [poster EXCEPT ![s] = IdlePoster] ELSE poster
         /\ refresher' = IF s \in Refreshers THEN [refresher EXCEPT ![s] = IdleRefresher]
                                             ELSE refresher
         /\ reconciler' \in {reconciler, IdleReconciler}
         /\ rebuilder' \in {rebuilder, IdleRebuilder}
BY DEF RollBack

LEMMA RollBackTypes ==
  ASSUME TypeInv, NEW s \in Sessions, Refused(s) \/ Fail(s)
  PROVE  TypeInv'
<1>1. RollBack(s) /\ failures' \in 0..MaxFailures
  BY DEF Refused, Fail, TypeInv
<1>2. /\ IdlePoster.pc = "idle" /\ IdlePoster.todo = {}
      /\ IdleRefresher.pc = "idle" /\ IdleRefresher.ev = None
  BY DEF IdlePoster, IdleRefresher
<1>3. SessionTypes'
  BY <1>1, IdleTypes, RolledBack DEF TypeInv, SessionTypes
<1>4. /\ \A p \in Postings : poster'[p] \in {poster[p], IdlePoster}
      /\ \A r \in Refreshers : refresher'[r] \in {refresher[r], IdleRefresher}
  BY <1>1, RolledBack DEF TypeInv, SessionTypes
<1>5. WorkInHand'
  BY <1>1, <1>2, <1>4, RolledBack DEF TypeInv, WorkInHand
<1> QED BY <1>1, <1>3, <1>5, RolledBack DEF TypeInv, TableTypes

LEMMA TypesHold ==
  ASSUME TypeInv, [Next]_vars
  PROVE  TypeInv'
<1>1. ASSUME NEW p \in Postings, NEW k \in Keys, BeginPosting(p, k) PROVE TypeInv'
  BY <1>1, BeginPostingTypes
<1>2. ASSUME NEW p \in Postings, PosterStep(p) PROVE TypeInv'
  BY <1>2, MarkStaleTypes, SelectEntryTypes, WriteEntryTypes, CommitPostingTypes DEF PosterStep
<1>3. ASSUME NEW r \in Refreshers, Start(r) \/ RefresherStep(r) PROVE TypeInv'
  BY <1>3, RefreshTypes
<1>4. CASE StartReconcile \/ ReconcilerStep
  BY <1>4, RepairTypes
<1>5. CASE StartRebuild \/ RebuilderStep
  BY <1>5, RebuildTypes
<1>6. ASSUME NEW s \in Sessions, Refused(s) \/ Fail(s) PROVE TypeInv'
  BY <1>6, RollBackTypes
<1>7. CASE UNCHANGED vars
  BY <1>7 DEF vars, TypeInv, TableTypes, SessionTypes, WorkInHand
<1> QED BY <1>1, <1>2, <1>3, <1>4, <1>5, <1>6, <1>7 DEF Next

LEMMA TypesInitially == Init => TypeInv
<1> SUFFICES ASSUME Init PROVE TypeInv
  OBVIOUS
<1>1. rows \in [Keys -> Seq(Rows)]
  BY EmptySeq DEF Init
<1>2. /\ IdlePoster.pc = "idle" /\ IdlePoster.todo = {}
      /\ IdleRefresher.pc = "idle" /\ IdleRefresher.ev = None
  BY DEF IdlePoster, IdleRefresher
<1> QED BY <1>1, <1>2, IdleTypes
       DEF Init, TypeInv, TableTypes, SessionTypes, WorkInHand, QueueStates

\* Every table cell and session field stays in its range, and a posting under
\* way has no event yet.
THEOREM TypeCorrect == Spec => []TypeOK
<1>1. TypeInv => TypeOK
  <2> SUFFICES ASSUME TypeInv PROVE TypeOK
    OBVIOUS
  <2>1. \A k \in Keys : \A i \in DOMAIN rows[k] : rows[k][i] \in Rows
    BY ElementOfSeq, LenProperties DEF TypeInv, TableTypes
  <2>2. \A p \in Postings :
          /\ poster[p].pc \in {"idle", "mark", "select", "write", "commit"}
          /\ poster[p].pc # "idle" => event[p] = "none"
          /\ poster[p].todo \subseteq Lines[p]
    BY DEF TypeInv, SessionTypes, WorkInHand, Posters
  <2>3. \A r \in Refreshers :
          /\ refresher[r].pc \in {"idle", "lock", "read", "flush", "close", "commit"}
          /\ refresher[r].sum \subseteq Postings
          /\ refresher[r].i \in Nat
    BY DEF TypeInv, SessionTypes, Refreshing
  <2>4. /\ reconciler.pc \in {"idle", "compare", "repair", "delete", "aggregate", "commit"}
        /\ rebuilder.pc \in {"idle", "read", "flush", "commit"}
    BY DEF TypeInv, SessionTypes, Repairs, Rebuilds
  <2> QED BY <2>1, <2>2, <2>3, <2>4 DEF TypeOK, TypeInv, TableTypes, QueueStates
<1> QED BY <1>1, TypesInitially, TypesHold, PTL DEF Spec

-----------------------------------------------------------------------------
(* The discipline of the account/period lock, where neither repairer runs:  *)
(* a key has one refresh at a time, which has seen all the projection says  *)
(* of it.                                                                   *)

NoRepairers == ~Reconciling /\ MaxRebuilds = 0

RepairersIdle == reconciler.pc = "idle" /\ rebuilder.pc = "idle"

\* The refresh has the account/period lock of the key.
HoldsKey(r, k) ==
  \/ refresher[r].writes[k] # None
  \/ refresher[r].pc \in {"read", "flush"} /\ refresher[r].key = k

OneHolder == \A r, q \in Refreshers, k \in Keys : HoldsKey(r, k) /\ HoldsKey(q, k) => r = q

\* A sum taken under the lock: it has what the projection has, and no more
\* than the ledger.
Fresh(k, sum) == Projected(k) \subseteq sum /\ sum \subseteq Ledger(k)

\* The sum of the key in hand is fresh, the row found for it is the one there
\* is, and what is to be written of a key is both.
SumSafe(r, k) ==
  refresher[r].pc \in {"read", "flush"} /\ refresher[r].key = k => Fresh(k, refresher[r].sum)

RowSafe(r, k) ==
  refresher[r].pc = "flush" /\ refresher[r].key = k =>
    /\ Reads(k, refresher[r].i)
    /\ refresher[r].i # 0 => refresher[r].old.sum = rows[k][refresher[r].i].sum

WriteSafe(r, k) ==
  refresher[r].writes[k] # None =>
    LET w == refresher[r].writes[k] IN
    /\ Fresh(k, w.sum)
    /\ Reads(k, w.i)
    /\ w.i # 0 /\ ~w.writesSum => rows[k][w.i].sum = w.sum

\* What a refresh read or is to write of a key it holds the lock of is so.
KeySafe(r, k) == SumSafe(r, k) /\ RowSafe(r, k) /\ WriteSafe(r, k)

\* A delivery has each key of its posting before it, in hand, or summed with
\* the posting in it.
Delivers(r, k) ==
  \/ k \in refresher[r].todo
  \/ k = refresher[r].key /\ refresher[r].pc \in {"lock", "read", "flush"}
  \/ refresher[r].writes[k] # None /\ refresher[r].ev \in refresher[r].writes[k].sum

DeliverySafe(r) ==
  /\ refresher[r].ev # None =>
       \A k \in Lines[refresher[r].ev] :
         /\ Delivers(r, k)
         /\ refresher[r].pc \in {"read", "flush"} /\ k = refresher[r].key =>
              refresher[r].ev \in refresher[r].sum
  /\ refresher[r].pc \in {"close", "commit"} => refresher[r].todo = {}

TableSafe ==
  /\ \A k \in Keys : \A i, j \in Live(k) : i = j
  /\ \A k \in Keys : Projected(k) \subseteq Ledger(k)
  /\ PublishedIsProjected

SafeInv ==
  /\ TypeInv
  /\ RepairersIdle
  /\ OneHolder
  /\ TableSafe
  /\ \A r \in Refreshers : DeliverySafe(r) /\ \A k \in Keys : KeySafe(r, k)

\* A step leaves the rows of a key and what they sum.
SameRow(k) == /\ Live(k)' = Live(k)
              /\ \A i \in Live(k) : rows'[k][i].sum = rows[k][i].sum

LEMMA SameRowSums ==
  ASSUME NEW k \in Keys, SameRow(k)
  PROVE  Projected(k)' = Projected(k) /\ \A i : Reads(k, i)' <=> Reads(k, i)
BY DEF SameRow, Projected, Reads

LEMMA SameRowsStay == ASSUME UNCHANGED rows PROVE \A k \in Keys : SameRow(k)
BY DEF SameRow, Live

\* A refresh that does not move is as safe as it was, as long as nobody
\* changes the rows of its keys and the ledger only grows.
LEMMA KeyStays ==
  ASSUME NEW q \in Refreshers, NEW k \in Keys, KeySafe(q, k), refresher'[q] = refresher[q],
         HoldsKey(q, k) => SameRow(k), Ledger(k) \subseteq Ledger(k)'
  PROVE  KeySafe(q, k)'
<1>1. CASE ~HoldsKey(q, k)
  BY <1>1 DEF HoldsKey, KeySafe, SumSafe, RowSafe, WriteSafe
<1>2. CASE HoldsKey(q, k)
  <2>1. SameRow(k) /\ Projected(k)' = Projected(k) /\ \A i : Reads(k, i)' <=> Reads(k, i)
    BY <1>2, SameRowSums
  <2>2. \A sum : Fresh(k, sum) => Fresh(k, sum)'
    BY <2>1 DEF Fresh
  <2>3. \A i : Reads(k, i) /\ i # 0 => i \in Live(k)
    BY DEF Reads
  <2>4. \A i \in Live(k) : rows'[k][i].sum = rows[k][i].sum
    BY <2>1 DEF SameRow
  <2> QED BY <2>1, <2>2, <2>3, <2>4 DEF KeySafe, SumSafe, RowSafe, WriteSafe
<1> QED BY <1>1, <1>2

LEMMA DeliveryStays ==
  ASSUME NEW q \in Refreshers, DeliverySafe(q), refresher'[q] = refresher[q]
  PROVE  DeliverySafe(q)'
BY DEF DeliverySafe, Delivers

\* The tables are as safe as they were if no row changes its sum, and no
\* posting is published.
LEMMA TableStays ==
  ASSUME TableSafe, \A k \in Keys : SameRow(k) /\ Ledger(k) \subseteq Ledger(k)',
         \A p \in Postings : event'[p] = "published" => event[p] = "published"
  PROVE  TableSafe'
<1>1. \A k \in Keys : Projected(k)' = Projected(k) /\ Live(k)' = Live(k)
  BY SameRowSums DEF SameRow
<1> QED BY <1>1, LinesOfKeys DEF TableSafe, PublishedIsProjected

\* A refresh that reads, and is safe afterwards, keeps the others safe.
LEMMA ReadingIsSafe ==
  ASSUME SafeInv, NEW r \in Refreshers, Reading, OtherRefreshes(r), TypeInv',
         \A k \in Keys : KeySafe(r, k)', DeliverySafe(r)',
         \A k \in Keys : HoldsKey(r, k)' =>
           HoldsKey(r, k) \/ \A q \in Refreshers \ {r} : ~HoldsKey(q, k)
  PROVE  SafeInv'
<1>1. \A k \in Keys : SameRow(k) /\ Ledger(k)' = Ledger(k)
  BY SameRowsStay DEF Reading, Ledger
<1>2. TableSafe'
  BY <1>1, TableStays DEF SafeInv, Reading
<1>3. RepairersIdle'
  BY DEF SafeInv, RepairersIdle, Reading
<1>4. \A q \in Refreshers \ {r}, k \in Keys : HoldsKey(q, k)' <=> HoldsKey(q, k)
  BY DEF OtherRefreshes, HoldsKey
<1>5. OneHolder'
  BY <1>4 DEF SafeInv, OneHolder
<1>6. ASSUME NEW q \in Refreshers \ {r} PROVE DeliverySafe(q)' /\ \A k \in Keys : KeySafe(q, k)'
  BY <1>1, KeyStays, DeliveryStays DEF SafeInv, OtherRefreshes
<1> QED BY <1>2, <1>3, <1>5, <1>6 DEF SafeInv

LEMMA SafeParts ==
  ASSUME SafeInv, NEW r \in Refreshers
  PROVE  /\ TypeInv
         /\ DeliverySafe(r)
         /\ \A k \in Keys : KeySafe(r, k)
BY DEF SafeInv

LEMMA StartIsSafe ==
  ASSUME SafeInv, NEW r \in Refreshers, Start(r)
  PROVE  SafeInv'
<1>1. TypeInv'
  BY RefreshTypes DEF SafeInv
<1>2. ASSUME NEW p \in Postings, StartDelivery(r, p) PROVE SafeInv'
  <2>1. /\ Reading /\ OtherRefreshes(r)
        /\ refresher'[r].pc = "lock" /\ refresher'[r].ev = p
        /\ refresher'[r].todo = Lines[p] \ {refresher'[r].key}
        /\ refresher'[r].writes = NoWrites
    BY <1>2, DeliveryStarted DEF SafeInv
  <2>2. \A k \in Keys : ~HoldsKey(r, k)' /\ KeySafe(r, k)'
    BY <2>1 DEF HoldsKey, KeySafe, SumSafe, RowSafe, WriteSafe, NoWrites
  <2>3. DeliverySafe(r)'
    BY <2>1 DEF DeliverySafe, Delivers
  <2> QED BY <1>1, <2>1, <2>2, <2>3, ReadingIsSafe
<1>3. CASE StartPass(r)
  <2>1. /\ Reading /\ OtherRefreshes(r)
        /\ refresher'[r].pc = "lock" /\ refresher'[r].ev = None
        /\ refresher'[r].writes = NoWrites
    BY <1>3, PassStarted DEF SafeInv
  <2>2. \A k \in Keys : ~HoldsKey(r, k)' /\ KeySafe(r, k)'
    BY <2>1 DEF HoldsKey, KeySafe, SumSafe, RowSafe, WriteSafe, NoWrites
  <2>3. DeliverySafe(r)'
    BY <2>1 DEF DeliverySafe
  <2> QED BY <1>1, <2>1, <2>2, <2>3, ReadingIsSafe
<1> QED BY <1>2, <1>3 DEF Start

\* The account/period lock is granted to one refresh at a time.
LEMMA LockExcludes ==
  ASSUME TypeInv, NEW r \in Refreshers, LockAndSum(r), NEW q \in Refreshers \ {r}
  PROVE  ~HoldsKey(q, refresher[r].key)
<1> DEFINE k == refresher[r].key
<1>1. k \in Keys /\ refresher[r].pc = "lock" /\ Granted(r)
  BY RefresherTypes DEF LockAndSum
<1>2. Needs(r) = {KeyLock(k)}
  BY <1>1 DEF Needs
<1>3. KeyLock(k) \notin Holds(q)
  BY <1>1, <1>2 DEF Granted, WaitsFor, Sessions
<1>4. HoldsKey(q, k) => KeyLock(k) \in Holds(q)
  <2>1. Holds(q) = RowLocks(refresher[q].writes)
          \cup {QueueLock(j) : j \in refresher[q].queued}
          \cup {KeyLock(j) : j \in {m \in Keys : \/ refresher[q].writes[m] # None
                                                 \/ refresher[q].pc \in {"read", "flush"}
                                                      /\ m = refresher[q].key}}
    BY DEF Holds
  <2> QED BY <1>1, <2>1 DEF HoldsKey
<1> QED BY <1>3, <1>4

LEMMA LockIsSafe ==
  ASSUME SafeInv, NEW r \in Refreshers, LockAndSum(r)
  PROVE  SafeInv'
<1> DEFINE k == refresher[r].key
<1>1. /\ Reading /\ OtherRefreshes(r) /\ TypeInv'
      /\ refresher[r].pc = "lock" /\ k \in Keys
      /\ refresher'[r].pc = "read" /\ refresher'[r].sum = Ledger(k)
      /\ refresher'[r].key = k /\ refresher'[r].ev = refresher[r].ev
      /\ refresher'[r].todo = refresher[r].todo
      /\ refresher'[r].writes = refresher[r].writes
  <2>1. TypeInv'
    BY RefreshTypes DEF SafeInv, RefresherStep
  <2> QED BY <2>1, LockTaken DEF SafeInv
<1>2. UNCHANGED <<rows, event>> /\ \A j \in Keys : SameRow(j) /\ Ledger(j)' = Ledger(j)
  BY <1>1, SameRowsStay DEF Reading, Ledger
<1>3. \A j \in Keys : Projected(j)' = Projected(j) /\ \A i : Reads(j, i)' <=> Reads(j, i)
  BY <1>2, SameRowSums
<1>4. ASSUME NEW j \in Keys PROVE KeySafe(r, j)'
  <2>1. KeySafe(r, j) /\ Projected(j) \subseteq Ledger(j)
    BY DEF SafeInv, TableSafe
  <2> QED BY <1>1, <1>2, <1>3, <2>1 DEF KeySafe, SumSafe, RowSafe, WriteSafe, Fresh
<1>5. DeliverySafe(r)'
  <2>1. DeliverySafe(r) /\ (refresher[r].ev # None => event[refresher[r].ev] # "none")
    BY DEF SafeInv, TypeInv, WorkInHand
  <2>2. refresher[r].ev \in Postings \cup {None}
    BY RefresherTypes DEF SafeInv, Refreshing
  <2> QED BY <1>1, <2>1, <2>2 DEF DeliverySafe, Delivers, Ledger
<1>6. ASSUME NEW j \in Keys, HoldsKey(r, j)'
      PROVE  HoldsKey(r, j) \/ \A q \in Refreshers \ {r} : ~HoldsKey(q, j)
  <2>1. CASE j = k
    BY <2>1, LockExcludes DEF SafeInv
  <2>2. CASE j # k
    BY <1>1, <1>6, <2>2 DEF HoldsKey
  <2> QED BY <2>1, <2>2
<1> QED BY <1>1, <1>4, <1>5, <1>6, ReadingIsSafe

LEMMA ReadIsSafe ==
  ASSUME SafeInv, NEW r \in Refreshers, ReadRow(r)
  PROVE  SafeInv'
<1> DEFINE k == refresher[r].key
           i == refresher'[r].i
<1>1. /\ Reading /\ OtherRefreshes(r) /\ TypeInv'
      /\ refresher[r].pc = "read" /\ k \in Keys
      /\ refresher'[r].pc = "flush" /\ i \in Live(k) \cup {0} /\ Reads(k, i)
      /\ refresher'[r].old = Read(k, i) /\ refresher'[r].sum = refresher[r].sum
      /\ refresher'[r].key = k /\ refresher'[r].ev = refresher[r].ev
      /\ refresher'[r].todo = refresher[r].todo
      /\ refresher'[r].writes = refresher[r].writes
  <2>1. TypeInv'
    BY RefreshTypes DEF SafeInv, RefresherStep
  <2> QED BY <2>1, RowRead DEF SafeInv
<1>2. UNCHANGED <<rows, event>> /\ \A j \in Keys : SameRow(j) /\ Ledger(j)' = Ledger(j)
  BY <1>1, SameRowsStay DEF Reading, Ledger
<1>3. \A j \in Keys : Projected(j)' = Projected(j) /\ \A n : Reads(j, n)' <=> Reads(j, n)
  BY <1>2, SameRowSums
<1>4. ASSUME NEW j \in Keys PROVE KeySafe(r, j)'
  <2>1. KeySafe(r, j)
    BY DEF SafeInv
  <2>2. SumSafe(r, j)'
    BY <1>1, <1>2, <1>3, <2>1 DEF KeySafe, SumSafe, Fresh
  <2>3. RowSafe(r, j)'
    BY <1>1, <1>2, <1>3 DEF RowSafe, Read
  <2>4. WriteSafe(r, j)'
    BY <1>1, <1>2, <1>3, <2>1 DEF KeySafe, WriteSafe, Fresh
  <2> QED BY <2>2, <2>3, <2>4 DEF KeySafe
<1>5. DeliverySafe(r)'
  BY <1>1, SafeParts DEF DeliverySafe, Delivers
<1>6. \A j \in Keys : HoldsKey(r, j)' => HoldsKey(r, j)
  BY <1>1 DEF HoldsKey
<1> QED BY <1>1, <1>4, <1>5, <1>6, ReadingIsSafe

LEMMA FlushIsSafe ==
  ASSUME SafeInv, NEW r \in Refreshers, FlushRow(r)
  PROVE  SafeInv'
<1> DEFINE k == refresher[r].key
           w == Write(refresher[r].i, refresher[r].old, refresher[r].sum, TRUE)
           next == refresher'[r].key
<1>1. /\ Reading /\ OtherRefreshes(r) /\ TypeInv'
      /\ refresher[r].pc = "flush" /\ k \in Keys
      /\ refresher'[r].writes = [refresher[r].writes EXCEPT ![k] = w]
      /\ refresher'[r].ev = refresher[r].ev
      /\ refresher'[r].todo = refresher[r].todo \ {next}
      /\ \/ refresher[r].todo = {} /\ refresher'[r].pc \in {"commit", "close"}
         \/ next \in refresher[r].todo /\ refresher'[r].pc = "lock"
  <2>1. TypeInv'
    BY RefreshTypes DEF SafeInv, RefresherStep
  <2> QED BY <2>1, RowFlushed DEF SafeInv
<1>2. UNCHANGED <<rows, event>> /\ \A j \in Keys : SameRow(j) /\ Ledger(j)' = Ledger(j)
  BY <1>1, SameRowsStay DEF Reading, Ledger
<1>3. \A j \in Keys : Projected(j)' = Projected(j) /\ \A n : Reads(j, n)' <=> Reads(j, n)
  BY <1>2, SameRowSums
<1>4. /\ \A j \in Keys \ {k} : refresher'[r].writes[j] = refresher[r].writes[j]
      /\ refresher'[r].writes[k] = w
      /\ w # None => w.sum = refresher[r].sum
  BY <1>1, RefresherTypes DEF SafeInv, Refreshing, Write
<1>5. ASSUME NEW j \in Keys PROVE KeySafe(r, j)'
  <2>1. KeySafe(r, j)
    BY DEF SafeInv
  <2>2. w.i = refresher[r].i /\ (w.i # 0 /\ ~w.writesSum => refresher[r].old.sum = w.sum)
    BY DEF Write
  <2> HIDE DEF w
  <2>3. SumSafe(r, j)' /\ RowSafe(r, j)'
    BY <1>1 DEF SumSafe, RowSafe
  <2>4. CASE j = k
    <3>1. Fresh(k, refresher[r].sum) /\ Reads(k, w.i)
      BY <1>1, <2>1, <2>2, <2>4 DEF KeySafe, SumSafe, RowSafe
    <3>2. w.i # 0 /\ ~w.writesSum => rows'[k][w.i].sum = w.sum
      BY <1>1, <1>2, <2>1, <2>2, <2>4 DEF KeySafe, RowSafe
    <3>3. w # None => Projected(j)' \subseteq w.sum /\ w.sum \subseteq Ledger(j)'
      BY <1>2, <1>3, <1>4, <2>4, <3>1 DEF Fresh
    <3>4. refresher'[r].writes[j] = w /\ \A n : Reads(j, n)' <=> Reads(j, n)
      BY <1>3, <1>4, <2>4
    <3> HIDE DEF k
    <3>5. WriteSafe(r, j)'
      BY <2>4, <3>1, <3>2, <3>3, <3>4 DEF WriteSafe, Fresh
    <3> QED BY <2>3, <3>5 DEF KeySafe
  <2>5. CASE j # k
    <3>1. WriteSafe(r, j)'
      BY <1>2, <1>3, <1>4, <2>1, <2>5 DEF KeySafe, WriteSafe, Fresh
    <3> QED BY <2>3, <3>1 DEF KeySafe
  <2> QED BY <2>4, <2>5
<1>6. DeliverySafe(r)'
  <2>1. w \in Writes
    BY RefresherTypes, WriteIsTyped DEF SafeInv, Refreshing
  <2>2. refresher[r].ev # None => Lines[refresher[r].ev] \subseteq Keys
    BY RefresherTypes, LinesOfKeys DEF SafeInv, Refreshing
  <2> HIDE DEF w
  <2>3. DeliverySafe(r) /\ w # None
    BY <2>1 DEF SafeInv
  <2> QED BY <1>1, <1>4, <2>2, <2>3 DEF DeliverySafe, Delivers
<1>7. \A j \in Keys : HoldsKey(r, j)' => HoldsKey(r, j)
  BY <1>1, <1>4 DEF HoldsKey
<1> QED BY <1>1, <1>5, <1>6, <1>7, ReadingIsSafe

LEMMA CloseIsSafe ==
  ASSUME SafeInv, NEW r \in Refreshers, ClosePass(r)
  PROVE  SafeInv'
<1>1. /\ Reading /\ OtherRefreshes(r) /\ TypeInv'
      /\ refresher[r].pc = "close" /\ refresher'[r].pc = "commit"
      /\ refresher'[r].ev = refresher[r].ev
      /\ refresher'[r].todo = refresher[r].todo
      /\ refresher'[r].writes = refresher[r].writes
  BY PassClosed, RefreshReadsTypes DEF SafeInv, TypeInv, WorkInHand
<1>2. UNCHANGED <<rows, event>> /\ \A j \in Keys : SameRow(j) /\ Ledger(j)' = Ledger(j)
  BY <1>1, SameRowsStay DEF Reading, Ledger
<1>3. \A j \in Keys : Projected(j)' = Projected(j) /\ \A n : Reads(j, n)' <=> Reads(j, n)
  BY <1>2, SameRowSums
<1>4. ASSUME NEW j \in Keys PROVE KeySafe(r, j)'
  <2>1. KeySafe(r, j)
    BY DEF SafeInv
  <2> QED BY <1>1, <1>2, <1>3, <2>1 DEF KeySafe, SumSafe, RowSafe, WriteSafe, Fresh
<1>5. DeliverySafe(r)'
  BY <1>1, SafeParts DEF DeliverySafe, Delivers
<1>6. \A j \in Keys : HoldsKey(r, j)' => HoldsKey(r, j)
  BY <1>1 DEF HoldsKey
<1> QED BY <1>1, <1>4, <1>5, <1>6, ReadingIsSafe

LiveIn(s) == {i \in DOMAIN s : s[i].live}

\* A write that found the one row of the key, or none, leaves the key with one
\* row, whose sum is the one it brought.
LEMMA WriteLeavesOneRow ==
  ASSUME NEW s \in Seq(Rows), NEW w \in Writes,
         \A i, j \in LiveIn(s) : i = j,
         IF LiveIn(s) = {} THEN w.i = 0 ELSE w.i \in LiveIn(s),
         w.i # 0 /\ ~w.writesSum => s[w.i].sum = w.sum
  PROVE  \E n : LiveIn(Written(s, w)) = {n} /\ Written(s, w)[n].sum = w.sum
<1>1. /\ Len(s) \in Nat /\ DOMAIN s = 1..Len(s)
      /\ \A i \in DOMAIN s : s[i] \in Rows
  BY LenProperties, ElementOfSeq
<1>2. CASE w.i = 0
  <2>1. Row(w.sum) \in Rows /\ Row(w.sum).live /\ Row(w.sum).sum = w.sum
    BY DEF Row, Rows, Writes
  <2>2. Written(s, w) = Append(s, Row(w.sum))
    BY <1>2 DEF Written
  <2>3. /\ DOMAIN Written(s, w) = 1..(Len(s) + 1)
        /\ \A i \in 1..Len(s) : Written(s, w)[i] = s[i]
        /\ Written(s, w)[Len(s) + 1] = Row(w.sum)
    BY <2>1, <2>2, AppendProperties, LenProperties
  <2>4. LiveIn(s) = {}
    BY <1>1, <1>2 DEF LiveIn
  <2>5. LiveIn(Written(s, w)) = {Len(s) + 1}
    BY <1>1, <2>1, <2>3, <2>4 DEF LiveIn
  <2> QED BY <2>1, <2>3, <2>5
<1>3. CASE w.i # 0
  <2>1. w.i \in DOMAIN s /\ LiveIn(s) = {w.i} /\ s[w.i].live
    BY <1>3 DEF LiveIn
  <2> DEFINE row == [s[w.i] EXCEPT !.sum = IF w.writesSum THEN w.sum ELSE @,
                                   !.stale = @ /\ ~w.clearsStale]
  <2>2. Written(s, w) = [s EXCEPT ![w.i] = row]
    BY <1>3 DEF Written
  <2>3. row.live /\ row.sum = w.sum
    BY <1>1, <1>3, <2>1 DEF Rows, Writes
  <2> HIDE DEF row
  <2>4. /\ DOMAIN Written(s, w) = DOMAIN s
        /\ \A i \in DOMAIN s \ {w.i} : Written(s, w)[i] = s[i]
        /\ Written(s, w)[w.i] = row
    BY <2>1, <2>2
  <2>5. LiveIn(Written(s, w)) = {w.i}
    BY <2>1, <2>3, <2>4 DEF LiveIn
  <2> QED BY <2>3, <2>4, <2>5
<1> QED BY <1>2, <1>3

\* What the commit of a refresh does to each key.
LEMMA CommittedRows ==
  ASSUME SafeInv, NEW r \in Refreshers, CommitRefresh(r), NEW k \in Keys
  PROVE  LET w == refresher[r].writes[k] IN
         /\ w = None => SameRow(k)
         /\ w # None => /\ \A i, j \in Live(k)' : i = j
                        /\ Projected(k)' = w.sum
                        /\ Fresh(k, w.sum)
<1> DEFINE w == refresher[r].writes[k]
<1>1. /\ TypeInv /\ KeySafe(r, k) /\ \A i, j \in Live(k) : i = j
      /\ rows' = [j \in Keys |-> Written(rows[j], refresher[r].writes[j])]
      /\ rows'[k] = Written(rows[k], w)
  BY RefreshCommitted DEF SafeInv, TableSafe
<1>2. ASSUME w = None PROVE SameRow(k)
  BY <1>1, <1>2 DEF Written, SameRow, Live
<1>3. ASSUME w # None
      PROVE  /\ \A i, j \in Live(k)' : i = j
             /\ Projected(k)' = w.sum
             /\ Fresh(k, w.sum)
  <2>1. rows[k] \in Seq(Rows) /\ w \in Writes
    BY <1>1, <1>3, RefresherTypes DEF TypeInv, TableTypes, Refreshing
  <2>2. /\ Fresh(k, w.sum)
        /\ IF Live(k) = {} THEN w.i = 0 ELSE w.i \in Live(k)
        /\ w.i # 0 /\ ~w.writesSum => rows[k][w.i].sum = w.sum
    BY <1>1, <1>3 DEF KeySafe, SumSafe, RowSafe, WriteSafe, Reads
  <2>3. PICK n : LiveIn(Written(rows[k], w)) = {n} /\ Written(rows[k], w)[n].sum = w.sum
    <3>1. Live(k) = LiveIn(rows[k])
      BY DEF Live, LiveIn
    <3>2. \A i, j \in LiveIn(rows[k]) : i = j
      BY <1>1, <3>1
    <3>3. IF LiveIn(rows[k]) = {} THEN w.i = 0 ELSE w.i \in LiveIn(rows[k])
      BY <2>2, <3>1
    <3> HIDE DEF w
    <3> QED BY <2>1, <2>2, <3>2, <3>3, WriteLeavesOneRow
  <2>4. Live(k)' = {n} /\ rows'[k][n].sum = w.sum
    BY <1>1, <2>3 DEF Live, LiveIn
  <2>5. Projected(k)' = w.sum
    BY <2>4 DEF Projected
  <2> QED BY <2>2, <2>4, <2>5
<1> QED BY <1>2, <1>3

LEMMA CommitRefreshIsSafe ==
  ASSUME SafeInv, NEW r \in Refreshers, CommitRefresh(r)
  PROVE  SafeInv' /\ \A k \in Keys : Projected(k) \subseteq Projected(k)'
<1>1. /\ refresher[r].pc = "commit"
      /\ event' = [p \in Postings |-> IF p = refresher[r].ev THEN "published" ELSE event[p]]
      /\ refresher'[r] = IdleRefresher
      /\ OtherRefreshes(r)
      /\ UNCHANGED <<poster, reconciler, rebuilder, rebuilds, failures>>
  BY RefreshCommitted DEF SafeInv
<1>2. refresher[r].ev # None => event[refresher[r].ev] # "none"
  BY DEF SafeInv, TypeInv, WorkInHand
<1>3. \A k \in Keys : Ledger(k)' = Ledger(k)
  BY <1>1, <1>2 DEF Ledger
<1>4. ASSUME NEW k \in Keys
      PROVE  /\ \A i, j \in Live(k)' : i = j
             /\ Projected(k) \subseteq Projected(k)'
             /\ Projected(k)' \subseteq Ledger(k)'
  <2>1. CASE refresher[r].writes[k] = None
    <3>1. SameRow(k)
      BY <2>1, CommittedRows
    <3> QED BY <1>3, <3>1, SameRowSums DEF SafeInv, TableSafe, SameRow
  <2>2. CASE refresher[r].writes[k] # None
    <3> DEFINE w == refresher[r].writes[k]
    <3>1. /\ \A i, j \in Live(k)' : i = j
          /\ Projected(k)' = w.sum /\ Fresh(k, w.sum)
      BY <2>2, CommittedRows
    <3>2. Projected(k) \subseteq w.sum /\ w.sum \subseteq Ledger(k)
      BY <3>1 DEF Fresh
    <3> HIDE DEF w
    <3> QED BY <1>3, <3>1, <3>2
  <2> QED BY <2>1, <2>2
<1>5. PublishedIsProjected'
  <2> SUFFICES ASSUME NEW p \in Postings, event'[p] = "published", NEW k \in Lines[p]
               PROVE  p \in Projected(k)'
    BY DEF PublishedIsProjected
  <2>1. k \in Keys
    BY LinesOfKeys
  <2>2. CASE p = refresher[r].ev
    <3>1. refresher[r].writes[k] # None /\ p \in refresher[r].writes[k].sum
      BY <1>1, <2>2, SafeParts DEF DeliverySafe, Delivers
    <3> QED BY <2>1, <3>1, CommittedRows
  <2>3. CASE p # refresher[r].ev
    <3>1. event[p] = "published"
      BY <1>1, <2>3
    <3>2. p \in Projected(k)
      BY <3>1 DEF SafeInv, TableSafe, PublishedIsProjected
    <3> QED BY <1>4, <2>1, <3>2
  <2> QED BY <2>2, <2>3
<1>6. TableSafe'
  BY <1>4, <1>5 DEF TableSafe
<1>7. \A k \in Keys : ~HoldsKey(r, k)' /\ KeySafe(r, k)'
  BY <1>1 DEF IdleRefresher, NoWrites, HoldsKey, KeySafe, SumSafe, RowSafe, WriteSafe
<1>8. DeliverySafe(r)'
  BY <1>1 DEF IdleRefresher, DeliverySafe
<1>9. ASSUME NEW q \in Refreshers \ {r}
      PROVE  DeliverySafe(q)' /\ \A k \in Keys : KeySafe(q, k)'
  <2>1. refresher'[q] = refresher[q]
    BY <1>1 DEF OtherRefreshes
  <2>2. ASSUME NEW k \in Keys, HoldsKey(q, k) PROVE SameRow(k)
    <3>1. ~HoldsKey(r, k)
      BY <2>2 DEF SafeInv, OneHolder
    <3> QED BY <3>1, CommittedRows DEF HoldsKey
  <2> QED BY <1>3, <2>1, <2>2, KeyStays, DeliveryStays, SafeParts
<1>10. OneHolder'
  <2>1. \A q \in Refreshers, k \in Keys : HoldsKey(q, k)' => HoldsKey(q, k)
    BY <1>1, <1>7 DEF HoldsKey, OtherRefreshes
  <2> QED BY <2>1 DEF SafeInv, OneHolder
<1>11. RepairersIdle' /\ TypeInv'
  BY <1>1, CommitRefreshTypes DEF SafeInv, RepairersIdle
<1> QED BY <1>4, <1>6, <1>7, <1>8, <1>9, <1>10, <1>11 DEF SafeInv

\* A step that leaves the refreshes and the sums alone, while the ledger grows.
LEMMA QuietStepIsSafe ==
  ASSUME SafeInv, TypeInv', RepairersIdle', UNCHANGED refresher,
         \A k \in Keys : SameRow(k) /\ Ledger(k) \subseteq Ledger(k)',
         \A p \in Postings : event'[p] = "published" => event[p] = "published"
  PROVE  SafeInv'
<1>1. TableSafe'
  BY TableStays DEF SafeInv
<1>2. OneHolder'
  <2>1. \A q \in Refreshers, k \in Keys : HoldsKey(q, k)' <=> HoldsKey(q, k)
    BY DEF HoldsKey
  <2> QED BY <2>1 DEF SafeInv, OneHolder
<1>3. \A q \in Refreshers : DeliverySafe(q)' /\ \A k \in Keys : KeySafe(q, k)'
  BY KeyStays, DeliveryStays DEF SafeInv
<1> QED BY <1>1, <1>2, <1>3 DEF SafeInv

LEMMA CommitPostingIsSafe ==
  ASSUME SafeInv, NEW p \in Postings, CommitPosting(p)
  PROVE  SafeInv' /\ \A k \in Keys : SameRow(k)
<1>1. /\ rows' = [k \in Keys |-> [i \in DOMAIN rows[k] |->
                   [rows[k][i] EXCEPT !.stale = @ \/ RowLock(k, i) \in poster[p].marked]]]
      /\ event' = [event EXCEPT ![p] = "queued"]
      /\ UNCHANGED <<refresher, reconciler, rebuilder>>
  BY DEF CommitPosting, PosterOnly
<1>2. ASSUME NEW k \in Keys PROVE SameRow(k)
  <2>1. \A i \in DOMAIN rows[k] : rows[k][i] \in Rows
    BY ElementOfSeq, LenProperties DEF SafeInv, TypeInv, TableTypes
  <2>2. /\ DOMAIN rows'[k] = DOMAIN rows[k]
        /\ \A i \in DOMAIN rows[k] : /\ rows'[k][i].live = rows[k][i].live
                                     /\ rows'[k][i].sum = rows[k][i].sum
    BY <1>1, <2>1 DEF Rows
  <2> QED BY <2>2 DEF SameRow, Live
<1>3. event \in [Postings -> {"none", "queued", "published"}]
  BY DEF SafeInv, TypeInv, TableTypes
<1>4. /\ \A k \in Keys : Ledger(k) \subseteq Ledger(k)'
      /\ \A q \in Postings : event'[q] = "published" => event[q] = "published"
  BY <1>1, <1>3 DEF Ledger
<1>5. TypeInv' /\ RepairersIdle'
  BY <1>1, CommitPostingTypes DEF SafeInv, RepairersIdle
<1> QED BY <1>1, <1>2, <1>4, <1>5, QuietStepIsSafe

LEMMA PostingIsSafe ==
  ASSUME SafeInv, NEW p \in Postings,
         (\E k \in Keys : BeginPosting(p, k)) \/ PosterStep(p)
  PROVE  SafeInv' /\ \A k \in Keys : SameRow(k)
<1>1. CASE CommitPosting(p)
  BY <1>1, CommitPostingIsSafe
<1>2. CASE (\E k \in Keys : BeginPosting(p, k)) \/ MarkStale(p) \/ SelectEntry(p) \/ WriteEntry(p)
  <2>1. UNCHANGED <<rows, queue, event, refresher, reconciler, rebuilder>>
    BY <1>2 DEF BeginPosting, MarkStale, SelectEntry, WriteEntry, PosterOnly
  <2>2. TypeInv'
    BY <1>2, BeginPostingTypes, MarkStaleTypes, SelectEntryTypes, WriteEntryTypes DEF SafeInv
  <2>3. \A k \in Keys : SameRow(k) /\ Ledger(k)' = Ledger(k)
    BY <2>1, SameRowsStay DEF Ledger
  <2>4. RepairersIdle'
    BY <2>1 DEF SafeInv, RepairersIdle
  <2> QED BY <2>1, <2>2, <2>3, <2>4, QuietStepIsSafe
<1> QED BY <1>1, <1>2 DEF PosterStep

LEMMA RollBackIsSafe ==
  ASSUME SafeInv, NEW s \in Sessions, Refused(s) \/ Fail(s)
  PROVE  SafeInv' /\ UNCHANGED rows
<1>1. /\ RollBack(s) /\ UNCHANGED <<rows, event>>
      /\ TypeInv'
  BY RollBackTypes, RolledBack DEF SafeInv, Refused, Fail
<1>2. RepairersIdle'
  BY <1>1, RolledBack DEF SafeInv, RepairersIdle, IdleReconciler, IdleRebuilder
<1>3. \A k \in Keys : SameRow(k) /\ Ledger(k)' = Ledger(k)
  BY <1>1, SameRowsStay DEF Ledger
<1>4. TableSafe'
  BY <1>1, <1>3, TableStays DEF SafeInv
<1>5. \A q \in Refreshers : refresher'[q] \in {refresher[q], IdleRefresher}
  BY <1>1, RolledBack DEF SafeInv, TypeInv, SessionTypes
<1>6. ASSUME NEW q \in Refreshers
      PROVE  /\ DeliverySafe(q)'
             /\ \A k \in Keys : KeySafe(q, k)' /\ (HoldsKey(q, k)' => HoldsKey(q, k))
  <2>1. CASE refresher'[q] = refresher[q]
    BY <1>3, <2>1, KeyStays, DeliveryStays, SafeParts DEF HoldsKey
  <2>2. CASE refresher'[q] = IdleRefresher
    BY <2>2 DEF IdleRefresher, NoWrites, HoldsKey, KeySafe, SumSafe, RowSafe, WriteSafe, DeliverySafe
  <2> QED BY <1>5, <2>1, <2>2
<1>7. OneHolder'
  BY <1>6 DEF SafeInv, OneHolder
<1> QED BY <1>1, <1>2, <1>4, <1>6, <1>7 DEF SafeInv

\* With neither repairer configured, none is ever at work.
LEMMA NoRepairStarts ==
  ASSUME NoRepairers, SafeInv
  PROVE  ~(StartReconcile \/ ReconcilerStep \/ StartRebuild \/ RebuilderStep)
<1>1. rebuilds = 0 /\ MaxRebuilds = 0
  BY DEF NoRepairers, SafeInv, TypeInv
<1>2. ~StartRebuild /\ ~StartReconcile
  BY <1>1 DEF StartRebuild, StartReconcile, NoRepairers
<1> QED BY <1>2 DEF SafeInv, RepairersIdle, ReconcilerStep, Compare, IssueDelete, DeleteRows,
                   Aggregate, CommitRepair, RebuilderStep, ReadRows, FlushRebuild, CommitRebuild

\* No step breaks the discipline or takes a posting out of a balance.
LEMMA StepIsSafe ==
  ASSUME NoRepairers, SafeInv, [Next]_vars
  PROVE  SafeInv' /\ \A k \in Keys : Projected(k) \subseteq Projected(k)'
<1>1. ASSUME UNCHANGED rows PROVE \A k \in Keys : Projected(k)' = Projected(k)
  BY <1>1, SameRowsStay, SameRowSums
<1>2. ASSUME NEW p \in Postings, (\E k \in Keys : BeginPosting(p, k)) \/ PosterStep(p)
      PROVE  SafeInv' /\ \A k \in Keys : Projected(k) \subseteq Projected(k)'
  BY <1>2, PostingIsSafe, SameRowSums
<1>3. ASSUME NEW r \in Refreshers, Start(r) \/ RefresherStep(r)
      PROVE  SafeInv' /\ \A k \in Keys : Projected(k) \subseteq Projected(k)'
  <2>1. CASE CommitRefresh(r)
    BY <2>1, CommitRefreshIsSafe
  <2>2. CASE Start(r) \/ LockAndSum(r) \/ ReadRow(r) \/ FlushRow(r) \/ ClosePass(r)
    <3>1. UNCHANGED rows
      BY <2>2 DEF Start, StartDelivery, StartPass, LockAndSum, ReadRow, FlushRow, ClosePass
    <3>2. SafeInv'
      BY <2>2, StartIsSafe, LockIsSafe, ReadIsSafe, FlushIsSafe, CloseIsSafe
    <3> QED BY <1>1, <3>1, <3>2
  <2> QED BY <1>3, <2>1, <2>2 DEF RefresherStep
<1>4. ASSUME NEW s \in Sessions, Refused(s) \/ Fail(s)
      PROVE  SafeInv' /\ \A k \in Keys : Projected(k) \subseteq Projected(k)'
  BY <1>1, <1>4, RollBackIsSafe
<1>5. CASE UNCHANGED vars
  <2>1. TypeInv' /\ RepairersIdle' /\ UNCHANGED <<rows, event, refresher>>
    BY <1>5, TypesHold DEF SafeInv, RepairersIdle, vars
  <2>2. \A k \in Keys : SameRow(k) /\ Ledger(k)' = Ledger(k)
    BY <2>1, SameRowsStay DEF Ledger
  <2> QED BY <1>1, <2>1, <2>2, QuietStepIsSafe
<1> QED BY <1>2, <1>3, <1>4, <1>5, NoRepairStarts DEF Next

LEMMA SafeInitially == Init => SafeInv
<1> SUFFICES ASSUME Init PROVE SafeInv
  OBVIOUS
<1>1. TypeInv
  BY TypesInitially
<1>2. \A k \in Keys : Live(k) = {} /\ Projected(k) = {}
  BY EmptySeq DEF Init, Live, Projected
<1>3. TableSafe
  BY <1>2 DEF Init, TableSafe, PublishedIsProjected
<1>4. RepairersIdle
  BY DEF Init, RepairersIdle, IdleReconciler, IdleRebuilder
<1>5. ASSUME NEW r \in Refreshers
      PROVE  DeliverySafe(r) /\ \A k \in Keys : KeySafe(r, k) /\ ~HoldsKey(r, k)
  <2>1. refresher[r] = IdleRefresher
    BY DEF Init
  <2> QED BY <2>1 DEF IdleRefresher, NoWrites, DeliverySafe, KeySafe, SumSafe, RowSafe, WriteSafe, HoldsKey
<1>6. OneHolder
  BY <1>5 DEF OneHolder
<1> QED BY <1>1, <1>3, <1>4, <1>5, <1>6 DEF SafeInv

\* The account/period lock, taken before the sum and kept to the commit, makes
\* every refresh right about the rows it is going to write.
THEOREM LockDiscipline ==
  ASSUME NoRepairers
  PROVE  Spec => []SafeInv
<1>1. SafeInv /\ [Next]_vars => SafeInv'
  BY StepIsSafe
<1> QED BY <1>1, SafeInitially, PTL DEF Spec

\* Relays and queue workers, whatever their order, their deadlocks and their
\* failures, never leave two rows for a key.
THEOREM OneRowEach ==
  ASSUME NoRepairers
  PROVE  Spec => []OneRowPerKey
<1>1. SafeInv => OneRowPerKey
  <2> SUFFICES ASSUME SafeInv, NEW k \in Keys PROVE Cardinality(Live(k)) <= 1
    BY DEF OneRowPerKey
  <2>1. \A i, j \in Live(k) : i = j
    BY DEF SafeInv, TableSafe
  <2>2. CASE Live(k) = {}
    BY <2>2, FS_EmptySet
  <2>3. ASSUME NEW i \in Live(k) PROVE Cardinality(Live(k)) <= 1
    <3>1. Live(k) = {i}
      BY <2>1
    <3> QED BY <3>1, FS_Singleton
  <2> QED BY <2>2, <2>3
<1> QED BY <1>1, LockDiscipline, PTL

\* A published posting is in the balance of each of its keys.
THEOREM PublishedCounts ==
  ASSUME NoRepairers
  PROVE  Spec => []PublishedIsProjected
<1>1. SafeInv => PublishedIsProjected
  BY DEF SafeInv, TableSafe
<1> QED BY <1>1, LockDiscipline, PTL

\* No refresh that read the ledger earlier overwrites one that read it later.
THEOREM NothingRegresses ==
  ASSUME NoRepairers
  PROVE  Spec => ProjectionNeverRegresses
<1>1. SafeInv /\ [Next]_vars => [\A k \in Keys : Projected(k) \subseteq Projected(k)']_vars
  BY StepIsSafe
<1> QED BY <1>1, LockDiscipline, PTL DEF Spec, ProjectionNeverRegresses

=============================================================================
