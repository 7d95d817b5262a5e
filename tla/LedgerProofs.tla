---------------------------- MODULE LedgerProofs ----------------------------
(***************************************************************************)
(* Proofs about journals and the ledger, for any number of journals,       *)
(* requests and postings.                                                  *)
(***************************************************************************)
EXTENDS LedgerProperties, SequenceTheorems, FiniteSetTheorems, TLAPS

USE LedgerConstants

Batch == [key : Keys, journal : Journals, retired : BOOLEAN]

Requests == DOMAIN Steps \cup {"post", "reverse", None}

Work == [pc : {"idle", "loaded", "ready"}, op : Requests, j : Links, seen : Rows,
         key : Keys \cup {None}, rev : Reversals \cup {None}, found : Nat]

\* A request under way has its journal, one that posts has its key, one that
\* is ready to reverse has its reversal.
InHand(work, n) ==
  /\ work.found <= n
  /\ work.pc # "idle" => work.j \in Journals
  /\ work.pc = "loaded" /\ work.op = "post" => work.key \in Keys
  /\ work.pc = "ready" =>
       /\ work.key \in Keys
       /\ work.op = "reverse" => work.rev \in Reversals

WorkInHand == \A s \in Sessions : InHand(session[s], Len(batches))

Types ==
  /\ journal \in [Journals -> Rows]
  /\ batches \in Seq(Batch)
  /\ Len(batches) <= MaxBatches
  /\ session \in [Sessions -> Work]

TypeInv == Types /\ WorkInHand

-----------------------------------------------------------------------------
(* What the movements of a request and the writes to a journal do.         *)

LEMMA KeysInRange ==
  /\ \A j \in Journals : KeysOf[j] \subseteq Keys
  /\ \A j \in Journals, r \in Reversals : ReversalKey[<<j, r>>] \in Keys
BY DEF Keys

LEMMA StepTargets ==
  \A op \in DOMAIN Steps :
    /\ op \in {"submit", "approve", "void", "delete", "undo"}
    /\ Steps[op].to \in Statuses \ {"NONE", "REVERSED", "POSTED"}
    /\ "NONE" \notin Steps[op].from
<1>1. DOMAIN Steps = {"submit", "approve", "void", "delete", "undo"}
  BY DEF Steps
<1>2. /\ Steps["submit"] = [from |-> {"DRAFT"}, to |-> "SUBMITTED"]
      /\ Steps["approve"] = [from |-> {"SUBMITTED"}, to |-> "APPROVED"]
      /\ Steps["void"] = [from |-> {"DRAFT", "SUBMITTED", "APPROVED"}, to |-> "VOID"]
      /\ Steps["delete"] = [from |-> {"DRAFT"}, to |-> "DELETED"]
      /\ Steps["undo"] = [from |-> {"DRAFT", "SUBMITTED", "APPROVED", "REVERSED"}, to |-> "VOID"]
  BY DEF Steps, Undoable
<1> QED BY <1>1, <1>2 DEF Statuses

\* Another request is as it was.
Others(s) == \A t \in Sessions \ {s} : session'[t] = session[t]

LEMMA IdleIsWork == IdleSession \in Work
BY DEF IdleSession, Work, Requests, Links, Rows, Unwritten, Statuses

LEMMA Ending ==
  ASSUME Types, NEW s \in Sessions, End(s)
  PROVE  /\ session' \in [Sessions -> Work]
         /\ session'[s] = IdleSession
         /\ Others(s)
BY IdleIsWork DEF Types, End, Others

LEMMA Loading ==
  ASSUME Types, NEW s \in Sessions, NEW op \in Requests, NEW j \in Journals,
         NEW key \in Keys \cup {None}, Load(s, op, j, key)
  PROVE  /\ session' \in [Sessions -> Work]
         /\ session'[s] = Begun(op, j, journal[j], key)
         /\ Others(s)
<1>1. journal[j] \in Rows
  BY DEF Types
<1>2. Begun(op, j, journal[j], key) \in Work
  BY <1>1 DEF Begun, Work, Links
<1> QED BY <1>2 DEF Types, Others, Load

LEMMA Restatus ==
  ASSUME Types, NEW j \in Journals, NEW status \in Statuses,
         journal' = [journal EXCEPT ![j].status = status]
  PROVE  /\ journal' \in [Journals -> Rows]
         /\ journal'[j].status = status
         /\ \A i \in Journals \ {j} : journal'[i] = journal[i]
         /\ \A i \in Journals : /\ journal'[i].of = journal[i].of
                                /\ journal'[i].link = journal[i].link
                                /\ journal'[i].batch = journal[i].batch
<1> DEFINE row == [journal[j] EXCEPT !.status = status]
<1>1. journal[j] \in Rows
  BY DEF Types
<1>2. /\ row \in Rows /\ row.status = status
      /\ row.of = journal[j].of /\ row.link = journal[j].link /\ row.batch = journal[j].batch
  BY <1>1 DEF Rows
<1>3. journal' = [journal EXCEPT ![j] = row]
  OBVIOUS
<1> HIDE DEF row
<1> QED BY <1>2, <1>3 DEF Types

\* Posted retires the key of the batch that was found and appends one.
LEMMA Posting ==
  ASSUME Types, NEW s \in Sessions, NEW j \in Journals, session[s].key \in Keys,
         Len(batches) < MaxBatches, batches' = Posted(s, j)
  PROVE  /\ batches' \in Seq(Batch)
         /\ Len(batches') = Len(batches) + 1
         /\ \A b \in DOMAIN batches :
              /\ b \in DOMAIN batches'
              /\ batches'[b].key = batches[b].key
              /\ batches'[b].journal = batches[b].journal
              /\ batches'[b].retired = (batches[b].retired \/ b = session[s].found)
         /\ DOMAIN batches' = DOMAIN batches \cup {Len(batches) + 1}
         /\ batches'[Len(batches) + 1] = [key |-> session[s].key, journal |-> j, retired |-> FALSE]
<1> DEFINE n == Len(batches)
           old == [b \in DOMAIN batches |->
                     [batches[b] EXCEPT !.retired = @ \/ b = session[s].found]]
           new == [key |-> session[s].key, journal |-> j, retired |-> FALSE]
<1>1. n \in Nat /\ batches \in [1..n -> Batch] /\ DOMAIN batches = 1..n
  BY LenProperties DEF Types
<1>2. \A b \in 1..n :
        /\ old[b] \in Batch
        /\ old[b].key = batches[b].key
        /\ old[b].journal = batches[b].journal
        /\ old[b].retired = (batches[b].retired \/ b = session[s].found)
  BY <1>1 DEF Batch
<1>3. old \in [1..n -> Batch]
  BY <1>1, <1>2
<1>4. old \in Seq(Batch)
  BY <1>1, <1>3, SeqDef
<1>5. Len(old) = n
  BY <1>1, <1>3, <1>4, LenProperties
<1>6. new \in Batch
  BY DEF Batch
<1>7. batches' = Append(old, new)
  BY DEF Posted
<1> HIDE DEF old, new
<1>8. /\ batches' \in Seq(Batch)
      /\ Len(batches') = n + 1
      /\ \A b \in 1..n : batches'[b] = old[b]
      /\ batches'[n + 1] = new
  BY <1>4, <1>5, <1>6, <1>7, AppendProperties
<1>9. DOMAIN batches' = 1..(n + 1)
  BY <1>8, LenProperties
<1>10. DOMAIN batches' = DOMAIN batches \cup {n + 1}
  BY <1>1, <1>9
<1> QED BY <1>1, <1>2, <1>8, <1>9, <1>10 DEF new

-----------------------------------------------------------------------------
(* Every step is of one of a few kinds, by what it does to the ledger and  *)
(* by what it does to a request.                                           *)

\* A request takes up a journal.
Taken(s, op, j, key) ==
  /\ session[s].pc = "idle"
  /\ Load(s, op, j, key)
  /\ UNCHANGED <<journal, batches>>
  /\ key \in Keys \cup {None}
  /\ op = "post" => key \in KeysOf[j]
  /\ op = "reverse" => j \in Reversible
  /\ j \in Reversals => journal[j].status # "NONE"

\* A status is written that neither posts nor reverses, on a journal written
\* now or in hand.
Restated(j, status) ==
  /\ j \in Originals \/ \E s \in Sessions : session[s].pc # "idle" /\ session[s].j = j
  /\ status \notin {"NONE", "POSTED", "REVERSED"}
  /\ journal' = [journal EXCEPT ![j].status = status]
  /\ UNCHANGED batches

Posts(s) == CommitPost(s) \/ CommitReverse(s) \/ ReplayReverse(s)

LEMMA RequestsMove ==
  ASSUME TypeInv, [Next]_vars
  PROVE  \/ UNCHANGED session
         \/ \E s \in Sessions : End(s)
         \/ \E s \in Sessions, op \in Requests, j \in Journals, key \in Keys \cup {None} :
              Taken(s, op, j, key)
         \/ \E s \in Sessions : FindBatch(s)
         \/ \E s \in Sessions, r \in Reversals : LinkReversal(s, r)
<1>1. ASSUME NEW j \in Originals, CreateJournal(j) PROVE UNCHANGED session
  BY <1>1 DEF CreateJournal
<1>2. ASSUME NEW s \in Sessions, NEW j \in Journals, NEW op \in DOMAIN Steps, BeginStep(s, op, j)
      PROVE  op \in Requests /\ Taken(s, op, j, None)
  <2>1. /\ op \in Requests
        /\ op \notin {"post", "reverse"}
        /\ journal[j].status # "NONE"
    BY <1>2, StepTargets DEF BeginStep, Requests
  <2> QED BY <1>2, <2>1 DEF BeginStep, Taken
<1>3. ASSUME NEW s \in Sessions, NEW j \in Journals, NEW k \in KeysOf[j], BeginPost(s, j, k)
      PROVE  k \in Keys \cup {None} /\ Taken(s, "post", j, k)
  BY <1>3, KeysInRange DEF BeginPost, Taken, Journals
<1>4. ASSUME NEW s \in Sessions, NEW j \in Journals, BeginReverse(s, j)
      PROVE  Taken(s, "reverse", j, None)
  BY <1>4 DEF BeginReverse, Taken
<1>5. ASSUME NEW s \in Sessions,
             \/ WriteStep(s) \/ ReplayPost(s) \/ CommitPost(s) \/ RevertUnpostedJournal(s)
             \/ CommitReverse(s) \/ ReplayReverse(s) \/ RollBack(s)
      PROVE  End(s)
  BY <1>5 DEF WriteStep, ReplayPost, CommitPost, RevertUnpostedJournal, CommitReverse,
              ReplayReverse, RollBack
<1>6. "post" \in Requests /\ "reverse" \in Requests
  BY DEF Requests
<1>7. CASE UNCHANGED vars
  BY <1>7 DEF vars
<1> QED BY <1>1, <1>2, <1>3, <1>4, <1>5, <1>6, <1>7 DEF Next

LEMMA LedgerMoves ==
  ASSUME TypeInv, [Next]_vars
  PROVE  \/ UNCHANGED <<journal, batches>>
         \/ \E j \in Journals, status \in Statuses : Restated(j, status)
         \/ \E s \in Sessions : Posts(s)
<1>1. ASSUME NEW j \in Originals, CreateJournal(j) PROVE j \in Journals /\ Restated(j, "DRAFT")
  BY <1>1 DEF CreateJournal, Restated, Journals
<1>2. ASSUME NEW s \in Sessions, WriteStep(s)
      PROVE  /\ session[s].j \in Journals
             /\ \E status \in Statuses : Restated(session[s].j, status)
  <2>1. session[s].j \in Journals
    BY <1>2 DEF TypeInv, WorkInHand, InHand, WriteStep
  <2>2. Restated(session[s].j, Steps[session[s].op].to)
    BY <1>2, StepTargets DEF WriteStep, Restated
  <2> QED BY <1>2, <2>1, <2>2, StepTargets DEF WriteStep
<1>3. ASSUME NEW s \in Sessions, ReplayPost(s)
      PROVE  \/ UNCHANGED <<journal, batches>>
             \/ session[s].j \in Journals /\ Restated(session[s].j, "APPROVED")
  BY <1>3 DEF TypeInv, WorkInHand, InHand, ReplayPost, Restated
<1>4. ASSUME NEW s \in Sessions, RevertUnpostedJournal(s)
      PROVE  session[s].j \in Journals /\ Restated(session[s].j, "DRAFT")
  BY <1>4 DEF TypeInv, WorkInHand, InHand, RevertUnpostedJournal, Restated
<1>5. ASSUME NEW s \in Sessions,
             \/ \E j \in Journals : \/ \E op \in DOMAIN Steps : BeginStep(s, op, j)
                                    \/ \E k \in KeysOf[j] : BeginPost(s, j, k)
                                    \/ BeginReverse(s, j)
             \/ FindBatch(s)
             \/ \E r \in Reversals : LinkReversal(s, r)
             \/ RollBack(s)
      PROVE  UNCHANGED <<journal, batches>>
  BY <1>5 DEF BeginStep, BeginPost, BeginReverse, FindBatch, LinkReversal, RollBack
<1>6. "DRAFT" \in Statuses /\ "APPROVED" \in Statuses
  BY DEF Statuses
<1>7. CASE UNCHANGED vars
  BY <1>7 DEF vars
<1> QED BY <1>1, <1>2, <1>3, <1>4, <1>5, <1>6, <1>7 DEF Next, Posts

LEMMA PostedRow ==
  ASSUME TypeInv, NEW s \in Sessions, CommitPost(s)
  PROVE  LET j == session[s].j IN
         /\ j \in Journals
         /\ journal' \in [Journals -> Rows]
         /\ journal'[j].status = "POSTED"
         /\ journal'[j].of = journal[j].of
         /\ journal'[j].link = journal[j].link
         /\ journal'[j].batch = Len(batches) + 1
         /\ \A i \in Journals \ {j} : journal'[i] = journal[i]
<1> DEFINE j == session[s].j
           row == [journal[j] EXCEPT !.status = "POSTED", !.batch = Len(batches) + 1]
<1>1. /\ j \in Journals
      /\ journal[j] \in Rows
      /\ Len(batches) + 1 \in 0..MaxBatches
  BY LenProperties DEF CommitPost, TypeInv, Types, WorkInHand, InHand
<1>2. /\ row \in Rows
      /\ row.status = "POSTED"
      /\ row.of = journal[j].of
      /\ row.link = journal[j].link
      /\ row.batch = Len(batches) + 1
  BY <1>1 DEF Rows, Statuses
<1>3. journal' = [journal EXCEPT ![j] = row]
  BY DEF CommitPost
<1> HIDE DEF row
<1> QED BY <1>1, <1>2, <1>3 DEF TypeInv, Types

LEMMA ReversingRows ==
  ASSUME Types, NEW s \in Sessions, session[s].j \in Journals, session[s].rev \in Reversals,
         NEW status \in Statuses, NEW batch \in 0..MaxBatches, Reversing(s, status, batch)
  PROVE  LET j == session[s].j
             r == session[s].rev
         IN /\ journal' \in [Journals -> Rows]
            /\ journal'[r] = [status |-> status, of |-> j, link |-> None, batch |-> batch]
            /\ r # j => /\ journal'[j].status = "REVERSED"
                        /\ journal'[j].of = journal[j].of
                        /\ journal'[j].link = r
                        /\ journal'[j].batch = journal[j].batch
            /\ \A i \in Journals \ {j, r} : journal'[i] = journal[i]
<1> DEFINE j == session[s].j
           r == session[s].rev
           new == [status |-> status, of |-> j, link |-> None, batch |-> batch]
           old == [journal[j] EXCEPT !.status = "REVERSED", !.link = r]
<1>1. r \in Journals /\ journal[j] \in Rows
  BY DEF Types, Journals
<1>2. new \in Rows
  BY DEF Rows, Links
<1>3. /\ old \in Rows
      /\ old.status = "REVERSED"
      /\ old.of = journal[j].of
      /\ old.link = r
      /\ old.batch = journal[j].batch
  BY <1>1 DEF Rows, Statuses, Links
<1>4. journal' = [[journal EXCEPT ![j] = old] EXCEPT ![r] = new]
  BY DEF Reversing
<1> HIDE DEF old, new
<1>5. journal' \in [Journals -> Rows]
  BY <1>1, <1>2, <1>3, <1>4 DEF Types
<1>6. journal'[r] = new
  BY <1>1, <1>4 DEF Types
<1>7. r # j => journal'[j] = old
  BY <1>1, <1>4 DEF Types
<1>8. \A i \in Journals \ {j, r} : journal'[i] = journal[i]
  BY <1>1, <1>4 DEF Types
<1> QED BY <1>3, <1>5, <1>6, <1>7, <1>8 DEF new

\* Ready to reverse, with the batch the reversal is about to get.
LEMMA ReversalInHand ==
  ASSUME TypeInv, NEW s \in Sessions, CommitReverse(s) \/ ReplayReverse(s)
  PROVE  /\ session[s].j \in Journals
         /\ session[s].rev \in Reversals
         /\ \/ /\ CommitReverse(s)
               /\ Reversing(s, "POSTED", Len(batches) + 1)
               /\ "POSTED" \in Statuses
               /\ Len(batches) + 1 \in 0..MaxBatches
            \/ /\ ReplayReverse(s)
               /\ Reversing(s, "APPROVED", 0)
               /\ "APPROVED" \in Statuses
               /\ 0 \in 0..MaxBatches
<1>1. session[s].pc = "ready" /\ session[s].op = "reverse"
  BY DEF CommitReverse, ReplayReverse
<1>2. Len(batches) \in Nat
  BY LenProperties DEF TypeInv, Types
<1> QED BY <1>1, <1>2 DEF TypeInv, WorkInHand, InHand, CommitReverse, ReplayReverse, Statuses

\* What a request holds once its lookup is done.
Ready(s, found, key, rev) ==
  [session[s] EXCEPT !.pc = "ready", !.found = found, !.key = key, !.rev = rev]

MovesToReady(s, found, key, rev) == session' = [session EXCEPT ![s] = Ready(s, found, key, rev)]

LEMMA MovingToReady ==
  ASSUME Types, NEW s \in Sessions, NEW found \in Nat, NEW key \in Keys \cup {None},
         NEW rev \in Reversals \cup {None},
         MovesToReady(s, found, key, rev)
  PROVE  /\ session' \in [Sessions -> Work]
         /\ session'[s].pc = "ready"
         /\ session'[s].op = session[s].op
         /\ session'[s].j = session[s].j
         /\ session'[s].seen = session[s].seen
         /\ session'[s].found = found
         /\ session'[s].key = key
         /\ session'[s].rev = rev
         /\ Others(s)
<1> DEFINE work == Ready(s, found, key, rev)
<1>1. session[s] \in Work
  BY DEF Types
<1>2. /\ work \in Work
      /\ work.pc = "ready" /\ work.op = session[s].op /\ work.j = session[s].j
      /\ work.seen = session[s].seen
      /\ work.found = found /\ work.key = key /\ work.rev = rev
  BY <1>1 DEF Work, Ready
<1>3. session' = [session EXCEPT ![s] = work]
  BY DEF MovesToReady
<1> HIDE DEF work
<1> QED BY <1>2, <1>3 DEF Types, Others

\* The batch a lookup finds is one whose posting is reversed.
LEMMA BatchFound ==
  ASSUME TypeInv, NEW s \in Sessions, FindBatch(s)
  PROVE  /\ session' \in [Sessions -> Work]
         /\ session[s].pc = "loaded" /\ session[s].op = "post" /\ session[s].key \in Keys
         /\ session'[s].pc = "ready"
         /\ session'[s].op = session[s].op
         /\ session'[s].j = session[s].j
         /\ session'[s].seen = session[s].seen
         /\ session'[s].key = session[s].key
         /\ session'[s].found # 0 => /\ session'[s].found \in DOMAIN batches
                                     /\ BatchPostingReversed(session'[s].found)
         /\ Others(s)
<1>1. PICK b \in IF Superseded(session[s].key) = {} THEN {0} ELSE Superseded(session[s].key) :
        session' = [session EXCEPT ![s].pc = "ready", ![s].found = b]
  BY DEF FindBatch
<1>2. b # 0 => b \in DOMAIN batches /\ BatchPostingReversed(b)
  BY DEF Superseded
<1>3. b \in Nat
  BY <1>2, LenProperties DEF TypeInv, Types
<1>4. /\ session[s].pc = "loaded" /\ session[s].op = "post" /\ session[s].key \in Keys
      /\ session[s].rev \in Reversals \cup {None}
      /\ session[s] \in Work
  BY DEF FindBatch, TypeInv, Types, WorkInHand, InHand, Work
<1>5. MovesToReady(s, b, session[s].key, session[s].rev)
  <2>1. [session[s] EXCEPT !.pc = "ready", !.found = b]
          = Ready(s, b, session[s].key, session[s].rev)
    BY <1>4 DEF Work, Ready
  <2>2. session' = [session EXCEPT ![s] = [session[s] EXCEPT !.pc = "ready", !.found = b]]
    BY <1>1
  <2> QED BY <2>1, <2>2 DEF MovesToReady
<1>6. session[s].key \in Keys \cup {None}
  BY <1>4
<1>7. /\ session' \in [Sessions -> Work]
      /\ session'[s].pc = "ready"
      /\ session'[s].op = session[s].op
      /\ session'[s].j = session[s].j
      /\ session'[s].seen = session[s].seen
      /\ session'[s].found = b
      /\ session'[s].key = session[s].key
      /\ Others(s)
  BY <1>3, <1>4, <1>5, <1>6, MovingToReady DEF TypeInv
<1> QED BY <1>2, <1>4, <1>7

LEMMA ReversalLinked ==
  ASSUME TypeInv, NEW s \in Sessions, NEW r \in Reversals, LinkReversal(s, r)
  PROVE  /\ session' \in [Sessions -> Work]
         /\ session[s].pc = "loaded" /\ session[s].op = "reverse" /\ session[s].j \in Journals
         /\ \A t \in Sessions : ~(session[t].op = "reverse" /\ session[t].pc = "ready")
         /\ journal[r].status = "NONE"
         /\ UNCHANGED <<journal, batches>>
         /\ session'[s].pc = "ready"
         /\ session'[s].op = session[s].op
         /\ session'[s].j = session[s].j
         /\ session'[s].key = ReversalKey[<<session[s].j, r>>]
         /\ session'[s].key \in Keys
         /\ session'[s].rev = r
         /\ session'[s].found # 0 => /\ session'[s].found \in DOMAIN batches
                                     /\ BatchPostingReversed(session'[s].found)
         /\ Others(s)
<1> DEFINE k == ReversalKey[<<session[s].j, r>>]
<1>1. PICK b \in IF Superseded(k) = {} THEN {0} ELSE Superseded(k) :
        session' = [session EXCEPT ![s].pc = "ready", ![s].found = b, ![s].key = k, ![s].rev = r]
  BY DEF LinkReversal
<1>2. b # 0 => b \in DOMAIN batches /\ BatchPostingReversed(b)
  BY DEF Superseded
<1>3. b \in Nat
  BY <1>2, LenProperties DEF TypeInv, Types
<1>4. /\ session[s].pc = "loaded" /\ session[s].op = "reverse" /\ session[s].j \in Journals
      /\ \A t \in Sessions : ~(session[t].op = "reverse" /\ session[t].pc = "ready")
      /\ journal[r].status = "NONE"
      /\ UNCHANGED <<journal, batches>>
  BY DEF LinkReversal, TypeInv, WorkInHand, InHand
<1>5. k \in Keys
  BY <1>4, KeysInRange
<1>6. MovesToReady(s, b, k, r)
  BY <1>1 DEF Ready, MovesToReady
<1> HIDE DEF k
<1>7. k \in Keys \cup {None} /\ r \in Reversals \cup {None}
  BY <1>5
<1>8. /\ session' \in [Sessions -> Work]
      /\ session'[s].pc = "ready"
      /\ session'[s].op = session[s].op
      /\ session'[s].j = session[s].j
      /\ session'[s].found = b
      /\ session'[s].key = k
      /\ Others(s)
      /\ session'[s].rev = r
  BY <1>3, <1>6, <1>7, MovingToReady DEF TypeInv
<1> QED BY <1>2, <1>4, <1>5, <1>8 DEF k

-----------------------------------------------------------------------------
(* The types.                                                              *)

LEMMA PostsBatches ==
  ASSUME TypeInv, NEW s \in Sessions, CommitPost(s) \/ CommitReverse(s)
  PROVE  LET j == IF session[s].op = "post" THEN session[s].j ELSE session[s].rev IN
         /\ j \in Journals
         /\ batches' \in Seq(Batch)
         /\ Len(batches') = Len(batches) + 1
         /\ Len(batches') <= MaxBatches
         /\ \A b \in DOMAIN batches :
              /\ b \in DOMAIN batches'
              /\ batches'[b].key = batches[b].key
              /\ batches'[b].journal = batches[b].journal
              /\ batches'[b].retired = (batches[b].retired \/ b = session[s].found)
         /\ DOMAIN batches' = DOMAIN batches \cup {Len(batches) + 1}
         /\ batches'[Len(batches) + 1] = [key |-> session[s].key, journal |-> j, retired |-> FALSE]
<1> DEFINE j == IF session[s].op = "post" THEN session[s].j ELSE session[s].rev
<1>1. /\ Len(batches) \in Nat
      /\ Len(batches) < MaxBatches
      /\ session[s].key \in Keys
  BY LenProperties DEF CommitPost, CommitReverse, TypeInv, Types, WorkInHand, InHand
<1>2. j \in Journals
  BY DEF CommitPost, CommitReverse, TypeInv, WorkInHand, InHand, Journals
<1>3. batches' = Posted(s, j)
  BY DEF CommitPost, CommitReverse
<1> HIDE DEF j
<1>4. /\ batches' \in Seq(Batch)
      /\ Len(batches') = Len(batches) + 1
      /\ \A b \in DOMAIN batches :
           /\ b \in DOMAIN batches'
           /\ batches'[b].key = batches[b].key
           /\ batches'[b].journal = batches[b].journal
           /\ batches'[b].retired = (batches[b].retired \/ b = session[s].found)
      /\ DOMAIN batches' = DOMAIN batches \cup {Len(batches) + 1}
      /\ batches'[Len(batches) + 1] = [key |-> session[s].key, journal |-> j, retired |-> FALSE]
  BY <1>1, <1>2, <1>3, Posting DEF TypeInv
<1> QED BY <1>1, <1>2, <1>4 DEF j

LEMMA TypeStep ==
  ASSUME TypeInv, [Next]_vars
  PROVE  TypeInv'
<1>1. Len(batches) \in Nat /\ Len(batches) <= MaxBatches
  BY LenProperties DEF TypeInv, Types
<1>2. journal' \in [Journals -> Rows]
  <2>1. ASSUME NEW j \in Journals, NEW status \in Statuses, Restated(j, status)
        PROVE  journal' \in [Journals -> Rows]
    BY <2>1, Restatus DEF Restated, TypeInv
  <2>2. ASSUME NEW s \in Sessions, Posts(s)
        PROVE  journal' \in [Journals -> Rows]
    <3>1. CASE CommitPost(s)
      BY <3>1, PostedRow
    <3>2. CASE CommitReverse(s) \/ ReplayReverse(s)
      BY <3>2, ReversalInHand, ReversingRows DEF TypeInv
    <3> QED BY <2>2, <3>1, <3>2 DEF Posts
  <2> QED BY <2>1, <2>2, LedgerMoves DEF TypeInv, Types
<1>3. /\ batches' \in Seq(Batch)
      /\ Len(batches') <= MaxBatches
      /\ Len(batches) <= Len(batches')
  <2>1. ASSUME NEW s \in Sessions, Posts(s)
        PROVE  \/ UNCHANGED batches
               \/ /\ batches' \in Seq(Batch)
                  /\ Len(batches') <= MaxBatches
                  /\ Len(batches) <= Len(batches')
    <3>1. CASE CommitPost(s) \/ CommitReverse(s)
      <4>1. /\ batches' \in Seq(Batch)
            /\ Len(batches') = Len(batches) + 1
            /\ Len(batches') <= MaxBatches
        BY <3>1, PostsBatches
      <4> QED BY <1>1, <4>1
    <3>2. CASE ReplayReverse(s)
      BY <3>2 DEF ReplayReverse
    <3> QED BY <2>1, <3>1, <3>2 DEF Posts
  <2>2. UNCHANGED batches => /\ batches' \in Seq(Batch)
                             /\ Len(batches') <= MaxBatches
                             /\ Len(batches) <= Len(batches')
    BY <1>1 DEF TypeInv, Types
  <2> QED BY <2>1, <2>2, LedgerMoves DEF Restated
<1>4. ASSUME NEW t \in Sessions PROVE InHand(session[t], Len(batches'))
  <2>1. session[t].found \in Nat /\ session[t].found <= Len(batches)
    BY DEF TypeInv, Types, Work, WorkInHand, InHand
  <2>2. Len(batches') \in Nat
    BY <1>3, LenProperties
  <2>3. session[t].found <= Len(batches')
    BY <1>1, <1>3, <2>1, <2>2
  <2> QED BY <2>3 DEF TypeInv, WorkInHand, InHand
<1>5. ASSUME NEW s \in Sessions, Others(s), session' \in [Sessions -> Work],
             InHand(session'[s], Len(batches'))
      PROVE  session' \in [Sessions -> Work] /\ WorkInHand'
  BY <1>4, <1>5 DEF Others, WorkInHand
<1>6. ASSUME NEW found, found # 0 => found \in DOMAIN batches
      PROVE  found <= Len(batches')
  <2>1. DOMAIN batches = 1..Len(batches) /\ Len(batches') \in Nat
    BY <1>3, LenProperties DEF TypeInv, Types
  <2> QED BY <1>1, <1>3, <1>6, <2>1
<1>7. session' \in [Sessions -> Work] /\ WorkInHand'
  <2>1. CASE UNCHANGED session
    BY <1>4, <2>1 DEF TypeInv, Types, WorkInHand
  <2>2. ASSUME NEW s \in Sessions, End(s)
        PROVE  session' \in [Sessions -> Work] /\ WorkInHand'
    <3>1. /\ session' \in [Sessions -> Work]
          /\ session'[s] = IdleSession
          /\ Others(s)
      BY <2>2, Ending DEF TypeInv
    <3>2. InHand(IdleSession, Len(batches'))
      BY <1>6 DEF InHand, IdleSession
    <3> QED BY <1>5, <3>1, <3>2
  <2>3. ASSUME NEW s \in Sessions, NEW op \in Requests, NEW j \in Journals,
               NEW key \in Keys \cup {None}, Taken(s, op, j, key)
        PROVE  session' \in [Sessions -> Work] /\ WorkInHand'
    <3>1. /\ session' \in [Sessions -> Work]
          /\ session'[s] = Begun(op, j, journal[j], key)
          /\ Others(s)
      BY <2>3, Loading DEF TypeInv, Taken
    <3>2. op = "post" => key \in Keys
      BY <2>3, KeysInRange DEF Taken
    <3>3. InHand(Begun(op, j, journal[j], key), Len(batches'))
      BY <1>6, <3>2 DEF InHand, Begun
    <3> QED BY <1>5, <3>1, <3>3
  <2>4. ASSUME NEW s \in Sessions, FindBatch(s)
        PROVE  session' \in [Sessions -> Work] /\ WorkInHand'
    <3>1. session[s].j \in Journals
      BY <2>4, BatchFound DEF TypeInv, WorkInHand, InHand
    <3>2. InHand(session'[s], Len(batches'))
      BY <1>6, <2>4, <3>1, BatchFound DEF InHand
    <3> QED BY <1>5, <2>4, <3>2, BatchFound
  <2>5. ASSUME NEW s \in Sessions, NEW r \in Reversals, LinkReversal(s, r)
        PROVE  session' \in [Sessions -> Work] /\ WorkInHand'
    <3>1. InHand(session'[s], Len(batches'))
      BY <1>6, <2>5, ReversalLinked DEF InHand
    <3> QED BY <1>5, <2>5, <3>1, ReversalLinked
  <2> QED BY <2>1, <2>2, <2>3, <2>4, <2>5, RequestsMove
<1> QED BY <1>2, <1>3, <1>7 DEF TypeInv, Types

LEMMA TypeInit == Init => TypeInv
<1> SUFFICES ASSUME Init PROVE TypeInv
  OBVIOUS
<1>1. Unwritten \in Rows
  BY DEF Unwritten, Rows, Statuses, Links
<1>2. journal \in [Journals -> Rows] /\ session \in [Sessions -> Work]
  BY <1>1, IdleIsWork DEF Init
<1>3. batches \in Seq(Batch) /\ Len(batches) = 0
  BY EmptySeq DEF Init
<1> QED BY <1>2, <1>3 DEF Init, TypeInv, Types, WorkInHand, InHand, IdleSession

LEMMA TypesHold == Spec => []TypeInv
<1>1. TypeInv /\ [Next]_vars => TypeInv'
  BY TypeStep
<1> QED BY <1>1, TypeInit, PTL DEF Spec

\* Every column and every request stays in its range, for any number of
\* journals, reversals and requests.
THEOREM TypeCorrect == Spec => []TypeOK
<1>1. ASSUME TypeInv PROVE TypeOK
  <2>1. \A b \in DOMAIN batches :
          batches[b] \in [key : Keys, journal : Journals, retired : BOOLEAN]
    <3>1. batches \in Seq(Batch) /\ DOMAIN batches = 1..Len(batches)
      BY <1>1, LenProperties DEF TypeInv, Types
    <3>2. \A b \in DOMAIN batches : batches[b] \in Batch
      BY <3>1, ElementOfSeq
    <3> QED BY <3>2 DEF Batch
  <2>2. ASSUME NEW s \in Sessions
        PROVE  /\ session[s].pc \in {"idle", "loaded", "ready"}
               /\ session[s].op \in DOMAIN Steps \cup {"post", "reverse", None}
               /\ session[s].j \in Links
               /\ session[s].rev \in Reversals \cup {None}
               /\ session[s].found \in 0..Len(batches)
               /\ session[s].pc = "ready" => session[s].key \in Keys
    BY <1>1, LenProperties DEF TypeInv, Types, WorkInHand, InHand, Work, Requests
  <2> QED BY <1>1, <2>1, <2>2 DEF TypeInv, Types, TypeOK
<1>2. TypeInv => TypeOK
  BY <1>1
<1> QED BY <1>2, TypesHold, PTL

-----------------------------------------------------------------------------
(* What a reversal mirrors stays mirrored.                                 *)

\* The key of a reversal tells the journal it reverses, and no journal is
\* posted under it.
KeysIdentify == \A j \in Journals, r \in Reversals :
  /\ \A i \in Journals, q \in Reversals : ReversalKey[<<i, q>>] = ReversalKey[<<j, r>>] => i = j
  /\ \A i \in Journals : ReversalKey[<<j, r>>] \notin KeysOf[i]

\* A written row stays written and keeps what it reverses; a batch keeps its
\* key and its journal, and its key stays retired.
Kept ==
  /\ \A i \in Journals : journal[i].status # "NONE" =>
       journal'[i].status # "NONE" /\ journal'[i].of = journal[i].of
  /\ DOMAIN batches \subseteq DOMAIN batches'
  /\ \A b \in DOMAIN batches : /\ batches'[b].key = batches[b].key
                               /\ batches'[b].journal = batches[b].journal
                               /\ batches[b].retired => batches'[b].retired

\* The row a reversal is about to write is unwritten, the journal a request
\* works on is written (or a new original), and the keys are those of both.
RequestInOrder(s) ==
  /\ session[s].pc # "idle" /\ session[s].j \in Reversals =>
       journal[session[s].j].status # "NONE"
  /\ session[s].pc # "idle" /\ session[s].op = "post" => session[s].key \in KeysOf[session[s].j]
  /\ session[s].pc = "ready" /\ session[s].op = "reverse" =>
       /\ journal[session[s].rev].status = "NONE"
       /\ session[s].key = ReversalKey[<<session[s].j, session[s].rev>>]

OneReversalReady == \A s, t \in Sessions :
  /\ session[s].pc = "ready" /\ session[s].op = "reverse"
  /\ session[t].pc = "ready" /\ session[t].op = "reverse"
  => s = t

RequestsInOrder == OneReversalReady /\ \A s \in Sessions : RequestInOrder(s)

BatchesAreOfRows == \A b \in DOMAIN batches : journal[batches[b].journal].status # "NONE"

RowsKnowTheirBatch == \A j \in Journals : journal[j].batch # 0 =>
  journal[j].batch \in DOMAIN batches /\ batches[journal[j].batch].journal = j

ReversedAreMirrored == \A j \in Journals :
  journal[j].status = "REVERSED" => PostedReversalsOf(j) # {}

ReversalKeysTell == \A b \in DOMAIN batches, j \in Journals, r \in Reversals :
  batches[b].key = ReversalKey[<<j, r>>] =>
    batches[b].journal \in Reversals /\ journal[batches[b].journal].of = j

FoundIsMirrored(s) ==
  session[s].found # 0 => PostedReversalsOf(batches[session[s].found].journal) # {}

FoundAreMirrored == \A s \in Sessions : FoundIsMirrored(s)

MirrorInv ==
  /\ TypeInv
  /\ RequestsInOrder
  /\ BatchesAreOfRows
  /\ RowsKnowTheirBatch
  /\ ReversedAreMirrored
  /\ ReversalKeysTell
  /\ FoundAreMirrored
  /\ RetiredKeysAreMirrored

LEMMA BatchesTyped ==
  ASSUME TypeInv
  PROVE  \A b \in DOMAIN batches : /\ batches[b].key \in Keys
                                   /\ batches[b].journal \in Journals
                                   /\ batches[b].retired \in BOOLEAN
<1>1. batches \in Seq(Batch) /\ DOMAIN batches = 1..Len(batches)
  BY LenProperties DEF TypeInv, Types
<1>2. \A b \in DOMAIN batches : batches[b] \in Batch
  BY <1>1, ElementOfSeq
<1> QED BY <1>2 DEF Batch

LEMMA NewBatchIsNew ==
  ASSUME TypeInv
  PROVE  Len(batches) \in Nat /\ Len(batches) + 1 \notin DOMAIN batches
BY LenProperties DEF TypeInv, Types

\* The reversal writes two different rows.
LEMMA ReversalWrites ==
  ASSUME TypeInv, RequestsInOrder, NEW s \in Sessions, CommitReverse(s) \/ ReplayReverse(s)
  PROVE  LET j == session[s].j
             r == session[s].rev
         IN /\ j \in Journals /\ r \in Reversals /\ r # j
            /\ session[s].op = "reverse" /\ session[s].pc = "ready"
            /\ session[s].key = ReversalKey[<<j, r>>]
            /\ journal[r].status = "NONE"
            /\ journal'[r].status \in {"POSTED", "APPROVED"}
            /\ journal'[r].of = j
            /\ journal'[r].batch = IF CommitReverse(s) THEN Len(batches) + 1 ELSE 0
            /\ journal'[j].status = "REVERSED"
            /\ journal'[j].of = journal[j].of
            /\ journal'[j].link = r
            /\ journal'[j].batch = journal[j].batch
            /\ \A i \in Journals \ {j, r} : journal'[i] = journal[i]
<1> DEFINE j == session[s].j
           r == session[s].rev
<1>1. /\ j \in Journals /\ r \in Reversals
      /\ session[s].op = "reverse" /\ session[s].pc = "ready"
  BY ReversalInHand DEF CommitReverse, ReplayReverse
<1>2. /\ session[s].key = ReversalKey[<<j, r>>]
      /\ journal[r].status = "NONE"
      /\ r # j
  BY <1>1 DEF RequestsInOrder, RequestInOrder
<1>3. CommitReverse(s) => Reversing(s, "POSTED", Len(batches) + 1)
  BY DEF CommitReverse
<1>4. ~CommitReverse(s) => ReplayReverse(s) /\ Reversing(s, "APPROVED", 0)
  BY ReversalInHand DEF ReplayReverse
<1>5. "POSTED" \in Statuses /\ "APPROVED" \in Statuses /\ 0 \in 0..MaxBatches
  BY DEF Statuses
<1>6. CommitReverse(s) => Len(batches) + 1 \in 0..MaxBatches
  BY NewBatchIsNew DEF CommitReverse
<1>7. CASE CommitReverse(s)
  <2>1. /\ journal'[r] = [status |-> "POSTED", of |-> j, link |-> None, batch |-> Len(batches) + 1]
        /\ r # j => /\ journal'[j].status = "REVERSED"
                    /\ journal'[j].of = journal[j].of
                    /\ journal'[j].link = r
                    /\ journal'[j].batch = journal[j].batch
        /\ \A i \in Journals \ {j, r} : journal'[i] = journal[i]
    BY <1>1, <1>3, <1>5, <1>6, <1>7, ReversingRows DEF TypeInv
  <2> QED BY <1>1, <1>2, <1>7, <2>1
<1>8. CASE ~CommitReverse(s)
  <2>1. /\ journal'[r] = [status |-> "APPROVED", of |-> j, link |-> None, batch |-> 0]
        /\ r # j => /\ journal'[j].status = "REVERSED"
                    /\ journal'[j].of = journal[j].of
                    /\ journal'[j].link = r
                    /\ journal'[j].batch = journal[j].batch
        /\ \A i \in Journals \ {j, r} : journal'[i] = journal[i]
    BY <1>1, <1>4, <1>5, <1>8, ReversingRows DEF TypeInv
  <2> QED BY <1>1, <1>2, <1>8, <2>1
<1> QED BY <1>7, <1>8

LEMMA KeptStep ==
  ASSUME TypeInv, RequestsInOrder, [Next]_vars
  PROVE  Kept
<1>1. CASE UNCHANGED <<journal, batches>>
  BY <1>1 DEF Kept
<1>2. ASSUME NEW j \in Journals, NEW status \in Statuses, Restated(j, status) PROVE Kept
  BY <1>2, Restatus DEF Restated, TypeInv, Kept
<1>3. ASSUME NEW s \in Sessions, Posts(s) PROVE Kept
  <2>1. \A i \in Journals : journal[i].status # "NONE" =>
          journal'[i].status # "NONE" /\ journal'[i].of = journal[i].of
    <3>1. CASE CommitPost(s)
      BY <3>1, PostedRow
    <3>2. CASE CommitReverse(s) \/ ReplayReverse(s)
      BY <3>2, ReversalWrites
    <3> QED BY <1>3, <3>1, <3>2 DEF Posts
  <2>2. CASE CommitPost(s) \/ CommitReverse(s)
    <3>1. \A b \in DOMAIN batches :
              /\ b \in DOMAIN batches'
              /\ batches'[b].key = batches[b].key
              /\ batches'[b].journal = batches[b].journal
              /\ batches'[b].retired = (batches[b].retired \/ b = session[s].found)
      BY <2>2, PostsBatches
    <3> QED BY <2>1, <3>1 DEF Kept
  <2>3. CASE ReplayReverse(s)
    BY <2>1, <2>3 DEF ReplayReverse, Kept
  <2> QED BY <1>3, <2>2, <2>3 DEF Posts
<1> QED BY <1>1, <1>2, <1>3, LedgerMoves

LEMMA MirrorsStay ==
  ASSUME TypeInv, BatchesAreOfRows, Kept, NEW j \in Journals, PostedReversalsOf(j) # {}
  PROVE  PostedReversalsOf(j)' # {}
<1>1. PICK r \in Reversals : journal[r].of = j /\ BatchesOf(r) # {}
  BY DEF PostedReversalsOf
<1>2. PICK b \in DOMAIN batches : batches[b].journal = r
  BY <1>1 DEF BatchesOf
<1>3. journal'[r].of = j
  BY <1>1, <1>2 DEF BatchesAreOfRows, Kept, Journals
<1>4. b \in DOMAIN batches' /\ batches'[b].journal = r
  BY <1>2 DEF Kept
<1> QED BY <1>3, <1>4 DEF PostedReversalsOf, BatchesOf

LEMMA UnwrittenStays ==
  ASSUME TypeInv, RequestsInOrder, [Next]_vars, NEW t \in Sessions,
         session[t].pc = "ready", session[t].op = "reverse", session'[t] = session[t]
  PROVE  journal'[session[t].rev].status = "NONE"
<1> DEFINE r == session[t].rev
<1>1. r \in Reversals /\ r \in Journals /\ r \notin Originals /\ journal[r].status = "NONE"
  BY DEF TypeInv, WorkInHand, InHand, RequestsInOrder, RequestInOrder, Journals
<1>2. \A s \in Sessions : session[s].pc # "idle" => session[s].j # r
  BY <1>1 DEF RequestsInOrder, RequestInOrder
<1>3. ASSUME NEW j \in Journals, NEW status \in Statuses, Restated(j, status)
      PROVE  journal'[r] = journal[r]
  <2>1. j # r
    BY <1>1, <1>2, <1>3 DEF Restated
  <2> QED BY <1>1, <1>3, <2>1, Restatus DEF Restated, TypeInv
<1>4. ASSUME NEW s \in Sessions, Posts(s) PROVE journal'[r] = journal[r]
  <2>1. CASE CommitPost(s)
    <3>1. session[s].j # r
      BY <1>2, <2>1 DEF CommitPost
    <3> QED BY <1>1, <2>1, <3>1, PostedRow
  <2>2. CASE CommitReverse(s) \/ ReplayReverse(s)
    <3>1. session[s].pc = "ready" /\ session[s].op = "reverse" /\ End(s)
      BY <2>2 DEF CommitReverse, ReplayReverse
    <3>2. s = t
      BY <3>1 DEF RequestsInOrder, OneReversalReady
    <3>3. session'[t].pc = "idle"
      BY <3>1, <3>2, Ending DEF TypeInv, IdleSession
    <3> QED BY <3>3
  <2> QED BY <1>4, <2>1, <2>2 DEF Posts
<1>5. journal'[r] = journal[r]
  BY <1>3, <1>4, LedgerMoves
<1> QED BY <1>1, <1>5

LEMMA RequestsInOrderStep ==
  ASSUME TypeInv, RequestsInOrder, [Next]_vars
  PROVE  RequestsInOrder'
<1>1. Kept
  BY KeptStep
<1>2. ASSUME NEW t \in Sessions, session'[t] = session[t] PROVE RequestInOrder(t)'
  <2>1. session'[t].pc # "idle" /\ session'[t].j \in Reversals =>
          journal'[session'[t].j].status # "NONE"
    BY <1>1, <1>2 DEF RequestsInOrder, RequestInOrder, Kept, Journals
  <2>2. session'[t].pc = "ready" /\ session'[t].op = "reverse" =>
          journal'[session'[t].rev].status = "NONE"
    BY <1>2, UnwrittenStays
  <2> QED BY <1>2, <2>1, <2>2 DEF RequestsInOrder, RequestInOrder
<1>3. ASSUME NEW s \in Sessions, Others(s), RequestInOrder(s)',
             session'[s].pc = "ready" /\ session'[s].op = "reverse" =>
               \A t \in Sessions : ~(session[t].op = "reverse" /\ session[t].pc = "ready")
      PROVE  RequestsInOrder'
  <2>1. \A t \in Sessions : RequestInOrder(t)'
    BY <1>2, <1>3 DEF Others
  <2>2. OneReversalReady'
    BY <1>3 DEF Others, RequestsInOrder, OneReversalReady
  <2> QED BY <2>1, <2>2 DEF RequestsInOrder
<1>4. CASE UNCHANGED session
  BY <1>2, <1>4 DEF RequestsInOrder, OneReversalReady
<1>5. ASSUME NEW s \in Sessions, End(s) PROVE RequestsInOrder'
  <2>1. session'[s] = IdleSession /\ Others(s)
    BY <1>5, Ending DEF TypeInv
  <2>2. RequestInOrder(s)'
    BY <2>1 DEF RequestInOrder, IdleSession
  <2> QED BY <1>3, <2>1, <2>2 DEF IdleSession
<1>6. ASSUME NEW s \in Sessions, NEW op \in Requests, NEW j \in Journals,
             NEW key \in Keys \cup {None}, Taken(s, op, j, key)
      PROVE  RequestsInOrder'
  <2>1. session'[s] = Begun(op, j, journal[j], key) /\ Others(s)
    BY <1>6, Loading DEF TypeInv, Taken
  <2>2. RequestInOrder(s)'
    BY <1>6, <2>1 DEF RequestInOrder, Begun, Taken
  <2> QED BY <1>3, <2>1, <2>2 DEF Begun
<1>7. ASSUME NEW s \in Sessions, FindBatch(s) PROVE RequestsInOrder'
  <2>1. UNCHANGED journal
    BY <1>7 DEF FindBatch
  <2>2. RequestInOrder(s)'
    BY <1>7, <2>1, BatchFound DEF RequestsInOrder, RequestInOrder
  <2> QED BY <1>3, <1>7, <2>2, BatchFound
<1>8. ASSUME NEW s \in Sessions, NEW r \in Reversals, LinkReversal(s, r) PROVE RequestsInOrder'
  <2>1. RequestInOrder(s)'
    <3>1. /\ session[s].pc = "loaded"
          /\ journal[r].status = "NONE"
          /\ UNCHANGED journal
          /\ session'[s].op = "reverse"
          /\ session'[s].j = session[s].j
          /\ session'[s].key = ReversalKey[<<session[s].j, r>>]
          /\ session'[s].rev = r
      BY <1>8, ReversalLinked
    <3>2. session[s].j \in Reversals => journal[session[s].j].status # "NONE"
      BY <3>1 DEF RequestsInOrder, RequestInOrder
    <3> QED BY <3>1, <3>2 DEF RequestInOrder
  <2> QED BY <1>3, <1>8, <2>1, ReversalLinked
<1> QED BY <1>4, <1>5, <1>6, <1>7, <1>8, RequestsMove

LEMMA BatchesMove ==
  ASSUME TypeInv, [Next]_vars
  PROVE  UNCHANGED batches \/ \E s \in Sessions : CommitPost(s) \/ CommitReverse(s)
BY LedgerMoves DEF Restated, Posts, ReplayReverse

\* The batch a posting or a reversal appends.
LEMMA BatchAppended ==
  ASSUME MirrorInv, NEW s \in Sessions, CommitPost(s) \/ CommitReverse(s)
  PROVE  LET new == batches'[Len(batches) + 1] IN
         /\ \A b \in DOMAIN batches' : b \in DOMAIN batches \/ b = Len(batches) + 1
         /\ Len(batches) + 1 \in DOMAIN batches'
         /\ ~new.retired
         /\ new.key = session[s].key
         /\ CommitPost(s) => new.journal = session[s].j /\ new.key \in KeysOf[new.journal]
         /\ CommitReverse(s) => /\ new.journal = session[s].rev
                                /\ new.key = ReversalKey[<<session[s].j, new.journal>>]
<1>1. /\ DOMAIN batches' = DOMAIN batches \cup {Len(batches) + 1}
      /\ batches'[Len(batches) + 1] =
           [key |-> session[s].key,
            journal |-> IF session[s].op = "post" THEN session[s].j ELSE session[s].rev,
            retired |-> FALSE]
  BY PostsBatches, Zenon DEF MirrorInv
<1>2. CommitPost(s) => session[s].op = "post" /\ session[s].key \in KeysOf[session[s].j]
  BY DEF CommitPost, MirrorInv, RequestsInOrder, RequestInOrder
<1>3. CommitReverse(s) => /\ session[s].op # "post"
                          /\ session[s].key = ReversalKey[<<session[s].j, session[s].rev>>]
  BY DEF CommitReverse, MirrorInv, RequestsInOrder, RequestInOrder
<1> QED BY <1>1, <1>2, <1>3

LEMMA BatchesAreOfRowsStep ==
  ASSUME MirrorInv, Kept, [Next]_vars
  PROVE  BatchesAreOfRows'
<1>1. \A b \in DOMAIN batches : journal'[batches'[b].journal].status # "NONE"
  BY BatchesTyped DEF MirrorInv, BatchesAreOfRows, Kept
<1>2. CASE UNCHANGED batches
  BY <1>1, <1>2 DEF BatchesAreOfRows
<1>3. ASSUME NEW s \in Sessions, CommitPost(s) \/ CommitReverse(s) PROVE BatchesAreOfRows'
  <2>1. CommitPost(s) => journal'[session[s].j].status = "POSTED"
    BY PostedRow DEF MirrorInv
  <2>2. CommitReverse(s) => journal'[session[s].rev].status # "NONE"
    BY ReversalWrites DEF MirrorInv
  <2> QED BY <1>1, <1>3, <2>1, <2>2, BatchAppended DEF BatchesAreOfRows
<1> QED BY <1>2, <1>3, BatchesMove DEF MirrorInv

LEMMA RowsKnowTheirBatchStep ==
  ASSUME MirrorInv, Kept, [Next]_vars
  PROVE  RowsKnowTheirBatch'
<1>1. ASSUME NEW i \in Journals, journal'[i].batch = journal[i].batch, journal'[i].batch # 0
      PROVE  journal'[i].batch \in DOMAIN batches' /\ batches'[journal'[i].batch].journal = i
  BY <1>1 DEF MirrorInv, RowsKnowTheirBatch, Kept
<1>2. CASE UNCHANGED <<journal, batches>>
  BY <1>1, <1>2 DEF RowsKnowTheirBatch
<1>3. ASSUME NEW j \in Journals, NEW status \in Statuses, Restated(j, status)
      PROVE  RowsKnowTheirBatch'
  BY <1>1, <1>3, Restatus DEF MirrorInv, TypeInv, Restated, RowsKnowTheirBatch
<1>4. ASSUME NEW s \in Sessions, CommitPost(s) PROVE RowsKnowTheirBatch'
  <2>1. /\ journal'[session[s].j].batch = Len(batches) + 1
        /\ \A i \in Journals \ {session[s].j} : journal'[i] = journal[i]
    BY <1>4, PostedRow DEF MirrorInv
  <2>2. /\ Len(batches) + 1 \in DOMAIN batches'
        /\ batches'[Len(batches) + 1].journal = session[s].j
    BY <1>4, BatchAppended
  <2> QED BY <1>1, <2>1, <2>2 DEF RowsKnowTheirBatch
<1>5. ASSUME NEW s \in Sessions, CommitReverse(s) \/ ReplayReverse(s) PROVE RowsKnowTheirBatch'
  <2>1. /\ journal'[session[s].rev].batch = IF CommitReverse(s) THEN Len(batches) + 1 ELSE 0
        /\ journal'[session[s].j].batch = journal[session[s].j].batch
        /\ \A i \in Journals \ {session[s].j, session[s].rev} : journal'[i] = journal[i]
    BY <1>5, ReversalWrites DEF MirrorInv
  <2>2. CommitReverse(s) => /\ Len(batches) + 1 \in DOMAIN batches'
                            /\ batches'[Len(batches) + 1].journal = session[s].rev
    BY BatchAppended
  <2> QED BY <1>1, <2>1, <2>2 DEF RowsKnowTheirBatch
<1> QED BY <1>2, <1>3, <1>4, <1>5, LedgerMoves DEF MirrorInv, Posts

LEMMA ReversedAreMirroredStep ==
  ASSUME MirrorInv, Kept, [Next]_vars
  PROVE  ReversedAreMirrored'
<1>1. \A i \in Journals : PostedReversalsOf(i) # {} => PostedReversalsOf(i)' # {}
  BY MirrorsStay DEF MirrorInv
<1>2. CASE UNCHANGED <<journal, batches>>
  BY <1>1, <1>2 DEF MirrorInv, ReversedAreMirrored
<1>3. ASSUME NEW j \in Journals, NEW status \in Statuses, Restated(j, status)
      PROVE  ReversedAreMirrored'
  <2>1. /\ journal'[j].status # "REVERSED"
        /\ \A i \in Journals \ {j} : journal'[i] = journal[i]
    BY <1>3, Restatus DEF MirrorInv, TypeInv, Restated
  <2> QED BY <1>1, <2>1 DEF MirrorInv, ReversedAreMirrored
<1>4. ASSUME NEW s \in Sessions, CommitPost(s) PROVE ReversedAreMirrored'
  <2>1. /\ journal'[session[s].j].status = "POSTED"
        /\ \A i \in Journals \ {session[s].j} : journal'[i] = journal[i]
    BY <1>4, PostedRow DEF MirrorInv
  <2> QED BY <1>1, <2>1 DEF MirrorInv, ReversedAreMirrored
<1>5. ASSUME NEW s \in Sessions, CommitReverse(s) \/ ReplayReverse(s) PROVE ReversedAreMirrored'
  <2>1. PICK j \in Journals, r \in Reversals :
          /\ j = session[s].j /\ r = session[s].rev
          /\ session[s].key = ReversalKey[<<j, r>>]
          /\ journal'[r].status # "REVERSED"
          /\ journal'[r].of = j
          /\ \A i \in Journals \ {j, r} : journal'[i] = journal[i]
    <3>1. /\ session[s].j \in Journals /\ session[s].rev \in Reversals
          /\ session[s].key = ReversalKey[<<session[s].j, session[s].rev>>]
          /\ journal'[session[s].rev].status # "REVERSED"
          /\ journal'[session[s].rev].of = session[s].j
          /\ \A i \in Journals \ {session[s].j, session[s].rev} : journal'[i] = journal[i]
      BY <1>5, ReversalWrites DEF MirrorInv
    <3> QED BY <3>1, Zenon
  <2>2. PostedReversalsOf(j)' # {}
    <3>1. CASE CommitReverse(s)
      <4>1. /\ Len(batches) + 1 \in DOMAIN batches'
            /\ batches'[Len(batches) + 1].journal = r
        BY <2>1, <3>1, BatchAppended
      <4> QED BY <2>1, <4>1 DEF PostedReversalsOf, BatchesOf
    <3>2. CASE ReplayReverse(s)
      <4>1. PICK b \in DOMAIN batches : batches[b].key = session[s].key
        BY <3>2 DEF ReplayReverse, Replayed, Answers, LiveBatch
      <4>2. batches[b].journal \in Reversals /\ journal[batches[b].journal].of = j
        BY <2>1, <4>1 DEF MirrorInv, ReversalKeysTell
      <4>3. PostedReversalsOf(j) # {}
        BY <4>2 DEF PostedReversalsOf, BatchesOf
      <4> QED BY <1>1, <2>1, <4>3
    <3> QED BY <1>5, <3>1, <3>2
  <2> QED BY <1>1, <2>1, <2>2 DEF MirrorInv, ReversedAreMirrored
<1> QED BY <1>2, <1>3, <1>4, <1>5, LedgerMoves DEF MirrorInv, Posts

LEMMA ReversalKeysTellStep ==
  ASSUME KeysIdentify, MirrorInv, Kept, [Next]_vars
  PROVE  ReversalKeysTell'
<1>1. ASSUME NEW b \in DOMAIN batches, NEW j \in Journals, NEW r \in Reversals,
             batches'[b].key = ReversalKey[<<j, r>>]
      PROVE  batches'[b].journal \in Reversals /\ journal'[batches'[b].journal].of = j
  <2>1. /\ batches[b].key = ReversalKey[<<j, r>>]
        /\ batches'[b].journal = batches[b].journal
        /\ batches[b].journal \in Journals
        /\ journal[batches[b].journal].status # "NONE"
    BY <1>1, BatchesTyped DEF Kept, MirrorInv, BatchesAreOfRows
  <2>2. journal'[batches[b].journal].of = journal[batches[b].journal].of
    BY <2>1 DEF Kept
  <2> QED BY <2>1, <2>2 DEF MirrorInv, ReversalKeysTell
<1>2. CASE UNCHANGED batches
  BY <1>1, <1>2 DEF ReversalKeysTell
<1>3. ASSUME NEW s \in Sessions, CommitPost(s) \/ CommitReverse(s) PROVE ReversalKeysTell'
  <2> DEFINE n == Len(batches) + 1
  <2>1. ASSUME CommitPost(s), NEW j \in Journals, NEW r \in Reversals
        PROVE  batches'[n].key # ReversalKey[<<j, r>>]
    BY <2>1, BatchAppended, PostedRow DEF KeysIdentify, MirrorInv
  <2>2. ASSUME CommitReverse(s), NEW j \in Journals, NEW r \in Reversals,
               batches'[n].key = ReversalKey[<<j, r>>]
        PROVE  batches'[n].journal \in Reversals /\ journal'[batches'[n].journal].of = j
    <3>1. /\ session[s].j \in Journals /\ session[s].rev \in Reversals
          /\ journal'[session[s].rev].of = session[s].j
      BY <2>2, ReversalWrites DEF MirrorInv
    <3>2. /\ batches'[n].journal = session[s].rev
          /\ batches'[n].key = ReversalKey[<<session[s].j, session[s].rev>>]
      BY <2>2, BatchAppended
    <3>3. ReversalKey[<<session[s].j, session[s].rev>>] = ReversalKey[<<j, r>>]
      BY <2>2, <3>2
    <3>4. session[s].j = j
      BY <3>1, <3>3, Zenon DEF KeysIdentify
    <3> QED BY <3>1, <3>2, <3>4
  <2>3. \A b \in DOMAIN batches' : b \in DOMAIN batches \/ b = n
    BY <1>3, BatchAppended
  <2> HIDE DEF n
  <2> QED BY <1>1, <1>3, <2>1, <2>2, <2>3 DEF ReversalKeysTell
<1> QED BY <1>2, <1>3, BatchesMove DEF MirrorInv

LEMMA FoundAreMirroredStep ==
  ASSUME MirrorInv, Kept, [Next]_vars
  PROVE  FoundAreMirrored'
<1>1. \A i \in Journals : PostedReversalsOf(i) # {} => PostedReversalsOf(i)' # {}
  BY MirrorsStay DEF MirrorInv
<1>2. ASSUME NEW s \in Sessions, NEW b \in DOMAIN batches, session'[s].found = b,
             PostedReversalsOf(batches[b].journal) # {}
      PROVE  FoundIsMirrored(s)'
  <2>1. PICK i \in Journals : i = batches[b].journal /\ i = batches'[b].journal
    BY BatchesTyped DEF MirrorInv, Kept
  <2>2. PostedReversalsOf(i)' # {}
    BY <1>1, <1>2, <2>1
  <2> QED BY <1>2, <2>1, <2>2 DEF FoundIsMirrored, PostedReversalsOf, BatchesOf
<1>3. ASSUME NEW t \in Sessions, session'[t] = session[t] PROVE FoundIsMirrored(t)'
  <2>1. CASE session[t].found # 0
    <3>1. session[t].found \in DOMAIN batches
      BY <2>1, LenProperties DEF MirrorInv, TypeInv, Types, Work, WorkInHand, InHand
    <3> QED BY <1>2, <1>3, <2>1, <3>1 DEF MirrorInv, FoundAreMirrored, FoundIsMirrored
  <2>2. CASE session[t].found = 0
    BY <1>3, <2>2 DEF FoundIsMirrored
  <2> QED BY <2>1, <2>2
<1>4. ASSUME NEW s \in Sessions, NEW b \in DOMAIN batches, session'[s].found = b,
             BatchPostingReversed(b)
      PROVE  FoundIsMirrored(s)'
  <2>1. PICK j \in Journals : journal[j].batch = b /\ journal[j].status = "REVERSED"
    BY <1>4 DEF BatchPostingReversed
  <2>2. b # 0
    BY LenProperties DEF MirrorInv, TypeInv, Types
  <2>3. batches[b].journal = j /\ PostedReversalsOf(j) # {}
    BY <2>1, <2>2 DEF MirrorInv, RowsKnowTheirBatch, ReversedAreMirrored
  <2> QED BY <1>2, <1>4, <2>3
<1>5. ASSUME NEW s \in Sessions, Others(s), FoundIsMirrored(s)' PROVE FoundAreMirrored'
  BY <1>3, <1>5 DEF Others, FoundAreMirrored
<1>6. CASE UNCHANGED session
  BY <1>3, <1>6 DEF FoundAreMirrored
<1>7. ASSUME NEW s \in Sessions, End(s) PROVE FoundAreMirrored'
  <2>1. session'[s].found = 0 /\ Others(s)
    BY <1>7, Ending DEF MirrorInv, TypeInv, IdleSession
  <2> QED BY <1>5, <2>1 DEF FoundIsMirrored
<1>8. ASSUME NEW s \in Sessions, NEW op \in Requests, NEW j \in Journals,
             NEW key \in Keys \cup {None}, Taken(s, op, j, key)
      PROVE  FoundAreMirrored'
  <2>1. session'[s] = Begun(op, j, journal[j], key) /\ Others(s)
    BY <1>8, Loading DEF MirrorInv, TypeInv, Taken
  <2>2. session'[s].found = 0
    BY <2>1 DEF Begun
  <2> QED BY <1>5, <2>1, <2>2 DEF FoundIsMirrored
<1>9. ASSUME NEW s \in Sessions, FindBatch(s) PROVE FoundAreMirrored'
  <2>1. /\ Others(s)
        /\ session'[s].found # 0 => /\ session'[s].found \in DOMAIN batches
                                    /\ BatchPostingReversed(session'[s].found)
    BY <1>9, BatchFound DEF MirrorInv
  <2> QED BY <1>4, <1>5, <2>1 DEF FoundIsMirrored
<1>10. ASSUME NEW s \in Sessions, NEW r \in Reversals, LinkReversal(s, r)
       PROVE  FoundAreMirrored'
  <2>1. /\ Others(s)
        /\ session'[s].found # 0 => /\ session'[s].found \in DOMAIN batches
                                    /\ BatchPostingReversed(session'[s].found)
    BY <1>10, ReversalLinked DEF MirrorInv
  <2> QED BY <1>4, <1>5, <2>1 DEF FoundIsMirrored
<1> QED BY <1>6, <1>7, <1>8, <1>9, <1>10, RequestsMove DEF MirrorInv

LEMMA RetiredKeysAreMirroredStep ==
  ASSUME MirrorInv, Kept, [Next]_vars
  PROVE  RetiredKeysAreMirrored'
<1>1. ASSUME NEW b \in DOMAIN batches, PostedReversalsOf(batches[b].journal) # {}
      PROVE  (PostedReversalsOf(batches[b].journal) # {})'
  <2>1. PICK i \in Journals : i = batches[b].journal /\ i = batches'[b].journal
    BY BatchesTyped DEF MirrorInv, Kept
  <2>2. PostedReversalsOf(i)' # {}
    BY <1>1, <2>1, MirrorsStay DEF MirrorInv
  <2> QED BY <2>1, <2>2 DEF PostedReversalsOf, BatchesOf
<1>2. CASE UNCHANGED batches
  BY <1>1, <1>2 DEF MirrorInv, RetiredKeysAreMirrored
<1>3. ASSUME NEW s \in Sessions, CommitPost(s) \/ CommitReverse(s) PROVE RetiredKeysAreMirrored'
  <2>1. ASSUME NEW b \in DOMAIN batches, batches'[b].retired
        PROVE  PostedReversalsOf(batches[b].journal) # {}
    <3>1. batches[b].retired \/ b = session[s].found
      BY <1>3, <2>1, PostsBatches, BatchesTyped DEF MirrorInv
    <3>2. b # 0
      BY LenProperties DEF MirrorInv, TypeInv, Types
    <3> QED BY <3>1, <3>2
            DEF MirrorInv, RetiredKeysAreMirrored, FoundAreMirrored, FoundIsMirrored
  <2>2. \A b \in DOMAIN batches' : b \in DOMAIN batches \/ ~batches'[b].retired
    BY <1>3, BatchAppended
  <2> QED BY <1>1, <2>1, <2>2 DEF RetiredKeysAreMirrored
<1> QED BY <1>2, <1>3, BatchesMove DEF MirrorInv

LEMMA MirrorInit == Init => MirrorInv
<1> SUFFICES ASSUME Init PROVE MirrorInv
  OBVIOUS
<1>1. \A s \in Sessions : session[s] = IdleSession
  BY DEF Init
<1>2. DOMAIN batches = {}
  BY DEF Init
<1>3. \A j \in Journals : journal[j].status = "NONE" /\ journal[j].batch = 0
  BY DEF Init, Unwritten
<1>4. RequestsInOrder /\ FoundAreMirrored
  BY <1>1 DEF IdleSession, RequestsInOrder, OneReversalReady, RequestInOrder, FoundAreMirrored,
              FoundIsMirrored
<1> QED BY <1>2, <1>3, <1>4, TypeInit
        DEF MirrorInv, BatchesAreOfRows, RowsKnowTheirBatch, ReversedAreMirrored,
            ReversalKeysTell, RetiredKeysAreMirrored

LEMMA MirrorStep ==
  ASSUME KeysIdentify, MirrorInv, [Next]_vars
  PROVE  MirrorInv'
<1>1. Kept
  BY KeptStep DEF MirrorInv
<1> QED BY <1>1, TypeStep, RequestsInOrderStep, BatchesAreOfRowsStep, RowsKnowTheirBatchStep,
           ReversedAreMirroredStep, ReversalKeysTellStep, FoundAreMirroredStep,
           RetiredKeysAreMirroredStep
        DEF MirrorInv

\* The retirement of a superseded key (_retire_superseded_batch_key) never
\* frees the key of a journal whose lines nobody mirrored, whatever requests
\* overlap.
THEOREM RetirementIsSafe ==
  ASSUME KeysIdentify
  PROVE  Spec => []RetiredKeysAreMirrored
<1>1. MirrorInv /\ [Next]_vars => MirrorInv'
  BY MirrorStep
<1>2. MirrorInv => RetiredKeysAreMirrored
  BY DEF MirrorInv
<1> QED BY <1>1, <1>2, MirrorInit, PTL DEF Spec

-----------------------------------------------------------------------------
(* A journal is reversed once.                                             *)

\* Reversals are neither reversed nor posted again.
ReversalsRest ==
  /\ Reversible \subseteq Originals
  /\ \A r \in Reversals : KeysOf[r] = {}

\* Moreover all reversals of a journal share a key.
KeysAgree ==
  /\ ReversalsRest
  /\ \A j \in Journals, q, r \in Reversals : ReversalKey[<<j, q>>] = ReversalKey[<<j, r>>]

OriginalsAreReversed ==
  /\ \A s \in Sessions : session[s].pc # "idle" /\ session[s].op = "reverse" =>
       session[s].j \in Originals
  /\ \A j \in Journals : journal[j].status = "REVERSED" => j \in Originals

FoundIsOriginal(s) == session[s].found # 0 => batches[session[s].found].journal \in Originals

FoundAreOriginals == \A s \in Sessions : FoundIsOriginal(s)

ReversalBatches == \A b \in DOMAIN batches : batches[b].journal \in Reversals =>
  /\ ~batches[b].retired
  /\ batches[b].key = ReversalKey[<<journal[batches[b].journal].of, batches[b].journal>>]

LiveKeysAreUnique == \A b, c \in DOMAIN batches :
  ~batches[b].retired /\ ~batches[c].retired /\ batches[b].key = batches[c].key => b = c

OnceInv ==
  /\ MirrorInv
  /\ OriginalsAreReversed
  /\ FoundAreOriginals
  /\ ReversalBatches
  /\ LiveKeysAreUnique

LEMMA OriginalsAreReversedStep ==
  ASSUME ReversalsRest, MirrorInv, OriginalsAreReversed, [Next]_vars
  PROVE  OriginalsAreReversed'
<1>1. ASSUME NEW s \in Sessions, Others(s),
             session'[s].pc # "idle" /\ session'[s].op = "reverse" => session'[s].j \in Originals
      PROVE  \A t \in Sessions : session'[t].pc # "idle" /\ session'[t].op = "reverse" =>
               session'[t].j \in Originals
  BY <1>1 DEF Others, OriginalsAreReversed
<1>2. \A t \in Sessions : session'[t].pc # "idle" /\ session'[t].op = "reverse" =>
        session'[t].j \in Originals
  <2>1. CASE UNCHANGED session
    BY <2>1 DEF OriginalsAreReversed
  <2>2. ASSUME NEW s \in Sessions, End(s)
        PROVE  Others(s) /\ session'[s].pc = "idle"
    BY <2>2, Ending DEF MirrorInv, TypeInv, IdleSession
  <2>3. ASSUME NEW s \in Sessions, NEW op \in Requests, NEW j \in Journals,
               NEW key \in Keys \cup {None}, Taken(s, op, j, key)
        PROVE  /\ Others(s)
               /\ session'[s].op = "reverse" => session'[s].j \in Originals
    <3>1. session'[s] = Begun(op, j, journal[j], key) /\ Others(s)
      BY <2>3, Loading DEF MirrorInv, TypeInv, Taken
    <3>2. op = "reverse" => j \in Originals
      BY <2>3 DEF Taken, ReversalsRest
    <3> QED BY <3>1, <3>2 DEF Begun
  <2>4. ASSUME NEW s \in Sessions, FindBatch(s)
        PROVE  Others(s) /\ session'[s].op = "post"
    BY <2>4, BatchFound DEF MirrorInv
  <2>5. ASSUME NEW s \in Sessions, NEW r \in Reversals, LinkReversal(s, r)
        PROVE  Others(s) /\ session'[s].j \in Originals
    <3>1. /\ session[s].pc = "loaded" /\ session[s].op = "reverse"
          /\ session'[s].j = session[s].j
          /\ Others(s)
      BY <2>5, ReversalLinked DEF MirrorInv
    <3> QED BY <3>1 DEF OriginalsAreReversed
  <2>6. ASSUME NEW s \in Sessions, End(s)
        PROVE  \A t \in Sessions : session'[t].pc # "idle" /\ session'[t].op = "reverse" =>
                 session'[t].j \in Originals
    BY <1>1, <2>2, <2>6
  <2>7. ASSUME NEW s \in Sessions, NEW op \in Requests, NEW j \in Journals,
               NEW key \in Keys \cup {None}, Taken(s, op, j, key)
        PROVE  \A t \in Sessions : session'[t].pc # "idle" /\ session'[t].op = "reverse" =>
                 session'[t].j \in Originals
    BY <1>1, <2>3, <2>7
  <2>8. ASSUME NEW s \in Sessions, FindBatch(s)
        PROVE  \A t \in Sessions : session'[t].pc # "idle" /\ session'[t].op = "reverse" =>
                 session'[t].j \in Originals
    BY <1>1, <2>4, <2>8
  <2>9. ASSUME NEW s \in Sessions, NEW r \in Reversals, LinkReversal(s, r)
        PROVE  \A t \in Sessions : session'[t].pc # "idle" /\ session'[t].op = "reverse" =>
                 session'[t].j \in Originals
    BY <1>1, <2>5, <2>9
  <2> QED BY <2>1, <2>6, <2>7, <2>8, <2>9, RequestsMove DEF MirrorInv
<1>3. \A j \in Journals : journal'[j].status = "REVERSED" => j \in Originals
  <2>1. ASSUME NEW j \in Journals, NEW status \in Statuses, Restated(j, status)
        PROVE  /\ journal'[j].status # "REVERSED"
               /\ \A i \in Journals \ {j} : journal'[i] = journal[i]
    BY <2>1, Restatus DEF MirrorInv, TypeInv, Restated
  <2>2. ASSUME NEW s \in Sessions, CommitPost(s)
        PROVE  /\ journal'[session[s].j].status # "REVERSED"
               /\ \A i \in Journals \ {session[s].j} : journal'[i] = journal[i]
    BY <2>2, PostedRow DEF MirrorInv
  <2>3. ASSUME NEW s \in Sessions, CommitReverse(s) \/ ReplayReverse(s)
        PROVE  /\ session[s].j \in Originals
               /\ journal'[session[s].rev].status # "REVERSED"
               /\ \A i \in Journals \ {session[s].j, session[s].rev} : journal'[i] = journal[i]
    BY <2>3, ReversalWrites DEF MirrorInv, OriginalsAreReversed
  <2> QED BY <2>1, <2>2, <2>3, LedgerMoves DEF MirrorInv, OriginalsAreReversed, Posts
<1> QED BY <1>2, <1>3 DEF OriginalsAreReversed

LEMMA FoundAreOriginalsStep ==
  ASSUME MirrorInv, Kept, OriginalsAreReversed, FoundAreOriginals, [Next]_vars
  PROVE  FoundAreOriginals'
<1>1. ASSUME NEW t \in Sessions, session'[t] = session[t] PROVE FoundIsOriginal(t)'
  <2>1. session[t].found # 0 => session[t].found \in DOMAIN batches
    BY LenProperties DEF MirrorInv, TypeInv, Types, Work, WorkInHand, InHand
  <2> QED BY <1>1, <2>1 DEF FoundAreOriginals, FoundIsOriginal, Kept
<1>2. ASSUME NEW s \in Sessions, NEW b \in DOMAIN batches, session'[s].found = b,
             BatchPostingReversed(b)
      PROVE  FoundIsOriginal(s)'
  <2>1. PICK j \in Journals : journal[j].batch = b /\ journal[j].status = "REVERSED"
    BY <1>2 DEF BatchPostingReversed
  <2>2. b # 0
    BY LenProperties DEF MirrorInv, TypeInv, Types
  <2>3. batches[b].journal \in Originals
    BY <2>1, <2>2 DEF MirrorInv, RowsKnowTheirBatch, OriginalsAreReversed
  <2> QED BY <1>2, <2>3 DEF FoundIsOriginal, Kept
<1>3. ASSUME NEW s \in Sessions, Others(s), FoundIsOriginal(s)' PROVE FoundAreOriginals'
  BY <1>1, <1>3 DEF Others, FoundAreOriginals
<1>4. CASE UNCHANGED session
  BY <1>1, <1>4 DEF FoundAreOriginals
<1>5. ASSUME NEW s \in Sessions, End(s) PROVE FoundAreOriginals'
  <2>1. session'[s].found = 0 /\ Others(s)
    BY <1>5, Ending DEF MirrorInv, TypeInv, IdleSession
  <2> QED BY <1>3, <2>1 DEF FoundIsOriginal
<1>6. ASSUME NEW s \in Sessions, NEW op \in Requests, NEW j \in Journals,
             NEW key \in Keys \cup {None}, Taken(s, op, j, key)
      PROVE  FoundAreOriginals'
  <2>1. session'[s] = Begun(op, j, journal[j], key) /\ Others(s)
    BY <1>6, Loading DEF MirrorInv, TypeInv, Taken
  <2>2. session'[s].found = 0
    BY <2>1 DEF Begun
  <2> QED BY <1>3, <2>1, <2>2 DEF FoundIsOriginal
<1>7. ASSUME NEW s \in Sessions, FindBatch(s) PROVE FoundAreOriginals'
  <2>1. /\ Others(s)
        /\ session'[s].found # 0 => /\ session'[s].found \in DOMAIN batches
                                    /\ BatchPostingReversed(session'[s].found)
    BY <1>7, BatchFound DEF MirrorInv
  <2> QED BY <1>2, <1>3, <2>1 DEF FoundIsOriginal
<1>8. ASSUME NEW s \in Sessions, NEW r \in Reversals, LinkReversal(s, r) PROVE FoundAreOriginals'
  <2>1. /\ Others(s)
        /\ session'[s].found # 0 => /\ session'[s].found \in DOMAIN batches
                                    /\ BatchPostingReversed(session'[s].found)
    BY <1>8, ReversalLinked DEF MirrorInv
  <2> QED BY <1>2, <1>3, <2>1 DEF FoundIsOriginal
<1> QED BY <1>4, <1>5, <1>6, <1>7, <1>8, RequestsMove DEF MirrorInv

LEMMA ReversalBatchesStep ==
  ASSUME ReversalsRest, OnceInv, Kept, [Next]_vars
  PROVE  ReversalBatches'
<1> DEFINE InPlace(b) == batches'[b].journal \in Reversals =>
             /\ ~batches'[b].retired
             /\ batches'[b].key =
                  ReversalKey[<<journal'[batches'[b].journal].of, batches'[b].journal>>]
<1>1. ASSUME NEW b \in DOMAIN batches, batches[b].journal \in Reversals
      PROVE  /\ batches'[b].key = batches[b].key
             /\ batches'[b].journal = batches[b].journal
             /\ journal'[batches[b].journal].of = journal[batches[b].journal].of
             /\ ~batches[b].retired
             /\ batches[b].key =
                  ReversalKey[<<journal[batches[b].journal].of, batches[b].journal>>]
  BY <1>1, BatchesTyped DEF OnceInv, MirrorInv, BatchesAreOfRows, ReversalBatches, Kept
<1>2. ASSUME NEW b \in DOMAIN batches, batches'[b].retired = batches[b].retired
      PROVE  InPlace(b)
  <2>1. batches'[b].journal = batches[b].journal
    BY DEF Kept
  <2>2. CASE batches[b].journal \in Reversals
    <3>1. ReversalKey[<<journal'[batches'[b].journal].of, batches'[b].journal>>]
            = ReversalKey[<<journal[batches[b].journal].of, batches[b].journal>>]
      BY <1>1, <2>1, <2>2
    <3> QED BY <1>1, <1>2, <2>2, <3>1
  <2>3. CASE batches[b].journal \notin Reversals
    BY <2>1, <2>3
  <2> QED BY <2>2, <2>3
<1>3. CASE UNCHANGED batches
  BY <1>2, <1>3 DEF ReversalBatches
<1>4. ASSUME NEW s \in Sessions, CommitPost(s) \/ CommitReverse(s) PROVE ReversalBatches'
  <2> DEFINE n == Len(batches) + 1
  <2>1. ASSUME NEW b \in DOMAIN batches PROVE InPlace(b)
    <3>1. batches'[b].retired = (batches[b].retired \/ b = session[s].found)
      BY <1>4, PostsBatches DEF OnceInv, MirrorInv
    <3>2. CASE b = session[s].found
      <4>1. b # 0
        BY LenProperties DEF OnceInv, MirrorInv, TypeInv, Types
      <4>2. batches[b].journal \in Originals
        BY <3>2, <4>1 DEF OnceInv, FoundAreOriginals, FoundIsOriginal
      <4> QED BY <4>2 DEF Kept
    <3>3. CASE b # session[s].found
      BY <1>2, <3>1, <3>3, BatchesTyped DEF OnceInv, MirrorInv
    <3> QED BY <3>2, <3>3
  <2>2. InPlace(n)
    <3>1. CASE CommitPost(s)
      <4>1. batches'[n].key \in KeysOf[batches'[n].journal]
        BY <3>1, BatchAppended DEF OnceInv
      <4> QED BY <4>1 DEF ReversalsRest
    <3>2. CASE CommitReverse(s)
      <4>1. journal'[session[s].rev].of = session[s].j
        BY <3>2, ReversalWrites DEF OnceInv, MirrorInv
      <4>2. /\ ~batches'[n].retired
            /\ batches'[n].journal = session[s].rev
            /\ batches'[n].key = ReversalKey[<<session[s].j, batches'[n].journal>>]
        BY <3>2, BatchAppended DEF OnceInv
      <4> QED BY <4>1, <4>2
    <3> QED BY <1>4, <3>1, <3>2
  <2>3. \A b \in DOMAIN batches' : b \in DOMAIN batches \/ b = n
    BY <1>4, BatchAppended DEF OnceInv
  <2> HIDE DEF n
  <2> QED BY <2>1, <2>2, <2>3 DEF ReversalBatches
<1> QED BY <1>3, <1>4, BatchesMove DEF OnceInv, MirrorInv

LEMMA LiveKeysAreUniqueStep ==
  ASSUME OnceInv, [Next]_vars
  PROVE  LiveKeysAreUnique'
<1>1. CASE UNCHANGED batches
  BY <1>1 DEF OnceInv, LiveKeysAreUnique
<1>2. ASSUME NEW s \in Sessions, CommitPost(s) \/ CommitReverse(s) PROVE LiveKeysAreUnique'
  <2> DEFINE n == Len(batches) + 1
  <2>1. \A b \in DOMAIN batches :
          /\ batches'[b].key = batches[b].key
          /\ batches'[b].retired = (batches[b].retired \/ b = session[s].found)
          /\ batches[b].retired \in BOOLEAN
    BY <1>2, PostsBatches, BatchesTyped DEF OnceInv, MirrorInv
  <2>2. \A b \in DOMAIN batches :
          batches[b].key = session[s].key /\ ~batches[b].retired => b = session[s].found
    BY <1>2 DEF CommitPost, CommitReverse, KeyIsFree, LiveBatch
  <2>3. /\ \A b \in DOMAIN batches' : b \in DOMAIN batches \/ b = n
        /\ batches'[n].key = session[s].key
    BY <1>2, BatchAppended DEF OnceInv
  <2>4. \A b, c \in DOMAIN batches :
          ~batches'[b].retired /\ ~batches'[c].retired /\ batches'[b].key = batches'[c].key => b = c
    BY <2>1 DEF OnceInv, LiveKeysAreUnique
  <2>5. \A b \in DOMAIN batches : batches'[b].retired \/ batches'[b].key # batches'[n].key
    BY <2>1, <2>2, <2>3
  <2> HIDE DEF n
  <2> QED BY <2>3, <2>4, <2>5 DEF LiveKeysAreUnique
<1> QED BY <1>1, <1>2, BatchesMove DEF OnceInv, MirrorInv

LEMMA OneMirror ==
  ASSUME KeysAgree, OnceInv, NEW j \in Journals,
         NEW q \in PostedReversalsOf(j), NEW r \in PostedReversalsOf(j)
  PROVE  q = r
<1>1. /\ q \in Reversals /\ journal[q].of = j
      /\ r \in Reversals /\ journal[r].of = j
  BY DEF PostedReversalsOf
<1>2. PICK b \in DOMAIN batches : batches[b].journal = q
  BY DEF PostedReversalsOf, BatchesOf
<1>3. PICK c \in DOMAIN batches : batches[c].journal = r
  BY DEF PostedReversalsOf, BatchesOf
<1>4. /\ ~batches[b].retired /\ batches[b].key = ReversalKey[<<j, q>>]
      /\ ~batches[c].retired /\ batches[c].key = ReversalKey[<<j, r>>]
  BY <1>1, <1>2, <1>3 DEF OnceInv, ReversalBatches
<1>5. ReversalKey[<<j, q>>] = ReversalKey[<<j, r>>]
  BY <1>1, Zenon DEF KeysAgree
<1>6. b = c
  BY <1>4, <1>5 DEF OnceInv, LiveKeysAreUnique
<1> QED BY <1>2, <1>3, <1>6

LEMMA OnceImplied ==
  ASSUME KeysAgree, OnceInv
  PROVE  ReversedAtMostOnce
<1> SUFFICES ASSUME NEW j \in Journals PROVE Cardinality(PostedReversalsOf(j)) <= 1
  BY DEF ReversedAtMostOnce
<1>1. CASE PostedReversalsOf(j) = {}
  BY <1>1, FS_EmptySet
<1>2. ASSUME NEW r \in PostedReversalsOf(j) PROVE Cardinality(PostedReversalsOf(j)) <= 1
  <2>1. PostedReversalsOf(j) = {r}
    BY <1>2, OneMirror
  <2>2. Cardinality({r}) = 1
    BY FS_Singleton
  <2> QED BY <2>1, <2>2
<1> QED BY <1>1, <1>2

LEMMA OnceInit == Init => OnceInv
<1> SUFFICES ASSUME Init PROVE OnceInv
  OBVIOUS
<1>1. /\ \A s \in Sessions : session[s].pc = "idle" /\ session[s].found = 0
      /\ \A j \in Journals : journal[j].status = "NONE"
      /\ DOMAIN batches = {}
  BY DEF Init, IdleSession, Unwritten
<1> QED BY <1>1, MirrorInit
        DEF OnceInv, OriginalsAreReversed, FoundAreOriginals, FoundIsOriginal, ReversalBatches,
            LiveKeysAreUnique

LEMMA OnceStep ==
  ASSUME KeysIdentify, ReversalsRest, OnceInv, [Next]_vars
  PROVE  OnceInv'
<1>1. Kept
  BY KeptStep DEF OnceInv, MirrorInv
<1>2. MirrorInv'
  BY MirrorStep DEF OnceInv
<1>3. OriginalsAreReversed'
  BY OriginalsAreReversedStep DEF OnceInv
<1>4. FoundAreOriginals'
  BY <1>1, FoundAreOriginalsStep DEF OnceInv
<1>5. ReversalBatches'
  BY <1>1, ReversalBatchesStep
<1>6. LiveKeysAreUnique'
  BY LiveKeysAreUniqueStep
<1> QED BY <1>2, <1>3, <1>4, <1>5, <1>6 DEF OnceInv

\* With keys derived from the original, a journal is mirrored once, however
\* requests overlap and whether or not their callers lock it.
THEOREM ReversalHappensOnce ==
  ASSUME KeysIdentify, KeysAgree
  PROVE  Spec => []ReversedAtMostOnce
<1>1. OnceInv /\ [Next]_vars => OnceInv'
  BY OnceStep DEF KeysAgree
<1>2. OnceInv => ReversedAtMostOnce
  BY OnceImplied
<1> QED BY <1>1, <1>2, OnceInit, PTL DEF Spec

=============================================================================
