---------------------------- MODULE JournalLedger ----------------------------
(***************************************************************************)
(* GL journals and the ledger they are posted to: JournalService, the      *)
(* posting adapters, LedgerPostingService and ReversalService.             *)
(*                                                                         *)
(* Every request works in one transaction of its own.  It loads a journal  *)
(* (without a lock, and never again: the row stays in the identity map),   *)
(* checks the loaded status, looks its idempotency key up, and writes.     *)
(* A batch stands for the posted ledger lines of one journal: they are     *)
(* inserted with it and never change.                                      *)
(***************************************************************************)
EXTENDS Naturals, Sequences, FiniteSets

CONSTANTS
  Originals,      \* journals written by hand or for a source document
  Reversals,      \* journals ReversalService creates
  Sessions,       \* requests and tasks
  None,
  KeysOf,         \* KeysOf[j]: the idempotency keys j is posted under
  ReversalKey,    \* ReversalKey[j, r]: the key under which r reverses j
  Reversible,     \* the journals somebody reverses
  Locked,         \* the journals whose reversers lock them before they check
  MaxBatches      \* bound: postings

Journals == Originals \cup Reversals

Keys == (UNION {KeysOf[j] : j \in Journals})
          \cup {ReversalKey[x] : x \in Journals \X Reversals}

ASSUME LedgerConstants ==
  /\ Originals \cap Reversals = {}
  /\ None \notin Journals
  /\ DOMAIN KeysOf = Journals
  /\ DOMAIN ReversalKey = Journals \X Reversals
  /\ Reversible \subseteq Journals
  /\ Locked \subseteq Journals
  /\ MaxBatches \in Nat

VARIABLES
  journal,    \* gl.journal_entry
  batches,    \* gl.posting_batch, in the order of insertion, with their lines
  session     \* the requests under way

vars == <<journal, batches, session>>

-----------------------------------------------------------------------------
Statuses == {"NONE", "DRAFT", "SUBMITTED", "APPROVED", "POSTED", "REVERSED", "VOID", "DELETED"}

\* of: the journal this one reverses; link: reversal_journal_id; batch:
\* posting_batch_id, zero for NULL.
Unwritten == [status |-> "NONE", of |-> None, link |-> None, batch |-> 0]

\* seen: the row as loaded; found: the superseded batch to retire, or zero.
IdleSession == [pc |-> "idle", op |-> None, j |-> None, seen |-> Unwritten,
                key |-> None, rev |-> None, found |-> 0]

Init ==
  /\ journal = [j \in Journals |-> Unwritten]
  /\ batches = <<>>
  /\ session = [s \in Sessions |-> IdleSession]

Begun(op, j, seen, key) ==
  [pc |-> "loaded", op |-> op, j |-> j, seen |-> seen, key |-> key, rev |-> None, found |-> 0]

Load(s, op, j, key) == session' = [session EXCEPT ![s] = Begun(op, j, journal[j], key)]

End(s) == session' = [session EXCEPT ![s] = IdleSession]

\* A reversal holds the original's row from the flush of its link on, or
\* from the start when the caller locked it.
HoldsRow(s, j) ==
  /\ session[s].op = "reverse"
  /\ session[s].j = j
  /\ session[s].pc = "ready" \/ session[s].j \in Locked

RowFree(s, j) == \A t \in Sessions \ {s} : ~HoldsRow(t, j)

\* An UPDATE of a row another session deleted fails.
Writable(s, j) == RowFree(s, j) /\ journal[j].status # "DELETED"

-----------------------------------------------------------------------------
(* The journal's own steps: load, check the status, write. *)

\* create_journal.
CreateJournal(j) ==
  /\ journal[j].status = "NONE"
  /\ ~ \E s \in Sessions : session[s].j = j
  /\ journal' = [journal EXCEPT ![j].status = "DRAFT"]
  /\ UNCHANGED <<batches, session>>

\* The compensation of a posting saga's first step spares a POSTED journal only.
Undoable == {"DRAFT", "SUBMITTED", "APPROVED", "REVERSED"}

\* What each request wants to see, and what it then writes; undo is that
\* compensation.
Steps == [submit  |-> [from |-> {"DRAFT"}, to |-> "SUBMITTED"],
          approve |-> [from |-> {"SUBMITTED"}, to |-> "APPROVED"],
          void    |-> [from |-> {"DRAFT", "SUBMITTED", "APPROVED"}, to |-> "VOID"],
          delete  |-> [from |-> {"DRAFT"}, to |-> "DELETED"],
          undo    |-> [from |-> Undoable, to |-> "VOID"]]

\* The one caller of void_journal asks for a journal without any evidence of
\* a posting or a reversal.
Unposted(j) ==
  /\ journal[j].batch = 0
  /\ journal[j].link = None
  /\ \A b \in DOMAIN batches : batches[b].journal # j

BeginStep(s, op, j) ==
  /\ session[s].pc = "idle"
  /\ journal[j].status \in Steps[op].from
  /\ op = "void" => Unposted(j)
  /\ op = "undo" => j \in Originals
  /\ Load(s, op, j, None)
  /\ UNCHANGED <<journal, batches>>

\* The UPDATE has no condition on the status that was checked.
WriteStep(s) ==
  LET j == session[s].j IN
  /\ session[s].pc = "loaded"
  /\ session[s].op \in DOMAIN Steps
  /\ Writable(s, j)
  /\ journal' = [journal EXCEPT ![j].status = Steps[session[s].op].to]
  /\ End(s)
  /\ UNCHANGED batches

-----------------------------------------------------------------------------
(* LedgerPostingService.post_journal_entry *)

LiveBatch(b, k) == batches[b].key = k /\ ~batches[b].retired

\* Variant: no journal POSTED under the batch is reason enough.
BatchHasNoPostedJournal(b) ==
  ~ \E j \in Journals : journal[j].batch = b /\ journal[j].status = "POSTED"

\* Variant: a voided journal counts as a reversed one.
BatchReversedOrVoided(b) ==
  /\ BatchHasNoPostedJournal(b)
  /\ \E j \in Journals : journal[j].batch = b /\ journal[j].status \in {"REVERSED", "VOID"}

\* _batch_posting_reversed
BatchPostingReversed(b) ==
  /\ ~ \E j \in Journals : journal[j].batch = b /\ journal[j].status = "POSTED"
  /\ \E j \in Journals : journal[j].batch = b /\ journal[j].status = "REVERSED"

\* The batch that answers for a key, if one does: a request under the key is
\* then a replay and writes nothing.
Answers(b, k) == LiveBatch(b, k) /\ ~BatchPostingReversed(b)

Replayed(k) == \E b \in DOMAIN batches : Answers(b, k)

Superseded(k) == {b \in DOMAIN batches : LiveBatch(b, k) /\ BatchPostingReversed(b)}

\* Variant: the key is not unique.
KeyIsNotUnique(s) == session[s].pc = "ready"

\* The unique index on the key, once the superseded batch has given it up.
KeyIsFree(s) == \A b \in DOMAIN batches :
  LiveBatch(b, session[s].key) => b = session[s].found

\* _retire_superseded_batch_key, then the new batch and its lines.
Posted(s, j) ==
  Append([b \in DOMAIN batches |->
            [batches[b] EXCEPT !.retired = @ \/ b = session[s].found]],
         [key |-> session[s].key, journal |-> j, retired |-> FALSE])

\* The lookup of step 2, for a request that goes on to post.
FindBatch(s) ==
  LET k == session[s].key IN
  /\ session[s].pc = "loaded"
  /\ session[s].op = "post"
  /\ ~Replayed(k)
  /\ \E b \in IF Superseded(k) = {} THEN {0} ELSE Superseded(k) :
       session' = [session EXCEPT ![s].pc = "ready", ![s].found = b]
  /\ UNCHANGED <<journal, batches>>

\* An approved journal is posted, or one that an adapter created, submitted
\* and approved in this transaction (create_approve_and_post_journal).
BeginPost(s, j, k) ==
  /\ session[s].pc = "idle"
  /\ k \in KeysOf[j]
  /\ \/ journal[j].status = "APPROVED"
     \/ /\ j \in Originals
        /\ journal[j].status = "NONE"
        /\ \A t \in Sessions : session[t].j # j
  /\ Load(s, "post", j, k)
  /\ UNCHANGED <<journal, batches>>

\* Success without a posting: a journal created for it stays approved.
ReplayPost(s) ==
  LET j == session[s].j IN
  /\ session[s].pc = "loaded"
  /\ session[s].op = "post"
  /\ Replayed(session[s].key)
  /\ journal' = IF session[s].seen.status = "NONE"
                  THEN [journal EXCEPT ![j].status = "APPROVED"]
                  ELSE journal
  /\ End(s)
  /\ UNCHANGED batches

CommitPost(s) ==
  LET j == session[s].j IN
  /\ session[s].pc = "ready"
  /\ session[s].op = "post"
  /\ Writable(s, j)
  /\ KeyIsFree(s)
  /\ Len(batches) < MaxBatches
  /\ batches' = Posted(s, j)
  /\ journal' = [journal EXCEPT ![j].status = "POSTED", ![j].batch = Len(batches) + 1]
  /\ End(s)

\* The posting was refused (a closed period, lines out of balance) and the
\* adapter puts the journal it loaded as approved back to draft.
RevertUnpostedJournal(s) ==
  LET j == session[s].j IN
  /\ session[s].pc = "ready"
  /\ session[s].op = "post"
  /\ session[s].seen.batch = 0
  /\ Writable(s, j)
  /\ journal' = [journal EXCEPT ![j].status = "DRAFT"]
  /\ End(s)
  /\ UNCHANGED batches

-----------------------------------------------------------------------------
(* ReversalService.create_reversal with auto_post, as all callers use it *)

\* Variant: the link to an earlier reversal is not checked.
BeginReverseAgain(s, j) ==
  /\ session[s].pc = "idle"
  /\ j \in Reversible
  /\ journal[j].status = "POSTED"
  /\ j \in Locked => RowFree(s, j)
  /\ Load(s, "reverse", j, None)
  /\ UNCHANGED <<journal, batches>>

BeginReverse(s, j) ==
  /\ session[s].pc = "idle"
  /\ j \in Reversible
  /\ journal[j].status = "POSTED"
  /\ journal[j].link = None
  /\ j \in Locked => RowFree(s, j)
  /\ Load(s, "reverse", j, None)
  /\ UNCHANGED <<journal, batches>>

\* Variant: no key is made up when the caller gives none.
LinkWithoutKey(s, r) ==
  /\ session[s].pc = "loaded"
  /\ session[s].op = "reverse"
  /\ Writable(s, session[s].j)
  /\ journal[r].status = "NONE"
  /\ session' = [session EXCEPT ![s].pc = "ready", ![s].rev = r]
  /\ UNCHANGED <<journal, batches>>

\* The journal number: its sequence row stays locked to the end, so reversals
\* go on one at a time.  Then the link is flushed and the key looked up.
LinkReversal(s, r) ==
  LET j == session[s].j
      k == ReversalKey[<<j, r>>]
  IN
  /\ session[s].pc = "loaded"
  /\ session[s].op = "reverse"
  /\ \A t \in Sessions : ~(session[t].op = "reverse" /\ session[t].pc = "ready")
  /\ Writable(s, j)
  /\ journal[r].status = "NONE"
  /\ \E b \in IF Superseded(k) = {} THEN {0} ELSE Superseded(k) :
       session' = [session EXCEPT ![s].pc = "ready", ![s].found = b,
                                  ![s].key = k, ![s].rev = r]
  /\ UNCHANGED <<journal, batches>>

Reversing(s, status, batch) ==
  LET j == session[s].j
      r == session[s].rev
  IN  journal' = [journal EXCEPT ![j].status = "REVERSED", ![j].link = r,
                                 ![r] = [status |-> status, of |-> j, link |-> None,
                                         batch |-> batch]]

CommitReverse(s) ==
  /\ session[s].pc = "ready"
  /\ session[s].op = "reverse"
  /\ KeyIsFree(s)
  /\ Len(batches) < MaxBatches
  /\ batches' = Posted(s, session[s].rev)
  /\ Reversing(s, "POSTED", Len(batches) + 1)
  /\ End(s)

\* The key answers already: the reversal stays approved, the original is
\* marked reversed all the same.
ReplayReverse(s) ==
  /\ session[s].pc = "ready"
  /\ session[s].op = "reverse"
  /\ Replayed(session[s].key)
  /\ Reversing(s, "APPROVED", 0)
  /\ End(s)
  /\ UNCHANGED batches

-----------------------------------------------------------------------------
\* Refused, or lost: the transaction rolls back.
RollBack(s) ==
  /\ session[s].pc # "idle"
  /\ End(s)
  /\ UNCHANGED <<journal, batches>>

Next ==
  \/ \E j \in Originals : CreateJournal(j)
  \/ \E s \in Sessions :
       \/ \E j \in Journals : \/ \E op \in DOMAIN Steps : BeginStep(s, op, j)
                              \/ \E k \in KeysOf[j] : BeginPost(s, j, k)
                              \/ BeginReverse(s, j)
       \/ WriteStep(s)
       \/ FindBatch(s) \/ ReplayPost(s) \/ CommitPost(s) \/ RevertUnpostedJournal(s)
       \/ \E r \in Reversals : LinkReversal(s, r)
       \/ CommitReverse(s) \/ ReplayReverse(s)
       \/ RollBack(s)

Spec == Init /\ [][Next]_vars

=============================================================================
