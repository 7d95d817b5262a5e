-------------------------- MODULE LedgerProperties --------------------------
(***************************************************************************)
(* What the journals of module JournalLedger and the ledger have to agree  *)
(* on, however requests overlap.                                           *)
(***************************************************************************)
EXTENDS JournalLedger, Integers

Links == Journals \cup {None}

Rows == [status : Statuses, of : Links, link : Links, batch : 0..MaxBatches]

\* Every column and every request is in its range; a request that is ready to
\* write has a key.
TypeOK ==
  /\ journal \in [Journals -> Rows]
  /\ Len(batches) <= MaxBatches
  /\ \A b \in DOMAIN batches :
       batches[b] \in [key : Keys, journal : Journals, retired : BOOLEAN]
  /\ \A s \in Sessions :
       /\ session[s].pc \in {"idle", "loaded", "ready"}
       /\ session[s].op \in DOMAIN Steps \cup {"post", "reverse", None}
       /\ session[s].j \in Links
       /\ session[s].rev \in Reversals \cup {None}
       /\ session[s].found \in 0..Len(batches)
       /\ session[s].pc = "ready" => session[s].key \in Keys

\* The batches that hold posted ledger lines of a journal.
BatchesOf(j) == {b \in DOMAIN batches : batches[b].journal = j}

PostedReversalsOf(j) == {r \in Reversals : journal[r].of = j /\ BatchesOf(r) # {}}

\* A journal's net effect on the ledger: how often its lines are posted and
\* not mirrored.  A reversal mirrors, unless it was reversed itself.
Effect[j \in Journals] ==
  IF BatchesOf(j) = {} THEN 0
  ELSE Cardinality(BatchesOf(j))
         - Cardinality({r \in PostedReversalsOf(j) : Effect[r] > 0})

\* A reversal takes back the last posting before its own.
Undone(b) == \E r \in PostedReversalsOf(batches[b].journal) : \E c \in BatchesOf(r) :
  /\ b < c
  /\ \A d \in BatchesOf(batches[b].journal) : b < d => c < d

\* The journals whose reversers lock.
Guarded == Originals \cap Locked

\* The postings in force of these, and of the journals nothing mirrors.
InForce == {b \in DOMAIN batches :
  /\ batches[b].journal \in Originals
  /\ batches[b].journal \in Locked \/ PostedReversalsOf(batches[b].journal) = {}
  /\ ~Undone(b)}

\* The idempotency key does what it is for, however requests overlap: one
\* posting is in force under it, of one journal, and what is in force is what
\* the ledger shows, as each reversal takes a posting back that was in force.
\* The document a journal is posted for counts as often as it has keys:
\* resolve_journal_posting_idempotency_key gives the backlog a second one.
CountsOncePerKey ==
  /\ \A b, c \in InForce : batches[b].key = batches[c].key => b = c
  /\ \A j \in Originals : j \in Locked \/ PostedReversalsOf(j) = {} =>
       Effect[j] = Cardinality({b \in InForce : batches[b].journal = j})

\* What a settled status says is what the ledger says, when reversers lock: the
\* last posting of a POSTED journal is in force, that of a REVERSED one was
\* taken back, by the reversal linked (create_reversal: "reversal_journal_id").
StatusTellsTheLedger == \A j \in Guarded :
  /\ journal[j].status = "POSTED" => /\ journal[j].batch \in BatchesOf(j)
                                     /\ ~Undone(journal[j].batch)
  /\ journal[j].status = "REVERSED" => /\ journal[j].batch \in BatchesOf(j)
                                       /\ Undone(journal[j].batch)
                                       /\ PostedReversalsOf(j) = {journal[j].link}

\* A key is retired only from a batch of a journal whose lines are mirrored,
\* whoever reversed it: no journal gives up a key before it was taken back.
RetiredKeysAreMirrored == \A b \in DOMAIN batches :
  batches[b].retired => PostedReversalsOf(batches[b].journal) # {}

\* A journal is reversed once: the second reversal is refused, or a key
\* derived from the journal answers it.
ReversedAtMostOnce == \A j \in Journals : Cardinality(PostedReversalsOf(j)) <= 1

-----------------------------------------------------------------------------
(* The ledger implements DocumentLedger for journals whose reversers lock. *)

Documents == INSTANCE DocumentLedger
  WITH Entries <- Guarded,
       counts <- {<<batches[b].journal, batches[b].key>> :
                    b \in {c \in InForce : batches[c].journal \in Guarded}},
       mirrored <- {j \in Guarded : PostedReversalsOf(j) # {}}

\* The requests that overlap take effect one at a time: each posting finds that
\* nothing counts under its key, each reversal that its journal does and was
\* not reversed before, whatever they had read when they began.
ImplementsDocuments == Documents!Spec

=============================================================================
