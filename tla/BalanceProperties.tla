-------------------------- MODULE BalanceProperties --------------------------
(***************************************************************************)
(* What the balance projection of module BalanceProjection has to          *)
(* guarantee to the readers of gl.account_balance.                         *)
(***************************************************************************)
EXTENDS BalanceProjection

Rows == [live : BOOLEAN, sum : SUBSET Postings, stale : BOOLEAN]

\* Every table cell and session field is in its range; a committed posting
\* has an outbox event.
TypeOK ==
  /\ \A k \in Keys : \A i \in DOMAIN rows[k] : rows[k][i] \in Rows
  /\ queue \in [Keys -> {"none", "pending", "done"}]
  /\ event \in [Postings -> {"none", "queued", "published"}]
  /\ \A p \in Postings :
       /\ poster[p].pc \in {"idle", "mark", "select", "write", "commit"}
       /\ poster[p].pc # "idle" => event[p] = "none"
       /\ poster[p].todo \subseteq Lines[p]
  /\ \A r \in Refreshers :
       /\ refresher[r].pc \in {"idle", "lock", "read", "flush", "close", "commit"}
       /\ refresher[r].sum \subseteq Postings
       /\ refresher[r].i \in Nat
  /\ reconciler.pc \in {"idle", "compare", "repair", "delete", "aggregate", "commit"}
  /\ rebuilder.pc \in {"idle", "read", "flush", "commit"}
  /\ rebuilds \in 0..MaxRebuilds
  /\ failures \in 0..MaxFailures

\* What the projection says of a key, to a reader that adds up its rows.
Projected(k) == UNION {rows[k][i].sum : i \in Live(k)}

\* A PUBLISHED posting event has had its consequence: the balance of each of
\* its keys contains the posting, whatever older refreshes were under way.
PublishedIsProjected == \A p \in Postings :
  event[p] = "published" => \A k \in Lines[p] : p \in Projected(k)

\* A key never has two rows, whose sum a report would count twice: nothing in
\* the table forbids it, since the dimensions in uq_account_balance are null.
OneRowPerKey == \A k \in Keys : Cardinality(Live(k)) <= 1

\* An older snapshot never overwrites a newer refresh that finished first.
ProjectionNeverRegresses ==
  [][\A k \in Keys : Projected(k) \subseteq Projected(k)']_vars

\* Once posting stops, every balance comes to agree with the ledger and stays
\* so: with its lost invalidations, its stale rebuilds and its duplicate rows
\* repaired, and its deadlocks broken.
EventuallyCurrent == <>[](\A k \in Keys : Agrees(k, Ledger(k)))

=============================================================================
