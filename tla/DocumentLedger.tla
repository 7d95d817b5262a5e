--------------------------- MODULE DocumentLedger ---------------------------
(***************************************************************************)
(* What posting and reversal promise of the documents behind the journals, *)
(* with statuses, batches, requests and locks left out: an idempotency key *)
(* is a switch.  One posting takes effect under it at a time, and a        *)
(* reversal takes effect back that is there, from each journal once.       *)
(***************************************************************************)
EXTENDS Integers

CONSTANTS
  Entries,    \* the journals
  KeysOf      \* KeysOf[j]: the keys j is posted under

VARIABLES
  counts,     \* the postings whose lines count: pairs of a journal and a key
  mirrored    \* the journals that were reversed

vars == <<counts, mirrored>>

Init ==
  /\ counts = {}
  /\ mirrored = {}

Post(j, k) ==
  /\ \A i \in Entries : <<i, k>> \notin counts
  /\ counts' = counts \cup {<<j, k>>}
  /\ UNCHANGED mirrored

Reverse(j, k) ==
  /\ <<j, k>> \in counts
  /\ j \notin mirrored
  /\ counts' = counts \ {<<j, k>>}
  /\ mirrored' = mirrored \cup {j}

Next == \E j \in Entries : \E k \in KeysOf[j] : Post(j, k) \/ Reverse(j, k)

Spec == Init /\ [][Next]_vars

=============================================================================
