------------------------------ MODULE MCLedger ------------------------------
(***************************************************************************)
(* TLC instances of LedgerProperties: two journals written for the same    *)
(* document, so that one is posted after the other was reversed, each with *)
(* the key the backlog gives it besides the document's.  The reversers of  *)
(* one lock it, those of the other rely on the key alone.                  *)
(***************************************************************************)
EXTENDS LedgerProperties, TLC

CONSTANT doc

\* The originals share their document's key and have a default key of their own
\* ("{organization}:GL:{journal}:v1"); nobody posts a reversal again.
KeysByDocument == [j \in Journals |->
  IF j \in Originals THEN {doc, <<"GL", j>>} ELSE {}]

\* A reversal's key is derived from the journal it reverses, or from itself.
KeyByOriginal == [x \in Journals \X Reversals |-> <<"reversal", x[1]>>]
KeyByReversal == [x \in Journals \X Reversals |-> <<"reversal", x[2]>>]

Symmetry == Permutations(Sessions) \cup Permutations(Reversals)

=============================================================================
