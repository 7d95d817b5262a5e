------------------------------ MODULE MCPeriod ------------------------------
(***************************************************************************)
(* TLC instances of PeriodProperties: a month, and a period of its last    *)
(* day that is created as its adjustment period or, where the month is     *)
(* not there, as a regular one.                                            *)
(***************************************************************************)
EXTENDS PeriodProperties, TLC

MCDays == [p \in Periods |-> IF p = 1 THEN {"last"} ELSE {"first", "last"}]
MCKinds == [p \in Periods |-> IF p = 1 THEN {"regular", "adjustment"} ELSE {"regular"}]
MCDate == [j \in Journals |-> "last"]

Symmetry == Permutations(Sessions)

=============================================================================
