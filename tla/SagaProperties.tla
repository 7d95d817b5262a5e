--------------------------- MODULE SagaProperties ---------------------------
(***************************************************************************)
(* What a saga's rows tell about the effects of its steps, as long as no   *)
(* two requests have run it at once.                                       *)
(***************************************************************************)
EXTENDS Saga

\* Statuses, positions and counts stay in their ranges.
TypeOK ==
  /\ saga \in [status : Statuses, current : 0..N]
  /\ step \in [Steps -> StepStatuses]
  /\ effect \in [Steps -> Counts]
  /\ runner \in [Runners -> Attempts]
  /\ crashes \in 0..MaxCrashes
  /\ overlapped \in BOOLEAN

\* Steps whose effect is committed by the orchestrator, with their row.
Flushing == Steps \ (ReadOnly \cup SelfCommitting)

\* COMPLETED says that every step took effect, through any number of crashes
\* and resumptions (_execute_steps skips nothing it has not completed).
CompletedMeansDone ==
  ~overlapped /\ saga.status = "COMPLETED" =>
    \A i \in Steps \ ReadOnly : effect[i] > 0

\* The orchestrator's own commits keep effect and record together: the effect
\* of a step that leaves the commit to it is in force once, exactly while the
\* step's row is COMPLETED, or, at most, while its compensation is unsettled.
EffectsAreOnRecord == ~overlapped => \A i \in Flushing :
  /\ step[i] = "COMPLETED" => effect[i] = 1
  /\ step[i] = "COMPENSATING" => effect[i] \in {0, 1}
  /\ step[i] \notin {"COMPLETED", "COMPENSATING"} => effect[i] = 0

\* A step that commits itself is repeated by a crash between that commit and
\* the one that completes its row, and by nothing else.
OnlyCrashesRepeat == ~overlapped =>
  \A i \in Steps : effect[i] <= 1 + crashes

\* COMPENSATED does not say that nothing is left (a compensation that failed
\* or was interrupted is never tried again), but what is left is marked: each
\* effect the orchestrator committed is undone, or its row is COMPENSATING.
WhatIsLeftIsMarked ==
  ~overlapped /\ saga.status = "COMPENSATED" =>
    \A i \in Flushing : effect[i] > 0 => step[i] = "COMPENSATING"

\* Steps are undone in reverse: a row becomes COMPENSATED only when no later
\* step is completed, also when retry_compensation takes the saga up again.
UndoneInOrder == [][
  ~overlapped' => \A i \in Steps :
    step[i] # "COMPENSATED" /\ step'[i] = "COMPENSATED" =>
      \A j \in Steps : j > i => step[j] # "COMPLETED"]_vars

\* While one runner at a time has been at the saga, a settled saga has nobody
\* left at it who could still write; and whoever overlapped before, once
\* nobody is at a settled saga nobody takes it up again.  Either way only the
\* manual verdict and retention change the outcome.  (A runner that is late
\* to an outcome another one wrote does overwrite it; so does a live runner
\* the manual verdict.)
SettledStaysSettled == [][
  /\ saga.status \in {"COMPLETED", "COMPENSATED"}
  /\ ~overlapped \/ \A p \in Runners : At(p, "idle")
  => /\ saga'.status \in {saga.status, "FAILED", "none"}
     /\ UNCHANGED runner]_vars

=============================================================================
