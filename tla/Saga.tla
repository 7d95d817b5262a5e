-------------------------------- MODULE Saga --------------------------------
(***************************************************************************)
(* SagaOrchestrator and SagaRecoveryService: one saga, the requests and    *)
(* recovery calls that run it, and the effects of its steps.               *)
(*                                                                         *)
(* The orchestrator commits before and after every step, so a runner that  *)
(* dies leaves the saga between two commits, and the next request with its *)
(* key, or a recovery call, takes it up from there.  Nothing keeps two     *)
(* runners apart: overlapped says that it happened.                        *)
(*                                                                         *)
(* A step's effect is what a complete execution of it does; what a failing *)
(* execution may have flushed is not counted.                              *)
(***************************************************************************)
EXTENDS Integers

CONSTANTS
  N,              \* number of steps
  ReadOnly,       \* steps without effect and without compensation
  SelfCommitting, \* steps that commit their effect before they return
  Runners,        \* requests, recovery calls
  MaxCrashes      \* bound: runners that die

Steps == 1..N

ASSUME SagaConstants ==
  /\ N \in Nat
  /\ ReadOnly \subseteq Steps
  /\ SelfCommitting \subseteq Steps \ ReadOnly
  /\ MaxCrashes \in Nat

VARIABLES
  saga,      \* platform.saga_execution: status and current_step
  step,      \* platform.saga_step: the status of each
  effect,    \* how often each step's effect is in force
  runner,    \* who runs the saga
  crashes,
  overlapped \* two have been at it at once

vars == <<saga, step, effect, runner, crashes, overlapped>>

-----------------------------------------------------------------------------
Statuses == {"none", "PENDING", "EXECUTING", "COMPLETED", "COMPENSATING", "COMPENSATED", "FAILED"}
Terminal == {"COMPLETED", "COMPENSATED", "FAILED"}
StepStatuses == {"PENDING", "EXECUTING", "COMPLETED", "FAILED", "COMPENSATING", "COMPENSATED"}

\* Effects in force are counted up to one more than crashes can repeat.
Counts == 0..(MaxCrashes + 2)
Plus(n)  == IF n < MaxCrashes + 2 THEN n + 1 ELSE n
Minus(n) == IF n > 0 THEN n - 1 ELSE n

\* seen: the saga's status as loaded; i: the step the loop is at; failed:
\* compensation_failed.
Activities == {"idle", "toExecute", "toCompensate", "executing", "inside", "committed",
               "compensating", "undoing", "undone"}
Attempts == [pc : Activities, seen : Statuses, i : 0..(N + 1), failed : BOOLEAN]
Idle == [pc |-> "idle", seen |-> "none", i |-> 0, failed |-> FALSE]

NoSaga == [status |-> "none", current |-> 0]
NoSteps == [i \in Steps |-> "PENDING"]
NoEffects == [i \in Steps |-> 0]

Init ==
  /\ saga = NoSaga
  /\ step = NoSteps
  /\ effect = NoEffects
  /\ runner = [p \in Runners |-> Idle]
  /\ crashes = 0
  /\ overlapped = FALSE

At(p, pc) == runner[p].pc = pc

Goes(p, pc) == runner' = [runner EXCEPT ![p].pc = pc]
GoesOn(p, pc, i) == runner' = [runner EXCEPT ![p].pc = pc, ![p].i = i]
Ends(p) == runner' = [runner EXCEPT ![p] = Idle]

\* p takes up the saga, which it loads with status seen.
TakesUp(p, pc, seen) ==
  /\ runner' = [runner EXCEPT ![p] = [pc |-> pc, seen |-> seen, i |-> 0, failed |-> FALSE]]
  /\ overlapped' = (overlapped \/ \E q \in Runners \ {p} : ~At(q, "idle"))

-----------------------------------------------------------------------------
(* Taking a saga up.                                                       *)

\* execute, for a new key.
Create(p) ==
  /\ At(p, "idle")
  /\ saga.status = "none"
  /\ saga' = [saga EXCEPT !.status = "PENDING"]
  /\ TakesUp(p, "toExecute", "PENDING")
  /\ UNCHANGED <<step, effect, crashes>>

\* Variant: an outcome is no reason to return.
ResumeSettled(p) ==
  /\ At(p, "idle")
  /\ saga.status # "none"
  /\ TakesUp(p, IF saga.status = "COMPENSATING" THEN "toCompensate" ELSE "toExecute", saga.status)
  /\ UNCHANGED <<saga, step, effect, crashes>>

\* execute with a key in use (_handle_existing_saga), or recover_saga.
Resume(p) ==
  /\ At(p, "idle")
  /\ saga.status \in {"PENDING", "EXECUTING", "COMPENSATING"}
  /\ TakesUp(p, IF saga.status = "COMPENSATING" THEN "toCompensate" ELSE "toExecute", saga.status)
  /\ UNCHANGED <<saga, step, effect, crashes>>

\* recover_saga with force_compensate.
ForceCompensate(p) ==
  /\ At(p, "idle")
  /\ saga.status \in {"PENDING", "EXECUTING"}
  /\ TakesUp(p, "toCompensate", saga.status)
  /\ UNCHANGED <<saga, step, effect, crashes>>

\* retry_compensation, with a completed step left to undo,
RetryCompensation(p) ==
  /\ At(p, "idle")
  /\ saga.status = "FAILED"
  /\ \E i \in Steps : step[i] = "COMPLETED"
  /\ saga' = [saga EXCEPT !.status = "COMPENSATING"]
  /\ TakesUp(p, "toCompensate", "FAILED")
  /\ UNCHANGED <<step, effect, crashes>>

\* and without one.
NothingToCompensate ==
  /\ saga.status = "FAILED"
  /\ \A i \in Steps : step[i] # "COMPLETED"
  /\ saga' = [saga EXCEPT !.status = "COMPENSATED"]
  /\ overlapped' = (overlapped \/ \E q \in Runners : ~At(q, "idle"))
  /\ UNCHANGED <<step, effect, runner, crashes>>

\* Whoever takes a saga up writes its status, if it loaded another one.
Starts(p, status) ==
  saga' = IF runner[p].seen = status THEN saga ELSE [saga EXCEPT !.status = status]

-----------------------------------------------------------------------------
(* _execute_steps                                                          *)

\* Variant: the step that was under way is taken for done.
BeginExecuteAfter(p) ==
  /\ At(p, "toExecute")
  /\ Starts(p, "EXECUTING")
  /\ GoesOn(p, "executing", saga.current + 2)
  /\ UNCHANGED <<step, effect, crashes, overlapped>>

BeginExecute(p) ==
  /\ At(p, "toExecute")
  /\ Starts(p, "EXECUTING")
  /\ GoesOn(p, "executing", saga.current + 1)
  /\ UNCHANGED <<step, effect, crashes, overlapped>>

\* Variant: whatever was begun is skipped.
SkipBegun(p) ==
  LET i == runner[p].i IN
  /\ At(p, "executing")
  /\ i \in Steps
  /\ step[i] # "PENDING"
  /\ GoesOn(p, "executing", i + 1)
  /\ UNCHANGED <<saga, step, effect, crashes, overlapped>>

SkipCompleted(p) ==
  LET i == runner[p].i IN
  /\ At(p, "executing")
  /\ i \in Steps
  /\ step[i] = "COMPLETED"
  /\ GoesOn(p, "executing", i + 1)
  /\ UNCHANGED <<saga, step, effect, crashes, overlapped>>

EnterStep(p) ==
  LET i == runner[p].i IN
  /\ At(p, "executing")
  /\ i \in Steps
  /\ step[i] # "COMPLETED"
  /\ step' = [step EXCEPT ![i] = "EXECUTING"]
  /\ Goes(p, "inside")
  /\ UNCHANGED <<saga, effect, crashes, overlapped>>

\* Variant: a failure after the commit makes the step start again.
StepCommitsAgain(p) ==
  LET i == runner[p].i IN
  /\ At(p, "inside")
  /\ i \in SelfCommitting
  /\ effect' = [effect EXCEPT ![i] = Plus(@)]
  /\ \E pc \in {"inside", "committed"} : Goes(p, pc)
  /\ UNCHANGED <<saga, step, crashes, overlapped>>

\* The commit inside a step such as _step_create_journal of the AP saga.
StepCommits(p) ==
  LET i == runner[p].i IN
  /\ At(p, "inside")
  /\ i \in SelfCommitting
  /\ effect' = [effect EXCEPT ![i] = Plus(@)]
  /\ Goes(p, "committed")
  /\ UNCHANGED <<saga, step, crashes, overlapped>>

\* Variant: current_step is left to the end.
StepSucceedsUncounted(p) ==
  LET i == runner[p].i IN
  /\ \/ At(p, "committed")
     \/ At(p, "inside") /\ i \notin SelfCommitting
  /\ effect' = IF i \in ReadOnly \cup SelfCommitting THEN effect
               ELSE [effect EXCEPT ![i] = Plus(@)]
  /\ step' = [step EXCEPT ![i] = "COMPLETED"]
  /\ GoesOn(p, "executing", i + 1)
  /\ UNCHANGED <<saga, crashes, overlapped>>

\* The other steps' effects are committed with the COMPLETED row.
StepSucceeds(p) ==
  LET i == runner[p].i IN
  /\ \/ At(p, "committed")
     \/ At(p, "inside") /\ i \notin SelfCommitting
  /\ effect' = IF i \in ReadOnly \cup SelfCommitting THEN effect
               ELSE [effect EXCEPT ![i] = Plus(@)]
  /\ step' = [step EXCEPT ![i] = "COMPLETED"]
  /\ saga' = [saga EXCEPT !.current = i]
  /\ GoesOn(p, "executing", i + 1)
  /\ UNCHANGED <<crashes, overlapped>>

\* The step raises, or returns a failure: its row says so, and the completed
\* steps are to be compensated.
StepFails(p) ==
  LET i == runner[p].i IN
  /\ At(p, "inside")
  /\ step' = [step EXCEPT ![i] = "FAILED"]
  /\ runner' = [runner EXCEPT ![p].pc = "toCompensate", ![p].seen = saga.status]
  /\ UNCHANGED <<saga, effect, crashes, overlapped>>

Complete(p) ==
  /\ At(p, "executing")
  /\ runner[p].i > N
  /\ saga' = [saga EXCEPT !.status = "COMPLETED"]
  /\ Ends(p)
  /\ UNCHANGED <<step, effect, crashes, overlapped>>

-----------------------------------------------------------------------------
(* _compensate_steps                                                       *)

\* Variant: the step before the last completed one comes first.
BeginCompensateBefore(p) ==
  /\ At(p, "toCompensate")
  /\ Starts(p, "COMPENSATING")
  /\ runner' = [runner EXCEPT ![p].pc = "compensating", ![p].failed = FALSE,
                              ![p].i = IF saga.current = 0 THEN 0 ELSE saga.current - 1]
  /\ UNCHANGED <<step, effect, crashes, overlapped>>

BeginCompensate(p) ==
  /\ At(p, "toCompensate")
  /\ Starts(p, "COMPENSATING")
  /\ runner' = [runner EXCEPT ![p].pc = "compensating", ![p].i = saga.current,
                              ![p].failed = FALSE]
  /\ UNCHANGED <<step, effect, crashes, overlapped>>

\* Compensated, failed, and never completed; so is a step whose compensation
\* failed, or was interrupted, before.
SkipUncompleted(p) ==
  LET i == runner[p].i IN
  /\ At(p, "compensating")
  /\ i \in Steps
  /\ step[i] # "COMPLETED"
  /\ GoesOn(p, "compensating", i - 1)
  /\ UNCHANGED <<saga, step, effect, crashes, overlapped>>

UndoReadOnly(p) ==
  LET i == runner[p].i IN
  /\ At(p, "compensating")
  /\ i \in ReadOnly
  /\ step[i] = "COMPLETED"
  /\ step' = [step EXCEPT ![i] = "COMPENSATED"]
  /\ GoesOn(p, "compensating", i - 1)
  /\ UNCHANGED <<saga, effect, crashes, overlapped>>

EnterUndo(p) ==
  LET i == runner[p].i IN
  /\ At(p, "compensating")
  /\ i \in Steps \ ReadOnly
  /\ step[i] = "COMPLETED"
  /\ step' = [step EXCEPT ![i] = "COMPENSATING"]
  /\ Goes(p, "undoing")
  /\ UNCHANGED <<saga, effect, crashes, overlapped>>

UndoCommits(p) ==
  LET i == runner[p].i IN
  /\ At(p, "undoing")
  /\ i \in SelfCommitting
  /\ effect' = [effect EXCEPT ![i] = Minus(@)]
  /\ Goes(p, "undone")
  /\ UNCHANGED <<saga, step, crashes, overlapped>>

UndoSucceeds(p) ==
  LET i == runner[p].i IN
  /\ \/ At(p, "undone")
     \/ At(p, "undoing") /\ i \notin SelfCommitting
  /\ effect' = IF i \in SelfCommitting THEN effect ELSE [effect EXCEPT ![i] = Minus(@)]
  /\ step' = [step EXCEPT ![i] = "COMPENSATED"]
  /\ GoesOn(p, "compensating", i - 1)
  /\ UNCHANGED <<saga, crashes, overlapped>>

\* Variant: what compensate returns is not looked at.
UndoFailsUnnoticed(p) ==
  LET i == runner[p].i IN
  /\ At(p, "undoing")
  /\ step' = [step EXCEPT ![i] = "COMPENSATED"]
  /\ GoesOn(p, "compensating", i - 1)
  /\ UNCHANGED <<saga, effect, crashes, overlapped>>

\* The row stays COMPENSATING, and the loop goes on; what the compensation
\* had flushed by then is committed, unless it commits for itself.
UndoFails(p) ==
  LET i == runner[p].i IN
  /\ At(p, "undoing")
  /\ \/ UNCHANGED effect
     \/ i \notin SelfCommitting /\ effect' = [effect EXCEPT ![i] = Minus(@)]
  /\ runner' = [runner EXCEPT ![p].pc = "compensating", ![p].i = i - 1, ![p].failed = TRUE]
  /\ UNCHANGED <<saga, step, crashes, overlapped>>

EndCompensate(p) ==
  /\ At(p, "compensating")
  /\ runner[p].i = 0
  /\ saga' = [saga EXCEPT !.status = IF runner[p].failed THEN "FAILED" ELSE "COMPENSATED"]
  /\ Ends(p)
  /\ UNCHANGED <<step, effect, crashes, overlapped>>

-----------------------------------------------------------------------------
(* Crashes, the manual verdict, and retention.                             *)

\* The process dies, or its session can not commit any more.
Crash(p) ==
  /\ ~At(p, "idle")
  /\ crashes < MaxCrashes
  /\ crashes' = crashes + 1
  /\ Ends(p)
  /\ UNCHANGED <<saga, step, effect, overlapped>>

\* mark_failed, whatever the status.
MarkFailed ==
  /\ saga.status # "none"
  /\ saga' = [saga EXCEPT !.status = "FAILED"]
  /\ UNCHANGED <<step, effect, runner, crashes, overlapped>>

\* cleanup_old_completed_sagas, months after anyone worked on the saga: the
\* key is new again.
Cleanup ==
  /\ saga.status \in Terminal
  /\ \A p \in Runners : At(p, "idle")
  /\ saga' = NoSaga
  /\ step' = NoSteps
  /\ effect' = NoEffects
  /\ UNCHANGED <<runner, crashes, overlapped>>

-----------------------------------------------------------------------------
Run(p) ==
  \/ Create(p) \/ Resume(p) \/ ForceCompensate(p) \/ RetryCompensation(p)
  \/ BeginExecute(p) \/ SkipCompleted(p) \/ EnterStep(p) \/ StepCommits(p)
  \/ StepSucceeds(p) \/ StepFails(p) \/ Complete(p)
  \/ BeginCompensate(p) \/ SkipUncompleted(p) \/ UndoReadOnly(p) \/ EnterUndo(p)
  \/ UndoCommits(p) \/ UndoSucceeds(p) \/ UndoFails(p) \/ EndCompensate(p)
  \/ Crash(p)

Next ==
  \/ \E p \in Runners : Run(p)
  \/ NothingToCompensate \/ MarkFailed \/ Cleanup

Spec == Init /\ [][Next]_vars

=============================================================================
