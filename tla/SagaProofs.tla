----------------------------- MODULE SagaProofs -----------------------------
(***************************************************************************)
(* Proofs about sagas, for any number of steps of each kind, of runners    *)
(* and of crashes.                                                         *)
(***************************************************************************)
EXTENDS SagaProperties, TLAPS

USE SagaConstants DEF Steps

\* Where a runner's loop can be, also when another runs beside it.
Positions == \A p \in Runners :
  /\ At(p, "executing") => runner[p].i \in 1..(N + 1)
  /\ At(p, "inside") => runner[p].i \in Steps
  /\ At(p, "committed") => runner[p].i \in SelfCommitting
  /\ At(p, "compensating") => runner[p].i \in 0..N
  /\ At(p, "undoing") => runner[p].i \in Steps \ ReadOnly
  /\ At(p, "undone") => runner[p].i \in SelfCommitting

TypeInv == TypeOK /\ Positions

-----------------------------------------------------------------------------
(* What the movements of a runner do to it, and to the others.             *)

\* Another runner is as it was.
Others(p) == \A q \in Runners \ {p} : runner'[q] = runner[q]

LEMMA Moving ==
  ASSUME TypeOK, NEW p \in Runners, NEW pc \in Activities, Goes(p, pc)
  PROVE  /\ runner' \in [Runners -> Attempts]
         /\ runner'[p].pc = pc
         /\ runner'[p].i = runner[p].i
         /\ Others(p)
<1>1. runner[p] \in Attempts
  BY DEF TypeOK
<1>2. /\ [runner[p] EXCEPT !.pc = pc] \in Attempts
      /\ [runner[p] EXCEPT !.pc = pc].pc = pc
      /\ [runner[p] EXCEPT !.pc = pc].i = runner[p].i
  BY <1>1 DEF Attempts
<1> QED BY <1>2 DEF TypeOK, Goes, Others

LEMMA MovingOn ==
  ASSUME TypeOK, NEW p \in Runners, NEW pc \in Activities, NEW i \in 0..(N + 1), GoesOn(p, pc, i)
  PROVE  /\ runner' \in [Runners -> Attempts]
         /\ runner'[p].pc = pc
         /\ runner'[p].i = i
         /\ Others(p)
<1>1. runner[p] \in Attempts
  BY DEF TypeOK
<1>2. /\ [runner[p] EXCEPT !.pc = pc, !.i = i] \in Attempts
      /\ [runner[p] EXCEPT !.pc = pc, !.i = i].pc = pc
      /\ [runner[p] EXCEPT !.pc = pc, !.i = i].i = i
  BY <1>1 DEF Attempts
<1> QED BY <1>2 DEF TypeOK, GoesOn, Others

LEMMA Ending ==
  ASSUME TypeOK, NEW p \in Runners, Ends(p)
  PROVE  /\ runner' \in [Runners -> Attempts]
         /\ runner'[p].pc = "idle"
         /\ Others(p)
<1>1. Idle \in Attempts
  BY DEF Idle, Attempts, Activities, Statuses
<1> QED BY <1>1 DEF TypeOK, Ends, Others, Idle

LEMMA TakingUp ==
  ASSUME TypeOK, NEW p \in Runners, NEW pc \in Activities, NEW seen \in Statuses,
         TakesUp(p, pc, seen)
  PROVE  /\ runner' \in [Runners -> Attempts]
         /\ runner'[p].pc = pc
         /\ runner'[p].seen = seen
         /\ Others(p)
         /\ overlapped' \in BOOLEAN
<1>1. [pc |-> pc, seen |-> seen, i |-> 0, failed |-> FALSE] \in Attempts
  BY DEF Attempts
<1> QED BY <1>1 DEF TypeOK, TakesUp, Others, At

LEMMA Failing ==
  ASSUME TypeOK, NEW p \in Runners, StepFails(p)
  PROVE  /\ runner' \in [Runners -> Attempts]
         /\ runner'[p].pc = "toCompensate"
         /\ runner'[p].seen = saga.status
         /\ Others(p)
<1>1. runner[p] \in Attempts /\ saga.status \in Statuses
  BY DEF TypeOK
<1>2. [runner[p] EXCEPT !.pc = "toCompensate", !.seen = saga.status] \in Attempts
  BY <1>1 DEF Attempts, Activities
<1>3. /\ [runner[p] EXCEPT !.pc = "toCompensate", !.seen = saga.status].pc = "toCompensate"
      /\ [runner[p] EXCEPT !.pc = "toCompensate", !.seen = saga.status].seen = saga.status
  BY <1>1 DEF Attempts
<1> QED BY <1>2, <1>3 DEF TypeOK, StepFails, Others

LEMMA Compensating ==
  ASSUME TypeOK, NEW p \in Runners, NEW i \in 0..(N + 1), NEW failed \in BOOLEAN,
         runner' = [runner EXCEPT ![p].pc = "compensating", ![p].i = i, ![p].failed = failed]
  PROVE  /\ runner' \in [Runners -> Attempts]
         /\ runner'[p].pc = "compensating"
         /\ runner'[p].i = i
         /\ Others(p)
<1> DEFINE next == [runner[p] EXCEPT !.pc = "compensating", !.i = i, !.failed = failed]
<1>1. runner[p] \in Attempts
  BY DEF TypeOK
<1>2. next \in Attempts /\ next.pc = "compensating" /\ next.i = i
  BY <1>1 DEF Attempts, Activities
<1>3. runner' = [runner EXCEPT ![p] = next]
  OBVIOUS
<1> QED BY <1>2, <1>3 DEF TypeOK, Others

LEMMA CountTypes ==
  \A n \in Counts : Plus(n) \in Counts /\ Minus(n) \in Counts
BY DEF Counts, Plus, Minus

LEMMA SagaTypes ==
  ASSUME TypeOK
  PROVE  /\ saga.status \in Statuses
         /\ saga.current \in 0..N
         /\ \A status \in Statuses : [saga EXCEPT !.status = status] =
              [status |-> status, current |-> saga.current]
         /\ \A i \in 0..N : [saga EXCEPT !.current = i] =
              [status |-> saga.status, current |-> i]
<1>1. saga \in [status : Statuses, current : 0..N]
  BY DEF TypeOK
<1> QED BY <1>1

LEMMA Starting ==
  ASSUME TypeOK, NEW p \in Runners, NEW status \in Statuses, Starts(p, status)
  PROVE  /\ saga' \in [status : Statuses, current : 0..N]
         /\ saga'.current = saga.current
         /\ saga'.status = IF runner[p].seen = status THEN saga.status ELSE status
BY SagaTypes DEF Starts, TypeOK

-----------------------------------------------------------------------------
\* Every step keeps the types and positions.
LEMMA TypeStep ==
  ASSUME TypeInv, [Next]_vars
  PROVE  TypeInv'
<1> USE DEF TypeInv, TypeOK, Positions, Others, At, Statuses, StepStatuses, Activities
<1>1. ASSUME NEW p \in Runners, Create(p) PROVE TypeInv'
  BY <1>1, TakingUp, SagaTypes DEF Create
<1>2. ASSUME NEW p \in Runners, Resume(p) PROVE TypeInv'
  <2> DEFINE pc == IF saga.status = "COMPENSATING" THEN "toCompensate" ELSE "toExecute"
  <2>1. pc \in Activities /\ TakesUp(p, pc, saga.status)
    BY <1>2 DEF Resume
  <2>2. pc \in {"toCompensate", "toExecute"}
    OBVIOUS
  <2> HIDE DEF pc
  <2>3. UNCHANGED <<saga, step, effect, crashes>>
    BY <1>2 DEF Resume
  <2>4. /\ runner' \in [Runners -> Attempts]
        /\ runner'[p].pc = pc
        /\ Others(p)
        /\ overlapped' \in BOOLEAN
    BY <2>1, TakingUp, SagaTypes
  <2> QED BY <2>2, <2>3, <2>4
<1>3. ASSUME NEW p \in Runners, ForceCompensate(p) PROVE TypeInv'
  BY <1>3, TakingUp, SagaTypes DEF ForceCompensate
<1>4. ASSUME NEW p \in Runners, RetryCompensation(p) PROVE TypeInv'
  BY <1>4, TakingUp, SagaTypes DEF RetryCompensation
<1>5. ASSUME NEW p \in Runners, BeginExecute(p) PROVE TypeInv'
  BY <1>5, Starting, SagaTypes, MovingOn DEF BeginExecute
<1>6. ASSUME NEW p \in Runners, SkipCompleted(p) PROVE TypeInv'
  BY <1>6, MovingOn DEF SkipCompleted
<1>7. ASSUME NEW p \in Runners, EnterStep(p) PROVE TypeInv'
  BY <1>7, Moving DEF EnterStep
<1>8. ASSUME NEW p \in Runners, StepCommits(p) PROVE TypeInv'
  BY <1>8, Moving, CountTypes DEF StepCommits
<1>9. ASSUME NEW p \in Runners, StepSucceeds(p) PROVE TypeInv'
  <2> DEFINE i == runner[p].i
  <2>1. i \in Steps /\ i + 1 \in 1..(N + 1)
    BY <1>9 DEF StepSucceeds
  <2>2. GoesOn(p, "executing", i + 1)
    BY <1>9 DEF StepSucceeds
  <2>3. /\ runner' \in [Runners -> Attempts]
        /\ runner'[p].pc = "executing"
        /\ runner'[p].i = i + 1
        /\ Others(p)
    BY <2>1, <2>2, MovingOn
  <2>4. effect' \in [Steps -> Counts]
    BY <1>9, <2>1, CountTypes DEF StepSucceeds
  <2>5. saga' \in [status : Statuses, current : 0..N] /\ step' \in [Steps -> StepStatuses]
    BY <1>9, <2>1, SagaTypes DEF StepSucceeds
  <2> QED BY <1>9, <2>1, <2>3, <2>4, <2>5 DEF StepSucceeds
<1>10. ASSUME NEW p \in Runners, StepFails(p) PROVE TypeInv'
  BY <1>10, Failing DEF StepFails
<1>11. ASSUME NEW p \in Runners, Complete(p) PROVE TypeInv'
  BY <1>11, Ending, SagaTypes DEF Complete
<1>12. ASSUME NEW p \in Runners, BeginCompensate(p) PROVE TypeInv'
  <2>1. saga.current \in 0..(N + 1)
    BY SagaTypes
  <2>2. /\ runner' \in [Runners -> Attempts]
        /\ runner'[p].pc = "compensating"
        /\ runner'[p].i = saga.current
        /\ Others(p)
    BY <1>12, <2>1, Compensating DEF BeginCompensate
  <2>3. saga' \in [status : Statuses, current : 0..N]
    BY <1>12, Starting DEF BeginCompensate
  <2> QED BY <1>12, <2>2, <2>3, SagaTypes DEF BeginCompensate
<1>13. ASSUME NEW p \in Runners, SkipUncompleted(p) PROVE TypeInv'
  <2> DEFINE i == runner[p].i
  <2>1. i \in Steps /\ i - 1 \in 0..N
    BY <1>13 DEF SkipUncompleted
  <2>2. GoesOn(p, "compensating", i - 1)
    BY <1>13 DEF SkipUncompleted
  <2>3. /\ runner' \in [Runners -> Attempts]
        /\ runner'[p].pc = "compensating"
        /\ runner'[p].i = i - 1
        /\ Others(p)
    BY <2>1, <2>2, MovingOn
  <2> QED BY <1>13, <2>1, <2>3 DEF SkipUncompleted
<1>14. ASSUME NEW p \in Runners, UndoReadOnly(p) PROVE TypeInv'
  BY <1>14, MovingOn DEF UndoReadOnly
<1>15. ASSUME NEW p \in Runners, EnterUndo(p) PROVE TypeInv'
  BY <1>15, Moving DEF EnterUndo
<1>16. ASSUME NEW p \in Runners, UndoCommits(p) PROVE TypeInv'
  BY <1>16, Moving, CountTypes DEF UndoCommits
<1>17. ASSUME NEW p \in Runners, UndoSucceeds(p) PROVE TypeInv'
  <2> DEFINE i == runner[p].i
  <2>1. i \in Steps /\ i - 1 \in 0..N
    <3>1. i \in Steps
      BY <1>17 DEF UndoSucceeds
    <3> QED BY <3>1
  <2>2. GoesOn(p, "compensating", i - 1)
    BY <1>17 DEF UndoSucceeds
  <2>3. /\ runner' \in [Runners -> Attempts]
        /\ runner'[p].pc = "compensating"
        /\ runner'[p].i = i - 1
        /\ Others(p)
    BY <2>1, <2>2, MovingOn
  <2>4. effect' \in [Steps -> Counts] /\ step' \in [Steps -> StepStatuses]
    BY <1>17, <2>1, CountTypes DEF UndoSucceeds
  <2> QED BY <1>17, <2>1, <2>3, <2>4 DEF UndoSucceeds
<1>18. ASSUME NEW p \in Runners, UndoFails(p) PROVE TypeInv'
  <2> DEFINE i == runner[p].i
  <2>1. i \in Steps /\ i - 1 \in 0..N
    BY <1>18 DEF UndoFails
  <2>2. /\ runner' \in [Runners -> Attempts]
        /\ runner'[p].pc = "compensating"
        /\ runner'[p].i = i - 1
        /\ Others(p)
    <3>1. runner' = [runner EXCEPT ![p].pc = "compensating", ![p].i = i - 1, ![p].failed = TRUE]
      BY <1>18 DEF UndoFails
    <3>2. i - 1 \in 0..(N + 1)
      BY <2>1
    <3> QED BY <3>1, <3>2, Compensating
  <2>3. effect' \in [Steps -> Counts]
    BY <1>18, <2>1, CountTypes DEF UndoFails
  <2> QED BY <1>18, <2>1, <2>2, <2>3 DEF UndoFails
<1>19. ASSUME NEW p \in Runners, EndCompensate(p) PROVE TypeInv'
  BY <1>19, Ending, SagaTypes DEF EndCompensate
<1>20. ASSUME NEW p \in Runners, Crash(p) PROVE TypeInv'
  BY <1>20, Ending DEF Crash
<1>21. CASE NothingToCompensate
  BY <1>21, SagaTypes DEF NothingToCompensate
<1>22. CASE MarkFailed
  BY <1>22, SagaTypes DEF MarkFailed
<1>23. CASE Cleanup
  BY <1>23 DEF Cleanup, NoSaga, NoSteps, NoEffects, Counts
<1>24. CASE UNCHANGED vars
  BY <1>24 DEF vars
<1> QED
  BY <1>1, <1>2, <1>3, <1>4, <1>5, <1>6, <1>7, <1>8, <1>9, <1>10, <1>11,
     <1>12, <1>13, <1>14, <1>15, <1>16, <1>17, <1>18, <1>19, <1>20, <1>21,
     <1>22, <1>23, <1>24 DEF Next, Run

-----------------------------------------------------------------------------
(* How the saga's rows and its one runner hang together.                   *)

Doing == {"toExecute", "executing", "inside", "committed"}
Undoing == {"compensating", "undoing", "undone"}

OneRunner == \A p, q \in Runners : ~At(p, "idle") /\ ~At(q, "idle") => p = q

\* current_step counts the steps that were completed, undone or not.
RowsFollowCurrent == \A i \in Steps :
  i <= saga.current <=> step[i] \in {"COMPLETED", "COMPENSATING", "COMPENSATED"}

\* A saga with an undone step is never executed again.
UndoneIsNotExecuted == \A i \in Steps :
  step[i] \in {"COMPENSATING", "COMPENSATED"} =>
    /\ saga.status \in {"COMPENSATING", "FAILED", "COMPENSATED"}
    /\ \A p \in Runners : runner[p].pc \notin Doing

\* Nobody works on a saga that has an outcome.
RunnersAndStatus == \A p \in Runners :
  /\ ~At(p, "idle") => saga.status \in {"PENDING", "EXECUTING", "COMPENSATING", "FAILED"}
  /\ runner[p].pc \in Undoing => saga.status \in {"COMPENSATING", "FAILED"}
  /\ At(p, "toCompensate") /\ runner[p].seen = "COMPENSATING" =>
       saga.status \in {"COMPENSATING", "FAILED"}

\* Execution is at the step after current_step; compensation has no
\* completed step behind it.
RunnersAndRows == \A p \in Runners :
  /\ runner[p].pc \in {"executing", "inside", "committed"} => runner[p].i = saga.current + 1
  /\ runner[p].pc \in {"inside", "committed"} => step[runner[p].i] = "EXECUTING"
  /\ runner[p].pc \in Undoing =>
       /\ runner[p].i <= saga.current
       /\ \A j \in Steps : j > runner[p].i => step[j] # "COMPLETED"
  /\ runner[p].pc \in {"undoing", "undone"} => step[runner[p].i] = "COMPENSATING"

OutcomesAndRows ==
  /\ saga.status = "COMPLETED" => saga.current = N
  /\ saga.status = "COMPENSATED" => \A i \in Steps : step[i] # "COMPLETED"

Course ==
  /\ OneRunner
  /\ RowsFollowCurrent
  /\ UndoneIsNotExecuted
  /\ RunnersAndStatus
  /\ RunnersAndRows
  /\ OutcomesAndRows

LEMMA Alone ==
  ASSUME OneRunner, NEW p \in Runners, ~At(p, "idle"), Others(p)
  PROVE  \A q \in Runners \ {p} : runner[q].pc = "idle" /\ runner'[q].pc = "idle"
BY DEF OneRunner, Others, At

LEMMA Newcomer ==
  ASSUME TypeOK, NEW p \in Runners, NEW pc \in Activities, NEW seen \in Statuses,
         TakesUp(p, pc, seen), At(p, "idle"), ~overlapped'
  PROVE  \A q \in Runners :
           /\ runner[q].pc = "idle"
           /\ q # p => runner'[q].pc = "idle"
BY TakingUp DEF TypeOK, TakesUp, Others, At

LEMMA OverlapStays ==
  ASSUME TypeOK, [Next]_vars, overlapped
  PROVE  overlapped'
BY DEF Next, Run, vars, Create, Resume, ForceCompensate, RetryCompensation, TakesUp,
   BeginExecute, SkipCompleted, EnterStep, StepCommits, StepSucceeds, StepFails, Complete,
   BeginCompensate, SkipUncompleted, UndoReadOnly, EnterUndo, UndoCommits, UndoSucceeds,
   UndoFails, EndCompensate, Crash, NothingToCompensate, MarkFailed, Cleanup

\* Every step keeps rows, status and runner together.
LEMMA CourseStep ==
  ASSUME TypeInv, Course, ~overlapped, ~overlapped', [Next]_vars
  PROVE  Course'
<1> USE DEF TypeInv, Course
<1>1. ASSUME NEW p \in Runners, Create(p) PROVE Course'
  <2>1. /\ runner'[p].pc = "toExecute"
        /\ runner'[p].seen = "PENDING"
        /\ \A q \in Runners \ {p} : runner[q].pc = "idle" /\ runner'[q].pc = "idle"
    BY <1>1, TakingUp, Newcomer DEF Create, At, Activities, Statuses
  <2>2. /\ saga.status = "none"
        /\ saga'.status = "PENDING"
        /\ saga'.current = saga.current
        /\ step' = step
    BY <1>1, SagaTypes DEF Create, Statuses
  <2>3. OneRunner'
    BY <2>1, <2>2
    DEF TypeOK, Positions, OneRunner, RowsFollowCurrent, UndoneIsNotExecuted,
        RunnersAndStatus, RunnersAndRows, OutcomesAndRows, Doing, Undoing, At
  <2>4. RowsFollowCurrent'
    BY <2>1, <2>2
    DEF TypeOK, Positions, OneRunner, RowsFollowCurrent, UndoneIsNotExecuted,
        RunnersAndStatus, RunnersAndRows, OutcomesAndRows, Doing, Undoing, At
  <2>5. UndoneIsNotExecuted'
    BY <2>1, <2>2
    DEF TypeOK, Positions, OneRunner, RowsFollowCurrent, UndoneIsNotExecuted,
        RunnersAndStatus, RunnersAndRows, OutcomesAndRows, Doing, Undoing, At
  <2>6. RunnersAndStatus'
    BY <2>1, <2>2
    DEF TypeOK, Positions, OneRunner, RowsFollowCurrent, UndoneIsNotExecuted,
        RunnersAndStatus, RunnersAndRows, OutcomesAndRows, Doing, Undoing, At
  <2>7. RunnersAndRows'
    BY <2>1, <2>2
    DEF TypeOK, Positions, OneRunner, RowsFollowCurrent, UndoneIsNotExecuted,
        RunnersAndStatus, RunnersAndRows, OutcomesAndRows, Doing, Undoing, At
  <2>8. OutcomesAndRows'
    BY <2>1, <2>2
    DEF TypeOK, Positions, OneRunner, RowsFollowCurrent, UndoneIsNotExecuted,
        RunnersAndStatus, RunnersAndRows, OutcomesAndRows, Doing, Undoing, At
  <2> QED BY <2>3, <2>4, <2>5, <2>6, <2>7, <2>8
<1>2. ASSUME NEW p \in Runners, Resume(p) PROVE Course'
  <2>1. /\ saga.status = "COMPENSATING" => runner'[p].pc = "toCompensate"
        /\ saga.status # "COMPENSATING" => runner'[p].pc = "toExecute"
        /\ \A q \in Runners \ {p} : runner[q].pc = "idle" /\ runner'[q].pc = "idle"
    BY <1>2, TakingUp, Newcomer, SagaTypes DEF Resume, At, Activities
  <2>2. /\ saga.status \in {"PENDING", "EXECUTING", "COMPENSATING"}
        /\ runner[p].pc = "idle"
        /\ saga' = saga
        /\ step' = step
    BY <1>2 DEF Resume, At
  <2>3. OneRunner'
    BY <2>1, <2>2
    DEF TypeOK, Positions, OneRunner, RowsFollowCurrent, UndoneIsNotExecuted,
        RunnersAndStatus, RunnersAndRows, OutcomesAndRows, Doing, Undoing, At
  <2>4. RowsFollowCurrent'
    BY <2>1, <2>2
    DEF TypeOK, Positions, OneRunner, RowsFollowCurrent, UndoneIsNotExecuted,
        RunnersAndStatus, RunnersAndRows, OutcomesAndRows, Doing, Undoing, At
  <2>5. UndoneIsNotExecuted'
    BY <2>1, <2>2
    DEF TypeOK, Positions, OneRunner, RowsFollowCurrent, UndoneIsNotExecuted,
        RunnersAndStatus, RunnersAndRows, OutcomesAndRows, Doing, Undoing, At
  <2>6. RunnersAndStatus'
    BY <2>1, <2>2
    DEF TypeOK, Positions, OneRunner, RowsFollowCurrent, UndoneIsNotExecuted,
        RunnersAndStatus, RunnersAndRows, OutcomesAndRows, Doing, Undoing, At
  <2>7. RunnersAndRows'
    BY <2>1, <2>2
    DEF TypeOK, Positions, OneRunner, RowsFollowCurrent, UndoneIsNotExecuted,
        RunnersAndStatus, RunnersAndRows, OutcomesAndRows, Doing, Undoing, At
  <2>8. OutcomesAndRows'
    BY <2>1, <2>2
    DEF TypeOK, Positions, OneRunner, RowsFollowCurrent, UndoneIsNotExecuted,
        RunnersAndStatus, RunnersAndRows, OutcomesAndRows, Doing, Undoing, At
  <2> QED BY <2>3, <2>4, <2>5, <2>6, <2>7, <2>8
<1>3. ASSUME NEW p \in Runners, ForceCompensate(p) PROVE Course'
  <2>1. /\ runner'[p].pc = "toCompensate"
        /\ runner'[p].seen = saga.status
        /\ \A q \in Runners \ {p} : runner[q].pc = "idle" /\ runner'[q].pc = "idle"
    BY <1>3, TakingUp, Newcomer, SagaTypes DEF ForceCompensate, At, Activities, Statuses
  <2>2. /\ saga.status \in {"PENDING", "EXECUTING"}
        /\ saga' = saga
        /\ step' = step
    BY <1>3 DEF ForceCompensate, At
  <2>3. OneRunner'
    BY <2>1, <2>2
    DEF TypeOK, Positions, OneRunner, RowsFollowCurrent, UndoneIsNotExecuted,
        RunnersAndStatus, RunnersAndRows, OutcomesAndRows, Doing, Undoing, At
  <2>4. RowsFollowCurrent'
    BY <2>1, <2>2
    DEF TypeOK, Positions, OneRunner, RowsFollowCurrent, UndoneIsNotExecuted,
        RunnersAndStatus, RunnersAndRows, OutcomesAndRows, Doing, Undoing, At
  <2>5. UndoneIsNotExecuted'
    BY <2>1, <2>2
    DEF TypeOK, Positions, OneRunner, RowsFollowCurrent, UndoneIsNotExecuted,
        RunnersAndStatus, RunnersAndRows, OutcomesAndRows, Doing, Undoing, At
  <2>6. RunnersAndStatus'
    BY <2>1, <2>2
    DEF TypeOK, Positions, OneRunner, RowsFollowCurrent, UndoneIsNotExecuted,
        RunnersAndStatus, RunnersAndRows, OutcomesAndRows, Doing, Undoing, At
  <2>7. RunnersAndRows'
    BY <2>1, <2>2
    DEF TypeOK, Positions, OneRunner, RowsFollowCurrent, UndoneIsNotExecuted,
        RunnersAndStatus, RunnersAndRows, OutcomesAndRows, Doing, Undoing, At
  <2>8. OutcomesAndRows'
    BY <2>1, <2>2
    DEF TypeOK, Positions, OneRunner, RowsFollowCurrent, UndoneIsNotExecuted,
        RunnersAndStatus, RunnersAndRows, OutcomesAndRows, Doing, Undoing, At
  <2> QED BY <2>3, <2>4, <2>5, <2>6, <2>7, <2>8
<1>4. ASSUME NEW p \in Runners, RetryCompensation(p) PROVE Course'
  <2>1. /\ runner'[p].pc = "toCompensate"
        /\ runner'[p].seen = "FAILED"
        /\ \A q \in Runners \ {p} : runner[q].pc = "idle" /\ runner'[q].pc = "idle"
    BY <1>4, TakingUp, Newcomer DEF RetryCompensation, At, Activities, Statuses
  <2>2. /\ saga.status = "FAILED"
        /\ saga'.status = "COMPENSATING"
        /\ saga'.current = saga.current
        /\ step' = step
    BY <1>4, SagaTypes DEF RetryCompensation, Statuses
  <2>3. OneRunner'
    BY <2>1, <2>2
    DEF TypeOK, Positions, OneRunner, RowsFollowCurrent, UndoneIsNotExecuted,
        RunnersAndStatus, RunnersAndRows, OutcomesAndRows, Doing, Undoing, At
  <2>4. RowsFollowCurrent'
    BY <2>1, <2>2
    DEF TypeOK, Positions, OneRunner, RowsFollowCurrent, UndoneIsNotExecuted,
        RunnersAndStatus, RunnersAndRows, OutcomesAndRows, Doing, Undoing, At
  <2>5. UndoneIsNotExecuted'
    BY <2>1, <2>2
    DEF TypeOK, Positions, OneRunner, RowsFollowCurrent, UndoneIsNotExecuted,
        RunnersAndStatus, RunnersAndRows, OutcomesAndRows, Doing, Undoing, At
  <2>6. RunnersAndStatus'
    BY <2>1, <2>2
    DEF TypeOK, Positions, OneRunner, RowsFollowCurrent, UndoneIsNotExecuted,
        RunnersAndStatus, RunnersAndRows, OutcomesAndRows, Doing, Undoing, At
  <2>7. RunnersAndRows'
    BY <2>1, <2>2
    DEF TypeOK, Positions, OneRunner, RowsFollowCurrent, UndoneIsNotExecuted,
        RunnersAndStatus, RunnersAndRows, OutcomesAndRows, Doing, Undoing, At
  <2>8. OutcomesAndRows'
    BY <2>1, <2>2
    DEF TypeOK, Positions, OneRunner, RowsFollowCurrent, UndoneIsNotExecuted,
        RunnersAndStatus, RunnersAndRows, OutcomesAndRows, Doing, Undoing, At
  <2> QED BY <2>3, <2>4, <2>5, <2>6, <2>7, <2>8
<1>5. ASSUME NEW p \in Runners, BeginExecute(p) PROVE Course'
  <2>1. /\ runner'[p].pc = "executing"
        /\ runner'[p].i = saga.current + 1
        /\ \A q \in Runners \ {p} : runner[q].pc = "idle" /\ runner'[q].pc = "idle"
    BY <1>5, MovingOn, Alone, SagaTypes DEF BeginExecute, At, Activities, Statuses
  <2>2. /\ saga'.current = saga.current
        /\ saga'.status \in {saga.status, "EXECUTING"}
        /\ runner[p].pc = "toExecute"
        /\ step' = step
    BY <1>5, Starting DEF BeginExecute, Statuses, At
  <2>3. OneRunner'
    BY <2>1, <2>2
    DEF TypeOK, Positions, OneRunner, RowsFollowCurrent, UndoneIsNotExecuted,
        RunnersAndStatus, RunnersAndRows, OutcomesAndRows, Doing, Undoing, At
  <2>4. RowsFollowCurrent'
    BY <2>1, <2>2
    DEF TypeOK, Positions, OneRunner, RowsFollowCurrent, UndoneIsNotExecuted,
        RunnersAndStatus, RunnersAndRows, OutcomesAndRows, Doing, Undoing, At
  <2>5. UndoneIsNotExecuted'
    BY <2>1, <2>2
    DEF TypeOK, Positions, OneRunner, RowsFollowCurrent, UndoneIsNotExecuted,
        RunnersAndStatus, RunnersAndRows, OutcomesAndRows, Doing, Undoing, At
  <2>6. RunnersAndStatus'
    BY <2>1, <2>2
    DEF TypeOK, Positions, OneRunner, RowsFollowCurrent, UndoneIsNotExecuted,
        RunnersAndStatus, RunnersAndRows, OutcomesAndRows, Doing, Undoing, At
  <2>7. RunnersAndRows'
    BY <2>1, <2>2
    DEF TypeOK, Positions, OneRunner, RowsFollowCurrent, UndoneIsNotExecuted,
        RunnersAndStatus, RunnersAndRows, OutcomesAndRows, Doing, Undoing, At
  <2>8. OutcomesAndRows'
    BY <2>1, <2>2
    DEF TypeOK, Positions, OneRunner, RowsFollowCurrent, UndoneIsNotExecuted,
        RunnersAndStatus, RunnersAndRows, OutcomesAndRows, Doing, Undoing, At
  <2> QED BY <2>3, <2>4, <2>5, <2>6, <2>7, <2>8
<1>6. ASSUME NEW p \in Runners, SkipCompleted(p) PROVE Course'
  <2>1. /\ runner'[p].pc = "executing"
        /\ runner'[p].i = runner[p].i + 1
        /\ \A q \in Runners \ {p} : runner[q].pc = "idle" /\ runner'[q].pc = "idle"
    BY <1>6, MovingOn, Alone DEF SkipCompleted, Positions, At, Activities, Statuses
  <2>2. /\ runner[p].pc = "executing"
        /\ runner[p].i \in Steps
        /\ step[runner[p].i] = "COMPLETED"
        /\ saga' = saga
        /\ step' = step
    BY <1>6 DEF SkipCompleted, At
  <2>3. OneRunner'
    BY <2>1, <2>2
    DEF TypeOK, Positions, OneRunner, RowsFollowCurrent, UndoneIsNotExecuted,
        RunnersAndStatus, RunnersAndRows, OutcomesAndRows, Doing, Undoing, At
  <2>4. RowsFollowCurrent'
    BY <2>1, <2>2
    DEF TypeOK, Positions, OneRunner, RowsFollowCurrent, UndoneIsNotExecuted,
        RunnersAndStatus, RunnersAndRows, OutcomesAndRows, Doing, Undoing, At
  <2>5. UndoneIsNotExecuted'
    BY <2>1, <2>2
    DEF TypeOK, Positions, OneRunner, RowsFollowCurrent, UndoneIsNotExecuted,
        RunnersAndStatus, RunnersAndRows, OutcomesAndRows, Doing, Undoing, At
  <2>6. RunnersAndStatus'
    BY <2>1, <2>2
    DEF TypeOK, Positions, OneRunner, RowsFollowCurrent, UndoneIsNotExecuted,
        RunnersAndStatus, RunnersAndRows, OutcomesAndRows, Doing, Undoing, At
  <2>7. RunnersAndRows'
    BY <2>1, <2>2
    DEF TypeOK, Positions, OneRunner, RowsFollowCurrent, UndoneIsNotExecuted,
        RunnersAndStatus, RunnersAndRows, OutcomesAndRows, Doing, Undoing, At
  <2>8. OutcomesAndRows'
    BY <2>1, <2>2
    DEF TypeOK, Positions, OneRunner, RowsFollowCurrent, UndoneIsNotExecuted,
        RunnersAndStatus, RunnersAndRows, OutcomesAndRows, Doing, Undoing, At
  <2> QED BY <2>3, <2>4, <2>5, <2>6, <2>7, <2>8
<1>7. ASSUME NEW p \in Runners, EnterStep(p) PROVE Course'
  <2>1. /\ runner'[p].pc = "inside"
        /\ runner'[p].i = runner[p].i
        /\ \A q \in Runners \ {p} : runner[q].pc = "idle" /\ runner'[q].pc = "idle"
    BY <1>7, Moving, Alone DEF EnterStep, At, Activities, Statuses
  <2>2. /\ runner[p].pc = "executing"
        /\ runner[p].i \in Steps
        /\ saga' = saga
        /\ step' = [step EXCEPT ![runner[p].i] = "EXECUTING"]
    BY <1>7 DEF EnterStep, At
  <2>3. OneRunner'
    BY <2>1, <2>2
    DEF TypeOK, Positions, OneRunner, RowsFollowCurrent, UndoneIsNotExecuted,
        RunnersAndStatus, RunnersAndRows, OutcomesAndRows, Doing, Undoing, At
  <2>4. RowsFollowCurrent'
    BY <2>1, <2>2
    DEF TypeOK, Positions, OneRunner, RowsFollowCurrent, UndoneIsNotExecuted,
        RunnersAndStatus, RunnersAndRows, OutcomesAndRows, Doing, Undoing, At
  <2>5. UndoneIsNotExecuted'
    BY <2>1, <2>2
    DEF TypeOK, Positions, OneRunner, RowsFollowCurrent, UndoneIsNotExecuted,
        RunnersAndStatus, RunnersAndRows, OutcomesAndRows, Doing, Undoing, At
  <2>6. RunnersAndStatus'
    BY <2>1, <2>2
    DEF TypeOK, Positions, OneRunner, RowsFollowCurrent, UndoneIsNotExecuted,
        RunnersAndStatus, RunnersAndRows, OutcomesAndRows, Doing, Undoing, At
  <2>7. RunnersAndRows'
    BY <2>1, <2>2
    DEF TypeOK, Positions, OneRunner, RowsFollowCurrent, UndoneIsNotExecuted,
        RunnersAndStatus, RunnersAndRows, OutcomesAndRows, Doing, Undoing, At
  <2>8. OutcomesAndRows'
    BY <2>1, <2>2
    DEF TypeOK, Positions, OneRunner, RowsFollowCurrent, UndoneIsNotExecuted,
        RunnersAndStatus, RunnersAndRows, OutcomesAndRows, Doing, Undoing, At
  <2> QED BY <2>3, <2>4, <2>5, <2>6, <2>7, <2>8
<1>8. ASSUME NEW p \in Runners, StepCommits(p) PROVE Course'
  <2>1. /\ runner'[p].pc = "committed"
        /\ runner'[p].i = runner[p].i
        /\ \A q \in Runners \ {p} : runner[q].pc = "idle" /\ runner'[q].pc = "idle"
    BY <1>8, Moving, Alone DEF StepCommits, At, Activities, Statuses
  <2>2. /\ runner[p].pc = "inside"
        /\ saga' = saga
        /\ step' = step
    BY <1>8 DEF StepCommits, At
  <2>3. OneRunner'
    BY <2>1, <2>2
    DEF TypeOK, Positions, OneRunner, RowsFollowCurrent, UndoneIsNotExecuted,
        RunnersAndStatus, RunnersAndRows, OutcomesAndRows, Doing, Undoing, At
  <2>4. RowsFollowCurrent'
    BY <2>1, <2>2
    DEF TypeOK, Positions, OneRunner, RowsFollowCurrent, UndoneIsNotExecuted,
        RunnersAndStatus, RunnersAndRows, OutcomesAndRows, Doing, Undoing, At
  <2>5. UndoneIsNotExecuted'
    BY <2>1, <2>2
    DEF TypeOK, Positions, OneRunner, RowsFollowCurrent, UndoneIsNotExecuted,
        RunnersAndStatus, RunnersAndRows, OutcomesAndRows, Doing, Undoing, At
  <2>6. RunnersAndStatus'
    BY <2>1, <2>2
    DEF TypeOK, Positions, OneRunner, RowsFollowCurrent, UndoneIsNotExecuted,
        RunnersAndStatus, RunnersAndRows, OutcomesAndRows, Doing, Undoing, At
  <2>7. RunnersAndRows'
    BY <2>1, <2>2
    DEF TypeOK, Positions, OneRunner, RowsFollowCurrent, UndoneIsNotExecuted,
        RunnersAndStatus, RunnersAndRows, OutcomesAndRows, Doing, Undoing, At
  <2>8. OutcomesAndRows'
    BY <2>1, <2>2
    DEF TypeOK, Positions, OneRunner, RowsFollowCurrent, UndoneIsNotExecuted,
        RunnersAndStatus, RunnersAndRows, OutcomesAndRows, Doing, Undoing, At
  <2> QED BY <2>3, <2>4, <2>5, <2>6, <2>7, <2>8
<1>9. ASSUME NEW p \in Runners, StepSucceeds(p) PROVE Course'
  <2>1. runner[p].i \in Steps
    BY <1>9 DEF StepSucceeds, Positions
  <2>2. runner[p].i + 1 \in 0..(N + 1)
    BY <2>1
  <2>3. /\ runner'[p].pc = "executing"
        /\ runner'[p].i = runner[p].i + 1
        /\ \A q \in Runners \ {p} : runner[q].pc = "idle" /\ runner'[q].pc = "idle"
    BY <1>9, <2>2, MovingOn, Alone DEF StepSucceeds, At, Activities
  <2>4. /\ runner[p].pc \in {"inside", "committed"}
        /\ saga'.status = saga.status
        /\ saga'.current = runner[p].i
        /\ step' = [step EXCEPT ![runner[p].i] = "COMPLETED"]
    BY <1>9, <2>1, SagaTypes DEF StepSucceeds, At
  <2>5. OneRunner'
    BY <2>1, <2>2, <2>3, <2>4
    DEF TypeOK, Positions, OneRunner, RowsFollowCurrent, UndoneIsNotExecuted,
        RunnersAndStatus, RunnersAndRows, OutcomesAndRows, Doing, Undoing, At
  <2>6. RowsFollowCurrent'
    BY <2>1, <2>2, <2>3, <2>4
    DEF TypeOK, Positions, OneRunner, RowsFollowCurrent, UndoneIsNotExecuted,
        RunnersAndStatus, RunnersAndRows, OutcomesAndRows, Doing, Undoing, At
  <2>7. UndoneIsNotExecuted'
    BY <2>1, <2>2, <2>3, <2>4
    DEF TypeOK, Positions, OneRunner, RowsFollowCurrent, UndoneIsNotExecuted,
        RunnersAndStatus, RunnersAndRows, OutcomesAndRows, Doing, Undoing, At
  <2>8. RunnersAndStatus'
    BY <2>1, <2>2, <2>3, <2>4
    DEF TypeOK, Positions, OneRunner, RowsFollowCurrent, UndoneIsNotExecuted,
        RunnersAndStatus, RunnersAndRows, OutcomesAndRows, Doing, Undoing, At
  <2>9. RunnersAndRows'
    BY <2>1, <2>2, <2>3, <2>4
    DEF TypeOK, Positions, OneRunner, RowsFollowCurrent, UndoneIsNotExecuted,
        RunnersAndStatus, RunnersAndRows, OutcomesAndRows, Doing, Undoing, At
  <2>10. OutcomesAndRows'
    BY <2>1, <2>2, <2>3, <2>4
    DEF TypeOK, Positions, OneRunner, RowsFollowCurrent, UndoneIsNotExecuted,
        RunnersAndStatus, RunnersAndRows, OutcomesAndRows, Doing, Undoing, At
  <2> QED BY <2>5, <2>6, <2>7, <2>8, <2>9, <2>10
<1>10. ASSUME NEW p \in Runners, StepFails(p) PROVE Course'
  <2>1. /\ runner'[p].pc = "toCompensate"
        /\ runner'[p].seen = saga.status
        /\ \A q \in Runners \ {p} : runner[q].pc = "idle" /\ runner'[q].pc = "idle"
    BY <1>10, Failing, Alone DEF StepFails, At, Activities, Statuses
  <2>2. /\ runner[p].pc = "inside"
        /\ saga' = saga
        /\ step' = [step EXCEPT ![runner[p].i] = "FAILED"]
    BY <1>10 DEF StepFails, At
  <2>3. OneRunner'
    BY <2>1, <2>2
    DEF TypeOK, Positions, OneRunner, RowsFollowCurrent, UndoneIsNotExecuted,
        RunnersAndStatus, RunnersAndRows, OutcomesAndRows, Doing, Undoing, At
  <2>4. RowsFollowCurrent'
    BY <2>1, <2>2
    DEF TypeOK, Positions, OneRunner, RowsFollowCurrent, UndoneIsNotExecuted,
        RunnersAndStatus, RunnersAndRows, OutcomesAndRows, Doing, Undoing, At
  <2>5. UndoneIsNotExecuted'
    BY <2>1, <2>2
    DEF TypeOK, Positions, OneRunner, RowsFollowCurrent, UndoneIsNotExecuted,
        RunnersAndStatus, RunnersAndRows, OutcomesAndRows, Doing, Undoing, At
  <2>6. RunnersAndStatus'
    BY <2>1, <2>2
    DEF TypeOK, Positions, OneRunner, RowsFollowCurrent, UndoneIsNotExecuted,
        RunnersAndStatus, RunnersAndRows, OutcomesAndRows, Doing, Undoing, At
  <2>7. RunnersAndRows'
    BY <2>1, <2>2
    DEF TypeOK, Positions, OneRunner, RowsFollowCurrent, UndoneIsNotExecuted,
        RunnersAndStatus, RunnersAndRows, OutcomesAndRows, Doing, Undoing, At
  <2>8. OutcomesAndRows'
    BY <2>1, <2>2
    DEF TypeOK, Positions, OneRunner, RowsFollowCurrent, UndoneIsNotExecuted,
        RunnersAndStatus, RunnersAndRows, OutcomesAndRows, Doing, Undoing, At
  <2> QED BY <2>3, <2>4, <2>5, <2>6, <2>7, <2>8
<1>11. ASSUME NEW p \in Runners, Complete(p) PROVE Course'
  <2>1. /\ runner'[p].pc = "idle"
        /\ \A q \in Runners \ {p} : runner[q].pc = "idle" /\ runner'[q].pc = "idle"
    BY <1>11, Ending, Alone DEF Complete, At, Activities, Statuses
  <2>2. /\ runner[p].pc = "executing"
        /\ runner[p].i > N
        /\ saga'.status = "COMPLETED"
        /\ saga'.current = saga.current
        /\ step' = step
    BY <1>11, SagaTypes DEF Complete, At, Statuses
  <2>3. OneRunner'
    BY <2>1, <2>2
    DEF TypeOK, Positions, OneRunner, RowsFollowCurrent, UndoneIsNotExecuted,
        RunnersAndStatus, RunnersAndRows, OutcomesAndRows, Doing, Undoing, At
  <2>4. RowsFollowCurrent'
    BY <2>1, <2>2
    DEF TypeOK, Positions, OneRunner, RowsFollowCurrent, UndoneIsNotExecuted,
        RunnersAndStatus, RunnersAndRows, OutcomesAndRows, Doing, Undoing, At
  <2>5. UndoneIsNotExecuted'
    BY <2>1, <2>2
    DEF TypeOK, Positions, OneRunner, RowsFollowCurrent, UndoneIsNotExecuted,
        RunnersAndStatus, RunnersAndRows, OutcomesAndRows, Doing, Undoing, At
  <2>6. RunnersAndStatus'
    BY <2>1, <2>2
    DEF TypeOK, Positions, OneRunner, RowsFollowCurrent, UndoneIsNotExecuted,
        RunnersAndStatus, RunnersAndRows, OutcomesAndRows, Doing, Undoing, At
  <2>7. RunnersAndRows'
    BY <2>1, <2>2
    DEF TypeOK, Positions, OneRunner, RowsFollowCurrent, UndoneIsNotExecuted,
        RunnersAndStatus, RunnersAndRows, OutcomesAndRows, Doing, Undoing, At
  <2>8. OutcomesAndRows'
    BY <2>1, <2>2
    DEF TypeOK, Positions, OneRunner, RowsFollowCurrent, UndoneIsNotExecuted,
        RunnersAndStatus, RunnersAndRows, OutcomesAndRows, Doing, Undoing, At
  <2> QED BY <2>3, <2>4, <2>5, <2>6, <2>7, <2>8
<1>12. ASSUME NEW p \in Runners, BeginCompensate(p) PROVE Course'
  <2>1. saga.current \in 0..(N + 1)
    BY SagaTypes
  <2>2. /\ runner'[p].pc = "compensating"
        /\ runner'[p].i = saga.current
        /\ \A q \in Runners \ {p} : runner[q].pc = "idle" /\ runner'[q].pc = "idle"
    BY <1>12, <2>1, Compensating, Alone DEF BeginCompensate, At
  <2>3. /\ saga'.current = saga.current
        /\ saga'.status = IF runner[p].seen = "COMPENSATING" THEN saga.status ELSE "COMPENSATING"
        /\ runner[p].pc = "toCompensate"
        /\ step' = step
    BY <1>12, Starting DEF BeginCompensate, Statuses, At
  <2>4. OneRunner'
    BY <2>1, <2>2, <2>3
    DEF TypeOK, Positions, OneRunner, RowsFollowCurrent, UndoneIsNotExecuted,
        RunnersAndStatus, RunnersAndRows, OutcomesAndRows, Doing, Undoing, At
  <2>5. RowsFollowCurrent'
    BY <2>1, <2>2, <2>3
    DEF TypeOK, Positions, OneRunner, RowsFollowCurrent, UndoneIsNotExecuted,
        RunnersAndStatus, RunnersAndRows, OutcomesAndRows, Doing, Undoing, At
  <2>6. UndoneIsNotExecuted'
    BY <2>1, <2>2, <2>3
    DEF TypeOK, Positions, OneRunner, RowsFollowCurrent, UndoneIsNotExecuted,
        RunnersAndStatus, RunnersAndRows, OutcomesAndRows, Doing, Undoing, At
  <2>7. RunnersAndStatus'
    BY <2>1, <2>2, <2>3
    DEF TypeOK, Positions, OneRunner, RowsFollowCurrent, UndoneIsNotExecuted,
        RunnersAndStatus, RunnersAndRows, OutcomesAndRows, Doing, Undoing, At
  <2>8. RunnersAndRows'
    BY <2>1, <2>2, <2>3
    DEF TypeOK, Positions, OneRunner, RowsFollowCurrent, UndoneIsNotExecuted,
        RunnersAndStatus, RunnersAndRows, OutcomesAndRows, Doing, Undoing, At
  <2>9. OutcomesAndRows'
    BY <2>1, <2>2, <2>3
    DEF TypeOK, Positions, OneRunner, RowsFollowCurrent, UndoneIsNotExecuted,
        RunnersAndStatus, RunnersAndRows, OutcomesAndRows, Doing, Undoing, At
  <2> QED BY <2>4, <2>5, <2>6, <2>7, <2>8, <2>9
<1>13. ASSUME NEW p \in Runners, SkipUncompleted(p) PROVE Course'
  <2>1. runner[p].i \in Steps
    BY <1>13 DEF SkipUncompleted, Positions
  <2>2. runner[p].i - 1 \in 0..(N + 1)
    BY <2>1
  <2>3. /\ runner'[p].pc = "compensating"
        /\ runner'[p].i = runner[p].i - 1
        /\ \A q \in Runners \ {p} : runner[q].pc = "idle" /\ runner'[q].pc = "idle"
    BY <1>13, <2>2, MovingOn, Alone DEF SkipUncompleted, At, Activities
  <2>4. /\ runner[p].pc = "compensating"
        /\ saga' = saga
        /\ step[runner[p].i] # "COMPLETED"
        /\ step' = step
    BY <1>13 DEF SkipUncompleted, At
  <2>5. OneRunner'
    BY <2>1, <2>2, <2>3, <2>4
    DEF TypeOK, Positions, OneRunner, RowsFollowCurrent, UndoneIsNotExecuted,
        RunnersAndStatus, RunnersAndRows, OutcomesAndRows, Doing, Undoing, At
  <2>6. RowsFollowCurrent'
    BY <2>1, <2>2, <2>3, <2>4
    DEF TypeOK, Positions, OneRunner, RowsFollowCurrent, UndoneIsNotExecuted,
        RunnersAndStatus, RunnersAndRows, OutcomesAndRows, Doing, Undoing, At
  <2>7. UndoneIsNotExecuted'
    BY <2>1, <2>2, <2>3, <2>4
    DEF TypeOK, Positions, OneRunner, RowsFollowCurrent, UndoneIsNotExecuted,
        RunnersAndStatus, RunnersAndRows, OutcomesAndRows, Doing, Undoing, At
  <2>8. RunnersAndStatus'
    BY <2>1, <2>2, <2>3, <2>4
    DEF TypeOK, Positions, OneRunner, RowsFollowCurrent, UndoneIsNotExecuted,
        RunnersAndStatus, RunnersAndRows, OutcomesAndRows, Doing, Undoing, At
  <2>9. RunnersAndRows'
    BY <2>1, <2>2, <2>3, <2>4
    DEF TypeOK, Positions, OneRunner, RowsFollowCurrent, UndoneIsNotExecuted,
        RunnersAndStatus, RunnersAndRows, OutcomesAndRows, Doing, Undoing, At
  <2>10. OutcomesAndRows'
    BY <2>1, <2>2, <2>3, <2>4
    DEF TypeOK, Positions, OneRunner, RowsFollowCurrent, UndoneIsNotExecuted,
        RunnersAndStatus, RunnersAndRows, OutcomesAndRows, Doing, Undoing, At
  <2> QED BY <2>5, <2>6, <2>7, <2>8, <2>9, <2>10
<1>14. ASSUME NEW p \in Runners, UndoReadOnly(p) PROVE Course'
  <2>1. runner[p].i \in Steps
    BY <1>14 DEF UndoReadOnly, Positions
  <2>2. runner[p].i - 1 \in 0..(N + 1)
    BY <2>1
  <2>3. /\ runner'[p].pc = "compensating"
        /\ runner'[p].i = runner[p].i - 1
        /\ \A q \in Runners \ {p} : runner[q].pc = "idle" /\ runner'[q].pc = "idle"
    BY <1>14, <2>2, MovingOn, Alone DEF UndoReadOnly, At, Activities
  <2>4. /\ runner[p].pc = "compensating"
        /\ saga' = saga
        /\ step[runner[p].i] = "COMPLETED"
        /\ step' = [step EXCEPT ![runner[p].i] = "COMPENSATED"]
    BY <1>14 DEF UndoReadOnly, At
  <2>5. OneRunner'
    BY <2>1, <2>2, <2>3, <2>4
    DEF TypeOK, Positions, OneRunner, RowsFollowCurrent, UndoneIsNotExecuted,
        RunnersAndStatus, RunnersAndRows, OutcomesAndRows, Doing, Undoing, At
  <2>6. RowsFollowCurrent'
    BY <2>1, <2>2, <2>3, <2>4
    DEF TypeOK, Positions, OneRunner, RowsFollowCurrent, UndoneIsNotExecuted,
        RunnersAndStatus, RunnersAndRows, OutcomesAndRows, Doing, Undoing, At
  <2>7. UndoneIsNotExecuted'
    BY <2>1, <2>2, <2>3, <2>4
    DEF TypeOK, Positions, OneRunner, RowsFollowCurrent, UndoneIsNotExecuted,
        RunnersAndStatus, RunnersAndRows, OutcomesAndRows, Doing, Undoing, At
  <2>8. RunnersAndStatus'
    BY <2>1, <2>2, <2>3, <2>4
    DEF TypeOK, Positions, OneRunner, RowsFollowCurrent, UndoneIsNotExecuted,
        RunnersAndStatus, RunnersAndRows, OutcomesAndRows, Doing, Undoing, At
  <2>9. RunnersAndRows'
    BY <2>1, <2>2, <2>3, <2>4
    DEF TypeOK, Positions, OneRunner, RowsFollowCurrent, UndoneIsNotExecuted,
        RunnersAndStatus, RunnersAndRows, OutcomesAndRows, Doing, Undoing, At
  <2>10. OutcomesAndRows'
    BY <2>1, <2>2, <2>3, <2>4
    DEF TypeOK, Positions, OneRunner, RowsFollowCurrent, UndoneIsNotExecuted,
        RunnersAndStatus, RunnersAndRows, OutcomesAndRows, Doing, Undoing, At
  <2> QED BY <2>5, <2>6, <2>7, <2>8, <2>9, <2>10
<1>15. ASSUME NEW p \in Runners, EnterUndo(p) PROVE Course'
  <2>1. /\ runner'[p].pc = "undoing"
        /\ runner'[p].i = runner[p].i
        /\ \A q \in Runners \ {p} : runner[q].pc = "idle" /\ runner'[q].pc = "idle"
    BY <1>15, Moving, Alone DEF EnterUndo, At, Activities, Statuses
  <2>2. /\ runner[p].pc = "compensating"
        /\ runner[p].i \in Steps
        /\ step[runner[p].i] = "COMPLETED"
        /\ saga' = saga
        /\ step' = [step EXCEPT ![runner[p].i] = "COMPENSATING"]
    BY <1>15 DEF EnterUndo, At
  <2>3. OneRunner'
    BY <2>1, <2>2
    DEF TypeOK, Positions, OneRunner, RowsFollowCurrent, UndoneIsNotExecuted,
        RunnersAndStatus, RunnersAndRows, OutcomesAndRows, Doing, Undoing, At
  <2>4. RowsFollowCurrent'
    BY <2>1, <2>2
    DEF TypeOK, Positions, OneRunner, RowsFollowCurrent, UndoneIsNotExecuted,
        RunnersAndStatus, RunnersAndRows, OutcomesAndRows, Doing, Undoing, At
  <2>5. UndoneIsNotExecuted'
    BY <2>1, <2>2
    DEF TypeOK, Positions, OneRunner, RowsFollowCurrent, UndoneIsNotExecuted,
        RunnersAndStatus, RunnersAndRows, OutcomesAndRows, Doing, Undoing, At
  <2>6. RunnersAndStatus'
    BY <2>1, <2>2
    DEF TypeOK, Positions, OneRunner, RowsFollowCurrent, UndoneIsNotExecuted,
        RunnersAndStatus, RunnersAndRows, OutcomesAndRows, Doing, Undoing, At
  <2>7. RunnersAndRows'
    BY <2>1, <2>2
    DEF TypeOK, Positions, OneRunner, RowsFollowCurrent, UndoneIsNotExecuted,
        RunnersAndStatus, RunnersAndRows, OutcomesAndRows, Doing, Undoing, At
  <2>8. OutcomesAndRows'
    BY <2>1, <2>2
    DEF TypeOK, Positions, OneRunner, RowsFollowCurrent, UndoneIsNotExecuted,
        RunnersAndStatus, RunnersAndRows, OutcomesAndRows, Doing, Undoing, At
  <2> QED BY <2>3, <2>4, <2>5, <2>6, <2>7, <2>8
<1>16. ASSUME NEW p \in Runners, UndoCommits(p) PROVE Course'
  <2>1. /\ runner'[p].pc = "undone"
        /\ runner'[p].i = runner[p].i
        /\ \A q \in Runners \ {p} : runner[q].pc = "idle" /\ runner'[q].pc = "idle"
    BY <1>16, Moving, Alone DEF UndoCommits, At, Activities, Statuses
  <2>2. /\ runner[p].pc = "undoing"
        /\ saga' = saga
        /\ step' = step
    BY <1>16 DEF UndoCommits, At
  <2>3. OneRunner'
    BY <2>1, <2>2
    DEF TypeOK, Positions, OneRunner, RowsFollowCurrent, UndoneIsNotExecuted,
        RunnersAndStatus, RunnersAndRows, OutcomesAndRows, Doing, Undoing, At
  <2>4. RowsFollowCurrent'
    BY <2>1, <2>2
    DEF TypeOK, Positions, OneRunner, RowsFollowCurrent, UndoneIsNotExecuted,
        RunnersAndStatus, RunnersAndRows, OutcomesAndRows, Doing, Undoing, At
  <2>5. UndoneIsNotExecuted'
    BY <2>1, <2>2
    DEF TypeOK, Positions, OneRunner, RowsFollowCurrent, UndoneIsNotExecuted,
        RunnersAndStatus, RunnersAndRows, OutcomesAndRows, Doing, Undoing, At
  <2>6. RunnersAndStatus'
    BY <2>1, <2>2
    DEF TypeOK, Positions, OneRunner, RowsFollowCurrent, UndoneIsNotExecuted,
        RunnersAndStatus, RunnersAndRows, OutcomesAndRows, Doing, Undoing, At
  <2>7. RunnersAndRows'
    BY <2>1, <2>2
    DEF TypeOK, Positions, OneRunner, RowsFollowCurrent, UndoneIsNotExecuted,
        RunnersAndStatus, RunnersAndRows, OutcomesAndRows, Doing, Undoing, At
  <2>8. OutcomesAndRows'
    BY <2>1, <2>2
    DEF TypeOK, Positions, OneRunner, RowsFollowCurrent, UndoneIsNotExecuted,
        RunnersAndStatus, RunnersAndRows, OutcomesAndRows, Doing, Undoing, At
  <2> QED BY <2>3, <2>4, <2>5, <2>6, <2>7, <2>8
<1>17. ASSUME NEW p \in Runners, UndoSucceeds(p) PROVE Course'
  <2>1. runner[p].i \in Steps
    BY <1>17 DEF UndoSucceeds, Positions
  <2>2. runner[p].i - 1 \in 0..(N + 1)
    BY <2>1
  <2>3. /\ runner'[p].pc = "compensating"
        /\ runner'[p].i = runner[p].i - 1
        /\ \A q \in Runners \ {p} : runner[q].pc = "idle" /\ runner'[q].pc = "idle"
    BY <1>17, <2>2, MovingOn, Alone DEF UndoSucceeds, At, Activities
  <2>4. /\ runner[p].pc \in {"undoing", "undone"}
        /\ saga' = saga
        /\ step' = [step EXCEPT ![runner[p].i] = "COMPENSATED"]
    BY <1>17 DEF UndoSucceeds, At
  <2>5. OneRunner'
    BY <2>1, <2>2, <2>3, <2>4
    DEF TypeOK, Positions, OneRunner, RowsFollowCurrent, UndoneIsNotExecuted,
        RunnersAndStatus, RunnersAndRows, OutcomesAndRows, Doing, Undoing, At
  <2>6. RowsFollowCurrent'
    BY <2>1, <2>2, <2>3, <2>4
    DEF TypeOK, Positions, OneRunner, RowsFollowCurrent, UndoneIsNotExecuted,
        RunnersAndStatus, RunnersAndRows, OutcomesAndRows, Doing, Undoing, At
  <2>7. UndoneIsNotExecuted'
    BY <2>1, <2>2, <2>3, <2>4
    DEF TypeOK, Positions, OneRunner, RowsFollowCurrent, UndoneIsNotExecuted,
        RunnersAndStatus, RunnersAndRows, OutcomesAndRows, Doing, Undoing, At
  <2>8. RunnersAndStatus'
    BY <2>1, <2>2, <2>3, <2>4
    DEF TypeOK, Positions, OneRunner, RowsFollowCurrent, UndoneIsNotExecuted,
        RunnersAndStatus, RunnersAndRows, OutcomesAndRows, Doing, Undoing, At
  <2>9. RunnersAndRows'
    BY <2>1, <2>2, <2>3, <2>4
    DEF TypeOK, Positions, OneRunner, RowsFollowCurrent, UndoneIsNotExecuted,
        RunnersAndStatus, RunnersAndRows, OutcomesAndRows, Doing, Undoing, At
  <2>10. OutcomesAndRows'
    BY <2>1, <2>2, <2>3, <2>4
    DEF TypeOK, Positions, OneRunner, RowsFollowCurrent, UndoneIsNotExecuted,
        RunnersAndStatus, RunnersAndRows, OutcomesAndRows, Doing, Undoing, At
  <2> QED BY <2>5, <2>6, <2>7, <2>8, <2>9, <2>10
<1>18. ASSUME NEW p \in Runners, UndoFails(p) PROVE Course'
  <2>1. runner[p].i \in Steps
    BY <1>18 DEF UndoFails, Positions
  <2>2. runner[p].i - 1 \in 0..(N + 1)
    BY <2>1
  <2>3. /\ runner'[p].pc = "compensating"
        /\ runner'[p].i = runner[p].i - 1
        /\ \A q \in Runners \ {p} : runner[q].pc = "idle" /\ runner'[q].pc = "idle"
    BY <1>18, <2>2, Compensating, Alone DEF UndoFails, At
  <2>4. /\ runner[p].pc = "undoing"
        /\ saga' = saga
        /\ step' = step
    BY <1>18 DEF UndoFails, At
  <2>5. OneRunner'
    BY <2>1, <2>2, <2>3, <2>4
    DEF TypeOK, Positions, OneRunner, RowsFollowCurrent, UndoneIsNotExecuted,
        RunnersAndStatus, RunnersAndRows, OutcomesAndRows, Doing, Undoing, At
  <2>6. RowsFollowCurrent'
    BY <2>1, <2>2, <2>3, <2>4
    DEF TypeOK, Positions, OneRunner, RowsFollowCurrent, UndoneIsNotExecuted,
        RunnersAndStatus, RunnersAndRows, OutcomesAndRows, Doing, Undoing, At
  <2>7. UndoneIsNotExecuted'
    BY <2>1, <2>2, <2>3, <2>4
    DEF TypeOK, Positions, OneRunner, RowsFollowCurrent, UndoneIsNotExecuted,
        RunnersAndStatus, RunnersAndRows, OutcomesAndRows, Doing, Undoing, At
  <2>8. RunnersAndStatus'
    BY <2>1, <2>2, <2>3, <2>4
    DEF TypeOK, Positions, OneRunner, RowsFollowCurrent, UndoneIsNotExecuted,
        RunnersAndStatus, RunnersAndRows, OutcomesAndRows, Doing, Undoing, At
  <2>9. RunnersAndRows'
    BY <2>1, <2>2, <2>3, <2>4
    DEF TypeOK, Positions, OneRunner, RowsFollowCurrent, UndoneIsNotExecuted,
        RunnersAndStatus, RunnersAndRows, OutcomesAndRows, Doing, Undoing, At
  <2>10. OutcomesAndRows'
    BY <2>1, <2>2, <2>3, <2>4
    DEF TypeOK, Positions, OneRunner, RowsFollowCurrent, UndoneIsNotExecuted,
        RunnersAndStatus, RunnersAndRows, OutcomesAndRows, Doing, Undoing, At
  <2> QED BY <2>5, <2>6, <2>7, <2>8, <2>9, <2>10
<1>19. ASSUME NEW p \in Runners, EndCompensate(p) PROVE Course'
  <2>1. /\ runner'[p].pc = "idle"
        /\ \A q \in Runners \ {p} : runner[q].pc = "idle" /\ runner'[q].pc = "idle"
    BY <1>19, Ending, Alone DEF EndCompensate, At, Activities, Statuses
  <2>2. /\ runner[p].pc = "compensating"
        /\ runner[p].i = 0
        /\ saga'.status \in {"FAILED", "COMPENSATED"}
        /\ saga'.current = saga.current
        /\ step' = step
    BY <1>19, SagaTypes DEF EndCompensate, At, Statuses
  <2>3. OneRunner'
    BY <2>1, <2>2
    DEF TypeOK, Positions, OneRunner, RowsFollowCurrent, UndoneIsNotExecuted,
        RunnersAndStatus, RunnersAndRows, OutcomesAndRows, Doing, Undoing, At
  <2>4. RowsFollowCurrent'
    BY <2>1, <2>2
    DEF TypeOK, Positions, OneRunner, RowsFollowCurrent, UndoneIsNotExecuted,
        RunnersAndStatus, RunnersAndRows, OutcomesAndRows, Doing, Undoing, At
  <2>5. UndoneIsNotExecuted'
    BY <2>1, <2>2
    DEF TypeOK, Positions, OneRunner, RowsFollowCurrent, UndoneIsNotExecuted,
        RunnersAndStatus, RunnersAndRows, OutcomesAndRows, Doing, Undoing, At
  <2>6. RunnersAndStatus'
    BY <2>1, <2>2
    DEF TypeOK, Positions, OneRunner, RowsFollowCurrent, UndoneIsNotExecuted,
        RunnersAndStatus, RunnersAndRows, OutcomesAndRows, Doing, Undoing, At
  <2>7. RunnersAndRows'
    BY <2>1, <2>2
    DEF TypeOK, Positions, OneRunner, RowsFollowCurrent, UndoneIsNotExecuted,
        RunnersAndStatus, RunnersAndRows, OutcomesAndRows, Doing, Undoing, At
  <2>8. OutcomesAndRows'
    BY <2>1, <2>2
    DEF TypeOK, Positions, OneRunner, RowsFollowCurrent, UndoneIsNotExecuted,
        RunnersAndStatus, RunnersAndRows, OutcomesAndRows, Doing, Undoing, At
  <2> QED BY <2>3, <2>4, <2>5, <2>6, <2>7, <2>8
<1>20. ASSUME NEW p \in Runners, Crash(p) PROVE Course'
  <2>1. /\ runner'[p].pc = "idle"
        /\ \A q \in Runners \ {p} : runner[q].pc = "idle" /\ runner'[q].pc = "idle"
    BY <1>20, Ending, Alone DEF Crash, At, Activities, Statuses
  <2>2. /\ saga' = saga
        /\ step' = step
    BY <1>20 DEF Crash, At
  <2> QED
    BY <2>1, <2>2
    DEF TypeOK, Positions, OneRunner, RowsFollowCurrent, UndoneIsNotExecuted, RunnersAndStatus,
        RunnersAndRows, OutcomesAndRows, Doing, Undoing, At, Statuses, StepStatuses
<1>21. CASE NothingToCompensate
  <2>1. /\ saga.status = "FAILED"
        /\ saga'.status = "COMPENSATED"
        /\ saga'.current = saga.current
        /\ step' = step
        /\ \A i \in Steps : step[i] # "COMPLETED"
        /\ runner' = runner
        /\ \A q \in Runners : runner[q].pc = "idle"
    BY <1>21, SagaTypes DEF NothingToCompensate, TypeOK, At, Statuses
  <2> QED
    BY <2>1
    DEF TypeOK, Positions, OneRunner, RowsFollowCurrent, UndoneIsNotExecuted, RunnersAndStatus,
        RunnersAndRows, OutcomesAndRows, Doing, Undoing, At, Statuses, StepStatuses
<1>22. CASE MarkFailed
  <2>1. /\ saga'.status = "FAILED"
        /\ saga'.current = saga.current
        /\ step' = step
        /\ runner' = runner
    BY <1>22, SagaTypes DEF MarkFailed, Statuses
  <2> QED
    BY <2>1
    DEF TypeOK, Positions, OneRunner, RowsFollowCurrent, UndoneIsNotExecuted, RunnersAndStatus,
        RunnersAndRows, OutcomesAndRows, Doing, Undoing, At, Statuses, StepStatuses
<1>23. CASE Cleanup
  <2>1. /\ saga'.status = "none"
        /\ saga'.current = 0
        /\ \A i \in Steps : step'[i] = "PENDING"
        /\ runner' = runner
        /\ \A q \in Runners : runner[q].pc = "idle"
    BY <1>23 DEF Cleanup, NoSaga, NoSteps, At
  <2> QED
    BY <2>1
    DEF TypeOK, Positions, OneRunner, RowsFollowCurrent, UndoneIsNotExecuted, RunnersAndStatus,
        RunnersAndRows, OutcomesAndRows, Doing, Undoing, At, Statuses, StepStatuses
<1>24. CASE UNCHANGED vars
  BY <1>24 DEF vars, TypeOK, Positions, OneRunner, RowsFollowCurrent, UndoneIsNotExecuted, RunnersAndStatus,
     RunnersAndRows, OutcomesAndRows, Doing, Undoing, At, Statuses, StepStatuses
<1> QED
  BY <1>1, <1>2, <1>3, <1>4, <1>5, <1>6, <1>7, <1>8, <1>9, <1>10, <1>11,
     <1>12, <1>13, <1>14, <1>15, <1>16, <1>17, <1>18, <1>19, <1>20, <1>21,
     <1>22, <1>23, <1>24 DEF Next, Run

-----------------------------------------------------------------------------
(* How often the effects are in force.                                     *)

Committed(i) == \E p \in Runners : At(p, "committed") /\ runner[p].i = i

\* A self-committing step that is not completed has an effect more than the
\* crashes explain only while its runner has it committed.
SelfCommitted(i) ==
  /\ step[i] = "COMPLETED" => effect[i] > 0
  /\ Committed(i) => effect[i] > 0
  /\ i <= saga.current => effect[i] <= 1 + crashes
  /\ i > saga.current => effect[i] <= crashes \/ (Committed(i) /\ effect[i] <= 1 + crashes)

Flushed(i) ==
  /\ step[i] = "COMPLETED" => effect[i] = 1
  /\ step[i] = "COMPENSATING" => effect[i] \in {0, 1}
  /\ step[i] \notin {"COMPLETED", "COMPENSATING"} => effect[i] = 0

Effects ==
  /\ \A i \in ReadOnly : effect[i] = 0
  /\ \A i \in Flushing : Flushed(i)
  /\ \A i \in SelfCommitting : SelfCommitted(i)

\* A step that leaves the effects, current_step and the crashes alone, and in
\* which nobody comes to or from a committed effect, keeps Effects if the
\* rows it writes agree with them.
LEMMA EffectsUntouched ==
  ASSUME TypeInv, Effects, UNCHANGED <<effect, crashes>>, saga'.current = saga.current,
         \A i \in SelfCommitting : Committed(i)' <=> Committed(i),
         \A i \in Steps : \/ step'[i] = step[i]
                          \/ step[i] = "COMPLETED" /\ step'[i] = "COMPENSATING"
                          \/ step[i] # "COMPLETED" /\ step[i] # "COMPENSATING"
                               /\ step'[i] \in {"EXECUTING", "FAILED"}
                          \/ i \in ReadOnly
  PROVE  Effects'
<1> USE DEF TypeInv, TypeOK, Effects
<1>1. \A i \in ReadOnly : effect'[i] = 0
  OBVIOUS
<1>2. ASSUME NEW i \in Flushing PROVE Flushed(i)'
  BY <1>2 DEF Flushing, Flushed
<1>3. ASSUME NEW i \in SelfCommitting PROVE SelfCommitted(i)'
  BY <1>3 DEF SelfCommitted
<1> QED BY <1>1, <1>2, <1>3 DEF Flushing

\* Nobody else moves, and p is not at a committed effect before or after.
LEMMA NoneCommitted ==
  ASSUME NEW p \in Runners, Others(p), runner[p].pc # "committed", runner'[p].pc # "committed"
  PROVE  \A i \in Steps : Committed(i)' <=> Committed(i)
BY DEF Others, Committed, At

\* Undoing an effect whose row is COMPENSATING.
LEMMA UndoingEffect ==
  ASSUME TypeInv, Effects, NEW i \in Steps \ ReadOnly, step[i] = "COMPENSATING",
         UNCHANGED <<saga, step, crashes>>, effect' = [effect EXCEPT ![i] = Minus(@)],
         \A j \in Steps : Committed(j)' <=> Committed(j), i \in SelfCommitting => ~Committed(i)
  PROVE  Effects'
<1> USE DEF TypeInv, TypeOK
<1>1. effect'[i] = Minus(effect[i]) /\ \A j \in Steps \ {i} : effect'[j] = effect[j]
  OBVIOUS
<1>2. effect[i] \in Counts /\ Minus(effect[i]) <= effect[i]
  BY DEF Counts, Minus
<1>3. ASSUME NEW j \in Flushing PROVE Flushed(j)'
  <2>1. Flushed(j) /\ j \in Steps
    BY DEF Effects, Flushing
  <2>2. CASE j = i
    BY <1>1, <2>1, <2>2 DEF Flushed, Minus
  <2>3. CASE j # i
    BY <1>1, <2>1, <2>3 DEF Flushed
  <2> QED BY <2>2, <2>3
<1>4. ASSUME NEW j \in SelfCommitting PROVE SelfCommitted(j)'
  <2>1. SelfCommitted(j) /\ j \in Steps
    BY DEF Effects
  <2>2. CASE j = i
    <3>1. effect[i] \in Int /\ effect'[i] \in Int /\ crashes \in Int /\ saga.current \in Int
      BY <1>1, <1>2, CountTypes, SagaTypes DEF Counts
    <3>2. effect'[i] <= effect[i] /\ crashes' = crashes /\ saga' = saga
      BY <1>1, <1>2
    <3>3. step'[i] # "COMPLETED" /\ ~Committed(i) /\ ~Committed(i)'
      BY <2>2
    <3>4. /\ i <= saga.current => effect[i] <= 1 + crashes
          /\ i > saga.current => effect[i] <= crashes
      BY <2>1, <2>2, <3>3 DEF SelfCommitted
    <3> HIDE DEF TypeInv, TypeOK
    <3>5. /\ i <= saga.current => effect'[i] <= 1 + crashes
          /\ i > saga.current => effect'[i] <= crashes
      BY <3>1, <3>2, <3>4
    <3> QED BY <2>2, <3>2, <3>3, <3>5 DEF SelfCommitted
  <2>3. CASE j # i
    BY <1>1, <2>1, <2>3 DEF SelfCommitted
  <2> QED BY <2>2, <2>3
<1> QED BY <1>1, <1>3, <1>4 DEF Effects

LEMMA EffectsStep ==
  ASSUME TypeInv, Course, Effects, ~overlapped, ~overlapped', [Next]_vars
  PROVE  Effects'
<1> USE DEF TypeInv
<1>1. ASSUME NEW p \in Runners, Create(p) PROVE Effects'
  <2>1. Others(p) /\ runner[p].pc # "committed" /\ runner'[p].pc # "committed"
    BY <1>1, TakingUp DEF Create, At, Activities, Statuses
  <2>2. UNCHANGED <<effect, crashes>> /\ saga'.current = saga.current
    BY <1>1, SagaTypes DEF Create, Statuses
  <2>3. step' = step
    BY <1>1 DEF Create
  <2> QED BY <2>1, <2>2, <2>3, NoneCommitted, EffectsUntouched
<1>2. ASSUME NEW p \in Runners, Resume(p) PROVE Effects'
  <2>1. Others(p) /\ runner[p].pc # "committed" /\ runner'[p].pc # "committed"
    BY <1>2, TakingUp, SagaTypes DEF Resume, At, Activities
  <2>2. UNCHANGED <<effect, crashes>> /\ saga'.current = saga.current
    BY <1>2, SagaTypes DEF Resume, Statuses
  <2>3. step' = step
    BY <1>2 DEF Resume
  <2> QED BY <2>1, <2>2, <2>3, NoneCommitted, EffectsUntouched
<1>3. ASSUME NEW p \in Runners, ForceCompensate(p) PROVE Effects'
  <2>1. Others(p) /\ runner[p].pc # "committed" /\ runner'[p].pc # "committed"
    BY <1>3, TakingUp, SagaTypes DEF ForceCompensate, At, Activities
  <2>2. UNCHANGED <<effect, crashes>> /\ saga'.current = saga.current
    BY <1>3, SagaTypes DEF ForceCompensate, Statuses
  <2>3. step' = step
    BY <1>3 DEF ForceCompensate
  <2> QED BY <2>1, <2>2, <2>3, NoneCommitted, EffectsUntouched
<1>4. ASSUME NEW p \in Runners, RetryCompensation(p) PROVE Effects'
  <2>1. Others(p) /\ runner[p].pc # "committed" /\ runner'[p].pc # "committed"
    BY <1>4, TakingUp DEF RetryCompensation, At, Activities, Statuses
  <2>2. UNCHANGED <<effect, crashes>> /\ saga'.current = saga.current
    BY <1>4, SagaTypes DEF RetryCompensation, Statuses
  <2>3. step' = step
    BY <1>4 DEF RetryCompensation
  <2> QED BY <2>1, <2>2, <2>3, NoneCommitted, EffectsUntouched
<1>5. ASSUME NEW p \in Runners, BeginExecute(p) PROVE Effects'
  <2>1. Others(p) /\ runner[p].pc # "committed" /\ runner'[p].pc # "committed"
    BY <1>5, MovingOn, SagaTypes DEF BeginExecute, At, Activities
  <2>2. UNCHANGED <<effect, crashes>> /\ saga'.current = saga.current
    BY <1>5, SagaTypes, Starting DEF BeginExecute, Statuses
  <2>3. step' = step
    BY <1>5 DEF BeginExecute
  <2> QED BY <2>1, <2>2, <2>3, NoneCommitted, EffectsUntouched
<1>6. ASSUME NEW p \in Runners, SkipCompleted(p) PROVE Effects'
  <2>1. Others(p) /\ runner[p].pc # "committed" /\ runner'[p].pc # "committed"
    BY <1>6, MovingOn DEF SkipCompleted, At, Activities, Positions
  <2>2. UNCHANGED <<effect, crashes>> /\ saga'.current = saga.current
    BY <1>6, SagaTypes DEF SkipCompleted, Statuses
  <2>3. step' = step
    BY <1>6 DEF SkipCompleted
  <2> QED BY <2>1, <2>2, <2>3, NoneCommitted, EffectsUntouched
<1>7. ASSUME NEW p \in Runners, EnterStep(p) PROVE Effects'
  <2>1. Others(p) /\ runner[p].pc # "committed" /\ runner'[p].pc # "committed"
    BY <1>7, Moving DEF EnterStep, At, Activities
  <2>2. UNCHANGED <<effect, crashes>> /\ saga'.current = saga.current
    BY <1>7, SagaTypes DEF EnterStep, Statuses
  <2>3. \A i \in Steps : \/ step'[i] = step[i]
                         \/ step[i] # "COMPLETED" /\ step[i] # "COMPENSATING"
                              /\ step'[i] \in {"EXECUTING", "FAILED"}
    <3>1. step[runner[p].i] # "COMPENSATING" /\ step[runner[p].i] # "COMPLETED"
      BY <1>7 DEF EnterStep, Course, UndoneIsNotExecuted, Doing, At
    <3> QED BY <1>7, <3>1 DEF EnterStep, TypeOK
  <2> QED BY <2>1, <2>2, <2>3, NoneCommitted, EffectsUntouched
<1>8. ASSUME NEW p \in Runners, StepCommits(p) PROVE Effects'
  <2> DEFINE i == runner[p].i
  <2>1. i \in SelfCommitting /\ i > saga.current /\ runner[p].pc = "inside"
    BY <1>8, SagaTypes DEF StepCommits, Course, RunnersAndRows, At
  <2>2. /\ runner'[p].pc = "committed"
        /\ runner'[p].i = i
        /\ \A q \in Runners \ {p} : runner[q].pc = "idle" /\ runner'[q].pc = "idle"
    BY <1>8, <2>1, Moving, Alone DEF StepCommits, At, Activities, Course
  <2>3. effect' = [effect EXCEPT ![i] = Plus(@)] /\ UNCHANGED <<saga, step, crashes>>
    BY <1>8 DEF StepCommits
  <2>4. \A j \in Steps : ~Committed(j) /\ (Committed(j)' <=> j = i)
    BY <2>1, <2>2 DEF Committed, At
  <2>5. effect[i] <= crashes
    BY <2>1, <2>4 DEF Effects, SelfCommitted
  <2>6. effect'[i] > 0 /\ effect'[i] <= 1 + crashes
    <3>1. effect[i] \in Counts /\ crashes \in 0..MaxCrashes
      BY <2>1 DEF TypeOK
    <3>2. effect'[i] = Plus(effect[i])
      BY <2>1, <2>3 DEF TypeOK
    <3> QED BY <2>5, <3>1, <3>2 DEF Plus, Counts
  <2>7. \A j \in Steps \ {i} : effect'[j] = effect[j]
    BY <2>3 DEF TypeOK
  <2>8. ASSUME NEW j \in SelfCommitting PROVE SelfCommitted(j)'
    <3>1. CASE j = i
      BY <2>1, <2>3, <2>4, <2>6, <3>1, SagaTypes DEF SelfCommitted
    <3>2. CASE j # i
      BY <2>3, <2>4, <2>7, <3>2 DEF SelfCommitted, Effects
    <3> QED BY <3>1, <3>2
  <2> QED BY <2>1, <2>3, <2>7, <2>8 DEF Effects, Flushing, Flushed
<1>9. ASSUME NEW p \in Runners, StepSucceeds(p) PROVE Effects'
  <2> DEFINE i == runner[p].i
  <2>1. i \in Steps /\ i = saga.current + 1 /\ step[i] = "EXECUTING"
    BY <1>9 DEF StepSucceeds, Course, RunnersAndRows, At, Positions
  <2>2. i + 1 \in 0..(N + 1)
    BY <2>1
  <2>3. /\ runner'[p].pc = "executing"
        /\ \A q \in Runners \ {p} : runner[q].pc = "idle" /\ runner'[q].pc = "idle"
    BY <1>9, <2>2, MovingOn, Alone DEF StepSucceeds, At, Activities, Course
  <2>4. /\ saga'.current = i
        /\ step' = [step EXCEPT ![i] = "COMPLETED"]
        /\ crashes' = crashes
    BY <1>9, <2>1, SagaTypes DEF StepSucceeds
  <2>5. \A j \in Steps : ~Committed(j)' /\ (j # i => ~Committed(j))
    BY <2>3 DEF Committed, At
  <2>6. \A j \in Steps : j # i \/ j \notin Flushing => effect'[j] = effect[j]
    BY <1>9 DEF StepSucceeds, TypeOK, Flushing
  <2>7. ASSUME NEW j \in Flushing PROVE Flushed(j)'
    <3>1. CASE j = i
      <4>1. effect' = [effect EXCEPT ![i] = Plus(@)] /\ effect[i] = 0
        BY <1>9, <2>1, <3>1 DEF StepSucceeds, Flushing, Effects, Flushed
      <4>2. effect'[i] = 1
        BY <2>1, <4>1 DEF Plus, TypeOK
      <4> QED BY <2>1, <2>4, <3>1, <4>2 DEF Flushed, TypeOK
    <3>2. CASE j # i
      BY <2>4, <2>6, <3>2 DEF Flushed, Effects, Flushing, TypeOK
    <3> QED BY <3>1, <3>2
  <2>8. ASSUME NEW j \in SelfCommitting PROVE SelfCommitted(j)'
    <3>1. effect'[j] = effect[j] /\ j \in Steps
      BY <2>6 DEF Flushing
    <3>2. CASE j = i
      <4>1. Committed(j)
        BY <1>9, <3>2 DEF StepSucceeds, Committed, At
      <4>2. effect[j] > 0 /\ effect[j] <= 1 + crashes
        BY <2>1, <3>2, <4>1 DEF Effects, SelfCommitted, TypeOK, Counts
      <4> QED BY <2>4, <2>5, <3>1, <3>2, <4>2 DEF SelfCommitted
    <3>3. CASE j # i
      <4>1. step'[j] = step[j] /\ ~Committed(j) /\ ~Committed(j)'
        BY <2>4, <2>5, <3>1, <3>3 DEF TypeOK
      <4>2. j <= i <=> j <= saga.current
        BY <2>1, <3>1, <3>3, SagaTypes
      <4>3. SelfCommitted(j)
        BY DEF Effects
      <4>4. saga.current \in 0..N
        BY SagaTypes
      <4> QED BY <2>1, <2>4, <3>1, <4>1, <4>2, <4>3, <4>4 DEF SelfCommitted
    <3> QED BY <3>2, <3>3
  <2> QED BY <2>1, <2>6, <2>7, <2>8 DEF Effects, Flushing
<1>10. ASSUME NEW p \in Runners, StepFails(p) PROVE Effects'
  <2>1. Others(p) /\ runner[p].pc # "committed" /\ runner'[p].pc # "committed"
    BY <1>10, Failing DEF StepFails, At, Activities
  <2>2. UNCHANGED <<effect, crashes>> /\ saga'.current = saga.current
    BY <1>10, SagaTypes DEF StepFails, Statuses
  <2>3. \A i \in Steps : \/ step'[i] = step[i]
                         \/ step[i] # "COMPLETED" /\ step[i] # "COMPENSATING"
                              /\ step'[i] \in {"EXECUTING", "FAILED"}
    <3>1. step[runner[p].i] = "EXECUTING"
      BY <1>10 DEF StepFails, Course, RunnersAndRows, At
    <3> QED BY <1>10, <3>1 DEF StepFails, TypeOK
  <2> QED BY <2>1, <2>2, <2>3, NoneCommitted, EffectsUntouched
<1>11. ASSUME NEW p \in Runners, Complete(p) PROVE Effects'
  <2>1. Others(p) /\ runner[p].pc # "committed" /\ runner'[p].pc # "committed"
    BY <1>11, Ending DEF Complete, At, Activities
  <2>2. UNCHANGED <<effect, crashes>> /\ saga'.current = saga.current
    BY <1>11, SagaTypes DEF Complete, Statuses
  <2>3. step' = step
    BY <1>11 DEF Complete
  <2> QED BY <2>1, <2>2, <2>3, NoneCommitted, EffectsUntouched
<1>12. ASSUME NEW p \in Runners, BeginCompensate(p) PROVE Effects'
  <2>1. Others(p) /\ runner[p].pc # "committed" /\ runner'[p].pc # "committed"
    <3>1. saga.current \in 0..(N + 1)
      BY SagaTypes
    <3> QED BY <1>12, <3>1, Compensating DEF BeginCompensate, At
  <2>2. UNCHANGED <<effect, crashes>> /\ saga'.current = saga.current
    BY <1>12, Starting DEF BeginCompensate, Statuses
  <2>3. step' = step
    BY <1>12 DEF BeginCompensate
  <2> QED BY <2>1, <2>2, <2>3, NoneCommitted, EffectsUntouched
<1>13. ASSUME NEW p \in Runners, SkipUncompleted(p) PROVE Effects'
  <2>1. Others(p) /\ runner[p].pc # "committed" /\ runner'[p].pc # "committed"
    <3>1. runner[p].i - 1 \in 0..(N + 1)
      BY <1>13 DEF SkipUncompleted, Positions
    <3> QED BY <1>13, <3>1, MovingOn DEF SkipUncompleted, At, Activities
  <2>2. UNCHANGED <<effect, crashes>> /\ saga'.current = saga.current
    BY <1>13 DEF SkipUncompleted
  <2>3. step' = step
    BY <1>13 DEF SkipUncompleted
  <2> QED BY <2>1, <2>2, <2>3, NoneCommitted, EffectsUntouched
<1>14. ASSUME NEW p \in Runners, UndoReadOnly(p) PROVE Effects'
  <2>1. Others(p) /\ runner[p].pc # "committed" /\ runner'[p].pc # "committed"
    <3>1. runner[p].i - 1 \in 0..(N + 1)
      BY <1>14 DEF UndoReadOnly, Positions
    <3> QED BY <1>14, <3>1, MovingOn DEF UndoReadOnly, At, Activities
  <2>2. UNCHANGED <<effect, crashes>> /\ saga'.current = saga.current
    BY <1>14 DEF UndoReadOnly
  <2>3. \A i \in Steps : step'[i] = step[i] \/ i \in ReadOnly
    BY <1>14 DEF UndoReadOnly, TypeOK
  <2> QED BY <2>1, <2>2, <2>3, NoneCommitted, EffectsUntouched
<1>15. ASSUME NEW p \in Runners, EnterUndo(p) PROVE Effects'
  <2>1. Others(p) /\ runner[p].pc # "committed" /\ runner'[p].pc # "committed"
    BY <1>15, Moving DEF EnterUndo, At, Activities
  <2>2. UNCHANGED <<effect, crashes>> /\ saga'.current = saga.current
    BY <1>15, SagaTypes DEF EnterUndo, Statuses
  <2>3. \A i \in Steps : \/ step'[i] = step[i]
                         \/ step[i] = "COMPLETED" /\ step'[i] = "COMPENSATING"
    BY <1>15 DEF EnterUndo, TypeOK
  <2> QED BY <2>1, <2>2, <2>3, NoneCommitted, EffectsUntouched
<1>16. ASSUME NEW p \in Runners, UndoCommits(p) PROVE Effects'
  <2> DEFINE i == runner[p].i
  <2>1. i \in SelfCommitting /\ step[i] = "COMPENSATING"
    BY <1>16 DEF UndoCommits, Course, RunnersAndRows, At
  <2>2. Others(p) /\ runner[p].pc # "committed" /\ runner'[p].pc # "committed"
    BY <1>16, Moving DEF UndoCommits, At, Activities
  <2>3. \A j \in Steps : Committed(j)' <=> Committed(j)
    BY <2>2, NoneCommitted
  <2>4. UNCHANGED <<saga, step, crashes>> /\ effect' = [effect EXCEPT ![i] = Minus(@)]
    BY <1>16 DEF UndoCommits
  <2>5. ~Committed(i)
    BY <1>16 DEF UndoCommits, Course, OneRunner, Committed, At
  <2>6. i \in Steps \ ReadOnly
    BY <2>1
  <2> QED BY <2>1, <2>3, <2>4, <2>5, <2>6, UndoingEffect
<1>17. ASSUME NEW p \in Runners, UndoSucceeds(p) PROVE Effects'
  <2> DEFINE i == runner[p].i
  <2>1. i \in Steps \ ReadOnly /\ step[i] = "COMPENSATING"
    BY <1>17 DEF UndoSucceeds, Course, RunnersAndRows, At, Positions
  <2>2. i - 1 \in 0..(N + 1)
    BY <2>1
  <2>3. Others(p) /\ runner[p].pc # "committed" /\ runner'[p].pc # "committed"
    BY <1>17, <2>2, MovingOn DEF UndoSucceeds, At, Activities
  <2>4. \A j \in Steps : Committed(j)' <=> Committed(j)
    BY <2>3, NoneCommitted
  <2>5. /\ UNCHANGED <<saga, crashes>>
        /\ step' = [step EXCEPT ![i] = "COMPENSATED"]
        /\ effect' = IF i \in SelfCommitting THEN effect ELSE [effect EXCEPT ![i] = Minus(@)]
    BY <1>17 DEF UndoSucceeds
  <2>6. ASSUME NEW j \in Flushing PROVE Flushed(j)'
    <3>1. CASE j = i
      <4>1. effect[i] \in {0, 1} /\ effect' = [effect EXCEPT ![i] = Minus(@)]
        BY <2>1, <2>5, <3>1 DEF Effects, Flushed, Flushing
      <4>2. effect'[i] = 0
        BY <2>1, <4>1 DEF Minus, TypeOK
      <4> QED BY <2>1, <2>5, <3>1, <4>2 DEF Flushed, TypeOK
    <3>2. CASE j # i
      BY <2>5, <3>2 DEF Flushed, Effects, Flushing, TypeOK
    <3> QED BY <3>1, <3>2
  <2>7. ASSUME NEW j \in SelfCommitting PROVE SelfCommitted(j)'
    <3>1. effect'[j] = effect[j] /\ j \in Steps
      BY <2>5 DEF TypeOK
    <3>2. step'[j] = "COMPLETED" => step[j] = "COMPLETED"
      BY <2>5, <3>1 DEF TypeOK
    <3>3. SelfCommitted(j)
      BY DEF Effects
    <3> QED BY <2>4, <2>5, <3>1, <3>2, <3>3 DEF SelfCommitted
  <2>8. \A j \in ReadOnly : effect'[j] = 0
    BY <2>1, <2>5 DEF Effects, TypeOK
  <2> QED BY <2>6, <2>7, <2>8 DEF Effects
<1>18. ASSUME NEW p \in Runners, UndoFails(p) PROVE Effects'
  <2> DEFINE i == runner[p].i
  <2>1. i \in Steps \ ReadOnly /\ step[i] = "COMPENSATING"
    BY <1>18 DEF UndoFails, Course, RunnersAndRows, At, Positions
  <2>2. i - 1 \in 0..(N + 1)
    BY <2>1
  <2>3. Others(p) /\ runner[p].pc # "committed" /\ runner'[p].pc # "committed"
    BY <1>18, <2>2, Compensating DEF UndoFails, At
  <2>4. \A j \in Steps : Committed(j)' <=> Committed(j)
    BY <2>3, NoneCommitted
  <2>5. UNCHANGED <<saga, step, crashes>>
    BY <1>18 DEF UndoFails
  <2>6. CASE UNCHANGED effect
    BY <2>4, <2>5, <2>6, EffectsUntouched
  <2>7. CASE i \notin SelfCommitting /\ effect' = [effect EXCEPT ![i] = Minus(@)]
    BY <2>1, <2>4, <2>5, <2>7, UndoingEffect
  <2> QED BY <1>18, <2>6, <2>7 DEF UndoFails
<1>19. ASSUME NEW p \in Runners, EndCompensate(p) PROVE Effects'
  <2>1. Others(p) /\ runner[p].pc # "committed" /\ runner'[p].pc # "committed"
    BY <1>19, Ending DEF EndCompensate, At, Activities
  <2>2. UNCHANGED <<effect, crashes>> /\ saga'.current = saga.current
    BY <1>19, SagaTypes DEF EndCompensate, Statuses
  <2>3. step' = step
    BY <1>19 DEF EndCompensate
  <2> QED BY <2>1, <2>2, <2>3, NoneCommitted, EffectsUntouched
<1>20. ASSUME NEW p \in Runners, Crash(p) PROVE Effects'
  <2>1. runner'[p].pc = "idle" /\ \A q \in Runners \ {p} : runner'[q].pc = "idle"
    BY <1>20, Ending, Alone DEF Crash, Course
  <2>2. \A j \in Steps : ~Committed(j)'
    BY <2>1 DEF Committed, At
  <2>3. UNCHANGED <<saga, step, effect>> /\ crashes' = crashes + 1
    BY <1>20 DEF Crash
  <2>4. ASSUME NEW j \in SelfCommitting PROVE SelfCommitted(j)'
    <3>1. SelfCommitted(j) /\ effect[j] \in Counts /\ crashes \in 0..MaxCrashes
      BY DEF Effects, TypeOK
    <3> QED BY <2>2, <2>3, <3>1 DEF SelfCommitted, Counts
  <2> QED BY <2>3, <2>4 DEF Effects, Flushed
<1>21. CASE NothingToCompensate
  <2>1. UNCHANGED <<step, effect, runner, crashes>> /\ saga'.current = saga.current
    BY <1>21, SagaTypes DEF NothingToCompensate, Statuses
  <2> QED BY <2>1, EffectsUntouched DEF Committed, At
<1>22. CASE MarkFailed
  <2>1. UNCHANGED <<step, effect, runner, crashes>> /\ saga'.current = saga.current
    BY <1>22, SagaTypes DEF MarkFailed, Statuses
  <2> QED BY <2>1, EffectsUntouched DEF Committed, At
<1>23. CASE Cleanup
  <2>1. \A i \in Steps : effect'[i] = 0 /\ step'[i] = "PENDING" /\ ~Committed(i)'
    BY <1>23 DEF Cleanup, NoEffects, NoSteps, Committed, At
  <2>2. saga'.current = 0 /\ crashes' \in 0..MaxCrashes
    BY <1>23 DEF Cleanup, NoSaga, TypeOK
  <2> QED BY <2>1, <2>2 DEF Effects, Flushing, Flushed, SelfCommitted
<1>24. CASE UNCHANGED vars
  <2>1. UNCHANGED <<saga, step, effect, runner, crashes>>
    BY <1>24 DEF vars
  <2> QED BY <2>1, EffectsUntouched DEF Committed, At
<1> QED
  BY <1>1, <1>2, <1>3, <1>4, <1>5, <1>6, <1>7, <1>8, <1>9, <1>10, <1>11,
     <1>12, <1>13, <1>14, <1>15, <1>16, <1>17, <1>18, <1>19, <1>20, <1>21,
     <1>22, <1>23, <1>24 DEF Next, Run

-----------------------------------------------------------------------------
(* The inductive invariant, and what follows from it.                      *)

SagaInv == TypeInv /\ (~overlapped => Course /\ Effects)

LEMMA InitInv == Init => SagaInv
<1> SUFFICES ASSUME Init PROVE SagaInv
  OBVIOUS
<1>1. Idle \in Attempts /\ \A p \in Runners : At(p, "idle")
  BY DEF Init, Idle, Attempts, Activities, Statuses, At
<1>2. TypeInv
  <2>1. saga \in [status : Statuses, current : 0..N] /\ step \in [Steps -> StepStatuses]
    BY DEF Init, NoSaga, NoSteps, Statuses, StepStatuses
  <2>2. effect \in [Steps -> Counts] /\ crashes \in 0..MaxCrashes /\ overlapped \in BOOLEAN
    <3>1. 0 \in Counts /\ 0 \in 0..MaxCrashes
      BY SMT DEF Counts
    <3>2. NoEffects \in [Steps -> Counts]
      <4> HIDE DEF Steps
      <4> QED BY <3>1 DEF NoEffects
    <3> QED BY <3>1, <3>2 DEF Init
  <2>3. runner \in [Runners -> Attempts]
    BY <1>1 DEF Init
  <2> QED BY <1>1, <2>1, <2>2, <2>3 DEF TypeInv, TypeOK, Positions, At
<1>3. Course
  BY <1>1 DEF Init, Course, NoSaga, NoSteps, At, OneRunner, RowsFollowCurrent,
     UndoneIsNotExecuted, RunnersAndStatus, RunnersAndRows, OutcomesAndRows, Doing, Undoing
<1>4. Effects
  BY <1>1 DEF Init, Effects, NoSaga, NoSteps, NoEffects, Flushing, Flushed, SelfCommitted,
     Committed, At
<1> QED BY <1>2, <1>3, <1>4 DEF SagaInv

\* The rows, the runner's position and the effects stay together in every
\* behaviour, until two requests run the saga at once.
THEOREM InductiveInvariant == Spec => []SagaInv
<1>1. SagaInv /\ [Next]_vars => SagaInv'
  BY TypeStep, OverlapStays, CourseStep, EffectsStep DEF SagaInv, TypeInv
<1> QED BY InitInv, <1>1, PTL DEF Spec

\* Types: every status, position and count stays in its range, overlapped
\* runs included.
THEOREM TypeCorrect == Spec => []TypeOK
<1>1. SagaInv => TypeOK
  BY DEF SagaInv, TypeInv
<1> QED BY InductiveInvariant, <1>1, PTL

\* A saga reported COMPLETED has taken all of its effects, for any number of
\* steps, crashes and resumptions (_execute_steps).
THEOREM CompletedIsDone == Spec => []CompletedMeansDone
<1>1. ASSUME SagaInv, ~overlapped, saga.status = "COMPLETED", NEW i \in Steps \ ReadOnly
      PROVE  effect[i] > 0
  <2>1. i \in Steps /\ i <= saga.current
    BY <1>1, SagaTypes DEF SagaInv, TypeInv, Course, OutcomesAndRows
  <2>2. step[i] = "COMPLETED"
    BY <1>1, <2>1 DEF SagaInv, Course, RowsFollowCurrent, UndoneIsNotExecuted
  <2> QED BY <1>1, <2>1, <2>2 DEF SagaInv, Effects, Flushing, Flushed, SelfCommitted
<1>2. SagaInv => CompletedMeansDone
  BY <1>1 DEF CompletedMeansDone
<1> QED BY InductiveInvariant, <1>2, PTL

\* The row of a step whose commits are the orchestrator's tells its effect.
THEOREM RecordsTellEffects == Spec => []EffectsAreOnRecord
<1>1. SagaInv => EffectsAreOnRecord
  BY DEF SagaInv, Effects, Flushed, EffectsAreOnRecord
<1> QED BY InductiveInvariant, <1>1, PTL

\* Every repetition of an effect is paid for by a crash.
THEOREM RepetitionsAreCrashes == Spec => []OnlyCrashesRepeat
<1>1. ASSUME SagaInv, ~overlapped, NEW i \in Steps
      PROVE  effect[i] <= 1 + crashes
  <2>1. crashes \in Nat /\ saga.current \in Int /\ effect[i] \in Nat
    BY <1>1, SagaTypes DEF SagaInv, TypeInv, TypeOK, Counts
  <2>2. CASE i \in ReadOnly
    BY <1>1, <2>1, <2>2 DEF SagaInv, Effects
  <2>3. CASE i \in Flushing
    BY <1>1, <2>1, <2>3 DEF SagaInv, Effects, Flushed
  <2>4. CASE i \in SelfCommitting
    <3>1. SelfCommitted(i)
      BY <1>1, <2>4 DEF SagaInv, Effects
    <3> QED BY <2>1, <3>1 DEF SelfCommitted
  <2> QED BY <2>2, <2>3, <2>4 DEF Flushing
<1>2. SagaInv => OnlyCrashesRepeat
  BY <1>1 DEF OnlyCrashesRepeat
<1> QED BY InductiveInvariant, <1>2, PTL

\* What a compensated saga leaves in force stands in a COMPENSATING row.
THEOREM LeftoversAreMarked == Spec => []WhatIsLeftIsMarked
<1>1. SagaInv => WhatIsLeftIsMarked
  BY DEF SagaInv, TypeInv, TypeOK, Course, OutcomesAndRows, Effects, Flushing, Flushed,
     Counts, WhatIsLeftIsMarked
<1> QED BY InductiveInvariant, <1>1, PTL

\* Compensation undoes the last completed step first, in every behaviour.
THEOREM CompensationIsReverse == Spec => UndoneInOrder
<1>1. ASSUME SagaInv, [Next]_vars, ~overlapped', NEW i \in Steps,
             step[i] # "COMPENSATED", step'[i] = "COMPENSATED",
             NEW j \in Steps, j > i
      PROVE  step[j] # "COMPLETED"
  <2>1. TypeInv /\ Course /\ step \in [Steps -> StepStatuses]
    BY <1>1, OverlapStays DEF SagaInv, TypeInv, TypeOK
  <2>2. PICK p \in Runners : UndoReadOnly(p) \/ UndoSucceeds(p)
    BY <1>1, <2>1 DEF Next, Run, vars, Create, Resume, ForceCompensate, RetryCompensation,
       BeginExecute, SkipCompleted, EnterStep, StepCommits, StepSucceeds, StepFails, Complete,
       BeginCompensate, SkipUncompleted, EnterUndo, UndoCommits, UndoFails, EndCompensate,
       Crash, NothingToCompensate, MarkFailed, Cleanup, NoSteps
  <2>3. runner[p].i = i /\ runner[p].pc \in Undoing
    BY <1>1, <2>1, <2>2 DEF UndoReadOnly, UndoSucceeds, At, Undoing
  <2> QED BY <1>1, <2>1, <2>3 DEF Course, RunnersAndRows
<1>2. SagaInv /\ [Next]_vars =>
        (~overlapped' => \A i \in Steps :
           step[i] # "COMPENSATED" /\ step'[i] = "COMPENSATED" =>
             \A j \in Steps : j > i => step[j] # "COMPLETED")
  BY <1>1
<1> QED BY InductiveInvariant, <1>2, PTL DEF Spec, UndoneInOrder

\* An outcome has nobody late to it unless runners overlapped, and nobody takes
\* it up again: what changes it is the manual verdict or retention.
THEOREM OutcomesAreFinal == Spec => SettledStaysSettled
<1>1. ASSUME SagaInv, [Next]_vars, saga.status \in {"COMPLETED", "COMPENSATED"},
             ~overlapped \/ \A p \in Runners : At(p, "idle")
      PROVE  saga'.status \in {saga.status, "FAILED", "none"} /\ UNCHANGED runner
  <2>1. TypeOK /\ \A p \in Runners : At(p, "idle")
    BY <1>1 DEF SagaInv, TypeInv, Course, RunnersAndStatus
  <2>2. ASSUME NEW p \in Runners, Run(p) PROVE FALSE
    BY <1>1, <2>1, <2>2 DEF Run, At, Create, Resume, ForceCompensate, RetryCompensation,
       BeginExecute, SkipCompleted, EnterStep, StepCommits, StepSucceeds, StepFails, Complete,
       BeginCompensate, SkipUncompleted, UndoReadOnly, EnterUndo, UndoCommits, UndoSucceeds,
       UndoFails, EndCompensate, Crash
  <2>3. CASE MarkFailed
    BY <2>1, <2>3, SagaTypes DEF MarkFailed, Statuses
  <2>4. CASE Cleanup
    BY <2>4 DEF Cleanup, NoSaga
  <2>5. CASE NothingToCompensate
    BY <1>1, <2>5 DEF NothingToCompensate
  <2> QED BY <1>1, <2>2, <2>3, <2>4, <2>5 DEF Next, vars
<1>2. SagaInv /\ [Next]_vars =>
        (/\ saga.status \in {"COMPLETED", "COMPENSATED"}
         /\ ~overlapped \/ \A p \in Runners : At(p, "idle")
         => /\ saga'.status \in {saga.status, "FAILED", "none"}
            /\ UNCHANGED runner)
  BY <1>1
<1> QED BY InductiveInvariant, <1>2, PTL DEF Spec, SettledStaysSettled

=============================================================================
