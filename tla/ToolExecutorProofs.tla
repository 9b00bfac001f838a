------------------------- MODULE ToolExecutorProofs -------------------------
(***************************************************************************)
(* The safety properties of ToolScheduler and ToolExecutor, and the        *)
(* executor's refinement of ToolBatch, for every number of calls and every *)
(* set of access declarations.                                             *)
(***************************************************************************)
EXTENDS ToolExecutor, TLAPS

(***************************************************************************)
(* The scheduler.  Its inductive invariant joins three of the properties   *)
(* TLC checks, and the fourth follows: mutual exclusion needs the order (a *)
(* task that starts must find no earlier conflicting task in the queue),   *)
(* and the order needs the partition of the tasks that SchedulerTypeOK     *)
(* states.                                                                 *)
(***************************************************************************)

SchedulerIInv == SchedulerTypeOK /\ ConflictsRunInOrder /\ QueuedTasksAreBlocked

\* ToolAccesses.conflict is symmetric: the scheduler may compare a task with
\* the active ones in either direction.
LEMMA ConflictSymmetric ==
  ASSUME NEW left, NEW right
  PROVE  Conflict(left, right) <=> Conflict(right, left)
BY DEF Conflict, ResourceAccessesConflict, FileAccessesOverlap

\* The tasks are the numbers up to Len(accesses), and adding one keeps the
\* accesses of the earlier ones.
LEMMA AppendKeepsAccesses ==
  ASSUME NEW acc \in Declarations, SchedulerTypeOK, accesses' = Append(accesses, acc)
  PROVE  /\ Len(accesses) \in Nat
         /\ accesses' \in Seq(Declarations)
         /\ Len(accesses)' = Len(accesses) + 1
         /\ Tasks' = Tasks \cup {Len(accesses) + 1}
         /\ Len(accesses) + 1 \notin Tasks
         /\ \A t \in Tasks : accesses'[t] = accesses[t]
         /\ accesses'[Len(accesses) + 1] = acc
<1>1. accesses \in Seq(Declarations) /\ Len(accesses) \in Nat
  BY DEF SchedulerTypeOK
<1>2. Len(accesses') = Len(accesses) + 1 /\ accesses' \in Seq(Declarations)
  BY <1>1
<1>3. \A t \in Tasks : accesses'[t] = accesses[t]
  BY <1>1 DEF Tasks
<1>4. accesses'[Len(accesses) + 1] = acc
  BY <1>1
<1>5. Tasks' = Tasks \cup {Len(accesses) + 1} /\ Len(accesses) + 1 \notin Tasks
  BY <1>1, <1>2 DEF Tasks
<1> QED
  BY <1>1, <1>2, <1>3, <1>4, <1>5

\* A new scheduler, with no task active or queued, satisfies the invariant.
LEMMA InitIInv == SchedulerInit => SchedulerIInv
BY DEF SchedulerInit, SchedulerIInv, SchedulerTypeOK, ConflictsRunInOrder, QueuedTasksAreBlocked, Tasks

\* ToolScheduler.add starts the task only if nothing unsettled conflicts with
\* it, and queues it behind the task that blocks it otherwise.
LEMMA AddIInv ==
  ASSUME SchedulerIInv, NEW acc \in Declarations, Add(acc)
  PROVE  SchedulerIInv'
<1>0. Len(accesses) + 1 \in Nat
  BY DEF SchedulerIInv, SchedulerTypeOK
<1>a. PICK t \in Nat : t = Len(accesses) + 1
  BY <1>0
<1>1. /\ Len(accesses) \in Nat
      /\ accesses' \in Seq(Declarations)
      /\ Tasks' = Tasks \cup {t}
      /\ t \notin Tasks
      /\ \A u \in Tasks : accesses'[u] = accesses[u]
      /\ accesses'[t] = acc
  BY <1>a, AppendKeepsAccesses DEF Add, SchedulerIInv
<1>2. \A u \in Tasks : u \in Nat /\ u < t
  BY <1>a, <1>1 DEF Tasks
<1>3. activeTasks \subseteq Tasks /\ queuedTasks \subseteq Tasks /\ settled \subseteq Tasks
  BY DEF SchedulerIInv, SchedulerTypeOK
<1>4. settled' = settled /\ \/ IsBlocked(acc) /\ queuedTasks' = queuedTasks \cup {t} /\ activeTasks' = activeTasks
                            \/ ~IsBlocked(acc) /\ activeTasks' = activeTasks \cup {t} /\ queuedTasks' = queuedTasks
  BY <1>a DEF Add
<1>5. \A u, v \in Tasks : Clash(u, v)' <=> Clash(u, v)
  BY <1>1 DEF Clash
<1>6. \A u \in Tasks : /\ Clash(t, u)' <=> Conflict(acc, accesses[u])
                       /\ Clash(u, t)' <=> Conflict(acc, accesses[u])
  BY <1>1, ConflictSymmetric DEF Clash
<1>7. SchedulerTypeOK'
  BY <1>1, <1>3, <1>4 DEF SchedulerIInv, SchedulerTypeOK
<1>8. ConflictsRunInOrder'
  <2> SUFFICES ASSUME NEW u \in Tasks', NEW v \in Tasks',
                      u < v, Clash(u, v)', v \notin queuedTasks'
               PROVE  u \in settled'
    BY DEF ConflictsRunInOrder
  <2>1. CASE v \in Tasks
    <3>1. u \in Tasks
      BY <1>1, <1>2, <2>1
    <3> QED
      BY <2>1, <3>1, <1>4, <1>5 DEF SchedulerIInv, ConflictsRunInOrder
  <2>2. CASE v = t
    <3>1. u \in Tasks
      BY <1>1, <1>2, <2>2
    <3>2. ~IsBlocked(acc)
      BY <1>4, <2>2
    <3>3. u \notin activeTasks \cup queuedTasks
      BY <3>1, <3>2, <2>2, <1>6 DEF IsBlocked
    <3> QED
      BY <3>1, <3>3, <1>4 DEF SchedulerIInv, SchedulerTypeOK
  <2> QED
    BY <1>1, <2>1, <2>2
<1>9. QueuedTasksAreBlocked'
  <2> SUFFICES ASSUME NEW v \in queuedTasks'
               PROVE  \E u \in activeTasks' \cup queuedTasks' : u < v /\ Clash(v, u)'
    BY DEF QueuedTasksAreBlocked
  <2>1. CASE v \in queuedTasks
    BY <2>1, <1>3, <1>4, <1>5 DEF SchedulerIInv, QueuedTasksAreBlocked
  <2>2. CASE v \notin queuedTasks
    <3>1. v = t /\ IsBlocked(acc)
      BY <2>2, <1>4
    <3>2. PICK u \in activeTasks \cup queuedTasks : Conflict(acc, accesses[u])
      BY <3>1 DEF IsBlocked
    <3> QED
      BY <3>1, <3>2, <1>2, <1>3, <1>4, <1>6
  <2> QED
    BY <2>1, <2>2
<1> QED
  BY <1>7, <1>8, <1>9 DEF SchedulerIInv

\* When a task settles, the rescan starts exactly the queued tasks that nothing
\* before them blocks any more: order, exclusion and progress all survive.
LEMMA FinishIInv ==
  ASSUME SchedulerIInv, NEW t \in activeTasks, Finish(t)
  PROVE  SchedulerIInv'
<1> DEFINE running == activeTasks \ {t}
           started == Startable(running)
<1>1. /\ settled' = settled \cup {t}
      /\ activeTasks' = running \cup started
      /\ queuedTasks' = queuedTasks \ started
      /\ accesses' = accesses
  BY DEF Finish
<1>2. Tasks' = Tasks /\ \A u, v : Clash(u, v)' <=> Clash(u, v)
  BY <1>1 DEF Tasks, Clash
<1>3. Tasks \subseteq Nat /\ activeTasks \subseteq Tasks /\ queuedTasks \subseteq Tasks /\ started \subseteq queuedTasks
  BY DEF SchedulerIInv, SchedulerTypeOK, Tasks, Startable
<1>4. SchedulerTypeOK'
  BY <1>1, <1>2, <1>3 DEF SchedulerIInv, SchedulerTypeOK
<1>5. ConflictsRunInOrder'
  <2> SUFFICES ASSUME NEW u \in Tasks, NEW v \in Tasks,
                      u < v, Clash(u, v), v \notin queuedTasks'
               PROVE  u \in settled'
    BY <1>2 DEF ConflictsRunInOrder
  <2>1. CASE v \notin queuedTasks
    BY <2>1, <1>1 DEF SchedulerIInv, ConflictsRunInOrder
  <2>2. CASE v \in queuedTasks
    <3>1. v \in started
      BY <2>2, <1>1
    <3>2. Clash(v, u)
      BY ConflictSymmetric DEF Clash
    <3>3. u \notin running \cup queuedTasks
      BY <3>1, <3>2, <1>3 DEF Startable, StillBlocked
    <3> QED
      BY <3>3, <1>1 DEF SchedulerIInv, SchedulerTypeOK
  <2> QED
    BY <2>1, <2>2
<1>6. QueuedTasksAreBlocked'
  <2> SUFFICES ASSUME NEW v \in queuedTasks'
               PROVE  \E u \in activeTasks' \cup queuedTasks' : u < v /\ Clash(v, u)
    BY <1>2 DEF QueuedTasksAreBlocked
  <2>1. v \in queuedTasks /\ StillBlocked(v, running)
    BY <1>1 DEF Startable
  <2>2. PICK u \in running \cup {q \in queuedTasks : q < v} : Clash(v, u)
    BY <2>1 DEF StillBlocked
  <2>3. u \in activeTasks' \cup queuedTasks'
    BY <2>2, <1>1, <1>3
  <2>4. u < v
    <3>1. CASE u \in queuedTasks
      BY <3>1, <2>2, <1>3 DEF SchedulerIInv, SchedulerTypeOK
    <3>2. CASE u \in running
      <4>1. u \in Tasks /\ v \in Tasks /\ u \in Nat /\ v \in Nat /\ u \notin queuedTasks /\ v \notin settled
        BY <3>2, <2>1, <1>3 DEF SchedulerIInv, SchedulerTypeOK
      <4>2. Clash(u, v) /\ Clash(v, u)
        BY <2>2, ConflictSymmetric DEF Clash
      <4>3. ~ (v < u)
        BY <4>1, <4>2 DEF SchedulerIInv, ConflictsRunInOrder
      <4>4. u # v
        BY <3>2, <2>1 DEF SchedulerIInv, SchedulerTypeOK
      <4> QED
        BY <4>1, <4>3, <4>4
    <3> QED
      BY <2>2, <3>1, <3>2
  <2> QED
    BY <2>2, <2>3, <2>4
<1> QED
  BY <1>4, <1>5, <1>6 DEF SchedulerIInv

\* Every step of the scheduler preserves the invariant.
LEMMA NextIInv == SchedulerIInv /\ [SchedulerNext]_schedulerVars => SchedulerIInv'
<1> SUFFICES ASSUME SchedulerIInv, [SchedulerNext]_schedulerVars
             PROVE  SchedulerIInv'
  OBVIOUS
<1>1. CASE \E acc \in Declarations : Add(acc)
  BY <1>1, AddIInv
<1>2. CASE \E t \in activeTasks : Finish(t)
  BY <1>2, FinishIInv
<1>3. CASE UNCHANGED schedulerVars
  BY <1>3 DEF schedulerVars, SchedulerIInv, SchedulerTypeOK, ConflictsRunInOrder, QueuedTasksAreBlocked, Tasks, Clash
<1> QED
  BY <1>1, <1>2, <1>3 DEF SchedulerNext

\* Two conflicting active tasks would contradict the order: the later one
\* started only once the earlier one had settled.
LEMMA IInvExcludesConflicts == SchedulerIInv => NoConflictingTasksActive
<1> SUFFICES ASSUME SchedulerIInv, NEW t \in activeTasks, NEW u \in activeTasks, t # u, Clash(t, u)
             PROVE  FALSE
  BY DEF NoConflictingTasksActive
<1>1. t \in Tasks /\ u \in Tasks /\ t \notin settled /\ u \notin settled
      /\ t \notin queuedTasks /\ u \notin queuedTasks
  BY DEF SchedulerIInv, SchedulerTypeOK
<1>2. Clash(u, t)
  BY ConflictSymmetric DEF Clash
<1>3. t < u \/ u < t
  BY <1>1 DEF Tasks
<1> QED
  BY <1>1, <1>2, <1>3 DEF SchedulerIInv, ConflictsRunInOrder

\* The inductive invariant holds of every execution of the scheduler.
THEOREM SchedulerInvariant == SchedulerSpec => []SchedulerIInv
BY InitIInv, NextIInv, PTL DEF SchedulerSpec

\* No task is lost or started twice, whatever the size of the batch.
THEOREM SchedulerTypeCorrect == SchedulerSpec => []SchedulerTypeOK
<1>1. SchedulerIInv => SchedulerTypeOK
  BY DEF SchedulerIInv
<1> QED
  BY <1>1, SchedulerInvariant, PTL

\* Two tool calls with conflicting accesses never run together.
THEOREM SchedulerExcludesConflicts == SchedulerSpec => []NoConflictingTasksActive
BY SchedulerInvariant, IInvExcludesConflicts, PTL

\* Conflicting tool calls run in the order in which they were issued.
THEOREM SchedulerKeepsOrder == SchedulerSpec => []ConflictsRunInOrder
<1>1. SchedulerIInv => ConflictsRunInOrder
  BY DEF SchedulerIInv
<1> QED
  BY <1>1, SchedulerInvariant, PTL

\* A queued tool call always waits for an unsettled conflicting one before it.
THEOREM SchedulerNeverIdles == SchedulerSpec => []QueuedTasksAreBlocked
<1>1. SchedulerIInv => QueuedTasksAreBlocked
  BY DEF SchedulerIInv
<1> QED
  BY <1>1, SchedulerInvariant, PTL

----------------------------------------------------------------------------
(***************************************************************************)
(* The executor.  The scheduler's invariant is reused: the executor moves  *)
(* the scheduler only by its own Add and Finish.                           *)
(***************************************************************************)

Executions == [accesses : Declarations, stops : BOOLEAN]
Outcomes == {"skipped", "preflight-rejected", "resolution-failed", "aborted",
             "synthetic", "vetoed", "run"}
PreparedTasks == [outcome : Outcomes, accesses : Declarations, stops : BOOLEAN]

ExecutorTypeOK ==
  /\ phase \in {"preparing", "adding", "batch", "closing", "done", "failed"}
  /\ stage \in {"resolve", "before", "will"}
  /\ current \in Executions
  /\ prepared \in Seq(PreparedTasks)
  /\ signal \in BOOLEAN

\* How far the tasks are, by phase.
PhaseProgress ==
  /\ phase = "preparing" => Len(prepared) < MaxTasks /\ accesses = << >>
  /\ phase = "adding" => Len(prepared) = MaxTasks /\ Len(accesses) < MaxTasks
  /\ phase \in {"batch", "closing", "done"} => Len(prepared) = MaxTasks /\ Len(accesses) = MaxTasks

\* Results pass through the stages in order.
ResultsFlow == yielded \subseteq finalized /\ finalized \subseteq timed /\ timed \subseteq settled

\* A tool that runs belongs to an active task, unless it was given up on.
ExecutingTasks ==
  /\ executing \subseteq executed /\ executed \subseteq Tasks
  /\ ~signal => executing \subseteq activeTasks

\* What follows a call that stopped the batch is skipped.
SkippedTail ==
  /\ \A t \in DOMAIN prepared, u \in DOMAIN prepared :
        (prepared[t].stops /\ t < u) => prepared[u].outcome = "skipped"
  /\ (phase = "preparing" /\ stage # "resolve") => ~StopBatch
  /\ executed \subseteq {u \in DOMAIN prepared : prepared[u].outcome = "run"}

ExecutorIInv ==
  /\ SchedulerIInv /\ ExecutorTypeOK /\ PhaseProgress /\ ResultsFlow
  /\ ExecutingTasks /\ SkippedTail /\ NoConflictingExecutions /\ NoToolOutlivesTheBatch

----------------------------------------------------------------------------
(* Steps that leave the scheduler alone.                                   *)

\* A step that leaves the scheduler's variables alone preserves its invariant.
LEMMA SchedulerUnchanged ==
  ASSUME SchedulerIInv, UNCHANGED schedulerVars
  PROVE  /\ SchedulerIInv'
         /\ Tasks' = Tasks
         /\ \A t, u : Clash(t, u)' <=> Clash(t, u)
BY DEF schedulerVars, SchedulerIInv, SchedulerTypeOK, ConflictsRunInOrder, QueuedTasksAreBlocked,
       Tasks, Clash

\* The execution of a call that never resolved is an execution like any other.
LEMMA NoExecutionTyped == NoExecution \in Executions
BY BatchAssumption DEF NoExecution, Executions

\* A batch starts with every call unprepared and nothing scheduled.
LEMMA ExecutorInit == Init => ExecutorIInv
<1> SUFFICES ASSUME Init
             PROVE  ExecutorIInv
  OBVIOUS
<1>1. SchedulerIInv
  BY InitIInv DEF Init
<1>a. << >> \in Seq(PreparedTasks)
  OBVIOUS
<1>2. ExecutorTypeOK
  BY <1>a, NoExecutionTyped DEF Init, ExecutorTypeOK
<1>3. PhaseProgress
  BY BatchAssumption, MaxTasksAssumption DEF Init, SchedulerInit, PhaseProgress
<1>4. ResultsFlow /\ ExecutingTasks /\ SkippedTail /\ NoConflictingExecutions /\ NoToolOutlivesTheBatch
  BY DEF Init, ResultsFlow, ExecutingTasks, SkippedTail, NoConflictingExecutions, NoToolOutlivesTheBatch
<1> QED
  BY <1>1, <1>2, <1>3, <1>4 DEF ExecutorIInv

\* A call is prepared.  While calls are being prepared nothing has run, and a
\* call prepared after one that stops the batch is skipped.
LEMMA PreparedIInv ==
  ASSUME ExecutorIInv, phase = "preparing",
         NEW outcome \in Outcomes, NEW acc \in Declarations, NEW stops \in BOOLEAN,
         StopBatch => outcome = "skipped",
         Prepared(outcome, acc, stops)
  PROVE  ExecutorIInv'
<1> DEFINE task == [outcome |-> outcome, accesses |-> acc, stops |-> stops]
<1>1. /\ prepared' = Append(prepared, task)
      /\ phase' = IF Len(prepared) + 1 = MaxTasks THEN "adding" ELSE "preparing"
      /\ stage' = "resolve" /\ current' = NoExecution
      /\ UNCHANGED <<schedulerVars, signal, executing, executed, timed, finalized, yielded>>
  BY DEF Prepared, toolVars, resultVars
<1>2. /\ prepared \in Seq(PreparedTasks) /\ task \in PreparedTasks
      /\ Len(prepared) \in Nat /\ Len(prepared) < MaxTasks
      /\ accesses = << >> /\ MaxTasks \in Nat
  BY MaxTasksAssumption DEF ExecutorIInv, ExecutorTypeOK, PhaseProgress, PreparedTasks, Outcomes
<1>3. /\ prepared' \in Seq(PreparedTasks)
      /\ Len(prepared') = Len(prepared) + 1
      /\ DOMAIN prepared = 1 .. Len(prepared) /\ DOMAIN prepared' = 1 .. Len(prepared) + 1
      /\ \A t \in DOMAIN prepared : prepared'[t] = prepared[t]
      /\ prepared'[Len(prepared) + 1] = task
  <2> HIDE DEF task
  <2> QED
    BY <1>1, <1>2
<1>4. SchedulerIInv' /\ Tasks' = Tasks
  BY <1>1, SchedulerUnchanged DEF ExecutorIInv
<1>5. Tasks = {} /\ executing = {} /\ executed = {}
  BY <1>2 DEF ExecutorIInv, ExecutingTasks, Tasks
<1>6. ExecutorTypeOK'
  BY <1>1, <1>3, BatchAssumption DEF ExecutorIInv, ExecutorTypeOK, NoExecution, Executions
<1>7. PhaseProgress'
  BY <1>1, <1>2, <1>3, BatchAssumption DEF PhaseProgress, schedulerVars
<1>8. ResultsFlow' /\ ExecutingTasks' /\ NoConflictingExecutions' /\ NoToolOutlivesTheBatch'
  BY <1>1, <1>4, <1>5
  DEF ExecutorIInv, ResultsFlow, ExecutingTasks, NoConflictingExecutions, NoToolOutlivesTheBatch, schedulerVars
<1>9. SkippedTail'
  <2>1. ASSUME NEW t \in DOMAIN prepared', NEW u \in DOMAIN prepared', prepared'[t].stops, t < u
        PROVE  prepared'[u].outcome = "skipped"
    <3>1. t \in DOMAIN prepared
      BY <2>1, <1>2, <1>3
    <3>2. CASE u \in DOMAIN prepared
      BY <2>1, <3>1, <3>2, <1>3 DEF ExecutorIInv, SkippedTail
    <3>3. CASE u = Len(prepared) + 1
      BY <2>1, <3>1, <3>3, <1>3 DEF StopBatch
    <3> QED
      BY <1>2, <1>3, <3>2, <3>3
  <2> QED
    BY <2>1, <1>1, <1>5 DEF SkippedTail
<1> QED
  BY <1>4, <1>6, <1>7, <1>8, <1>9 DEF ExecutorIInv

\* A step that moves only the phase, the stage and the results: what is left
\* to show is that they move in order.
LEMMA QuietIInv ==
  ASSUME ExecutorIInv,
         UNCHANGED <<schedulerVars, prepared, signal, executing, executed>>,
         phase' \in {"preparing", "adding", "batch", "closing", "done", "failed"},
         stage' \in {"resolve", "before", "will"},
         current' \in Executions,
         PhaseProgress', ResultsFlow', NoToolOutlivesTheBatch',
         (phase' = "preparing" /\ stage' # "resolve") => ~StopBatch
  PROVE  ExecutorIInv'
<1>1. SchedulerIInv' /\ Tasks' = Tasks /\ \A t, u : Clash(t, u)' <=> Clash(t, u)
  BY SchedulerUnchanged DEF ExecutorIInv
<1>2. ExecutorTypeOK'
  BY DEF ExecutorIInv, ExecutorTypeOK
<1>3. ExecutingTasks'
  BY <1>1 DEF ExecutorIInv, ExecutingTasks, schedulerVars
<1>4. SkippedTail'
  BY DEF ExecutorIInv, SkippedTail, StopBatch
<1>5. NoConflictingExecutions'
  BY <1>1 DEF ExecutorIInv, NoConflictingExecutions
<1> QED
  BY <1>1, <1>2, <1>3, <1>4, <1>5 DEF ExecutorIInv

\* Every step of the preparation loop (dispatch, resolution, before-execute
\* hooks, skipping) preserves the invariant.
LEMMA PrepareStepIInv ==
  ASSUME ExecutorIInv, PrepareStep
  PROVE  ExecutorIInv'
<1>0. {} \in Declarations /\ TRUE \in BOOLEAN /\ FALSE \in BOOLEAN
  BY BatchAssumption
<1>1. CASE PrepareSkipped
  BY <1>0, <1>1, PreparedIInv DEF PrepareSkipped, Preparing, Outcomes
<1>2. CASE PreparePreflightRejected \/ PrepareUnresolved
  BY <1>0, <1>2, PreparedIInv DEF PreparePreflightRejected, PrepareUnresolved, Preparing, Outcomes
<1>3. CASE PrepareAborted
  BY <1>0, <1>3, PreparedIInv DEF PrepareAborted, Preparing, Outcomes
<1>4. ASSUME NEW stops \in BOOLEAN, PrepareSynthetic(stops)
      PROVE  ExecutorIInv'
  BY <1>0, <1>4, PreparedIInv DEF PrepareSynthetic, Preparing, Outcomes
<1>5. ASSUME NEW stops \in BOOLEAN, PrepareVetoed(stops)
      PROVE  ExecutorIInv'
  <2>1. phase = "preparing" /\ ~StopBatch
    BY <1>5 DEF PrepareVetoed, Preparing, ExecutorIInv, SkippedTail
  <2> QED
    BY <1>0, <1>5, <2>1, PreparedIInv DEF PrepareVetoed, Outcomes
<1>6. ASSUME NEW acc \in Declarations, NEW stops \in BOOLEAN, PrepareResolved(acc, stops)
      PROVE  ExecutorIInv'
  <2>1. current' \in Executions
    BY <1>6 DEF PrepareResolved, Executions
  <2>2. /\ phase' = "preparing" /\ phase = "preparing" /\ stage' = "before" /\ ~StopBatch
        /\ UNCHANGED <<schedulerVars, prepared, signal, executing, executed, timed, finalized, yielded>>
    BY <1>6 DEF PrepareResolved, Preparing, toolVars, resultVars
  <2>3. PhaseProgress' /\ ResultsFlow' /\ NoToolOutlivesTheBatch'
    BY <2>2 DEF ExecutorIInv, PhaseProgress, ResultsFlow, NoToolOutlivesTheBatch, schedulerVars
  <2> QED
    BY <2>1, <2>2, <2>3, QuietIInv
<1>7. CASE PrepareAllowed
  <2>1. current' \in Executions
    BY <1>7 DEF PrepareAllowed, ExecutorIInv, ExecutorTypeOK
  <2>2. /\ phase' = "preparing" /\ phase = "preparing" /\ stage' = "will" /\ ~StopBatch
        /\ UNCHANGED <<schedulerVars, prepared, signal, executing, executed, timed, finalized, yielded>>
    BY <1>7 DEF PrepareAllowed, Preparing, toolVars, resultVars, ExecutorIInv, SkippedTail
  <2>3. PhaseProgress' /\ ResultsFlow' /\ NoToolOutlivesTheBatch'
    BY <2>2 DEF ExecutorIInv, PhaseProgress, ResultsFlow, NoToolOutlivesTheBatch, schedulerVars
  <2> QED
    BY <2>1, <2>2, <2>3, QuietIInv
<1>8. CASE PrepareDone
  <2>1. phase = "preparing" /\ ~StopBatch
    BY <1>8 DEF PrepareDone, Preparing, ExecutorIInv, SkippedTail
  <2>2. current.accesses \in Declarations /\ current.stops \in BOOLEAN
    BY DEF ExecutorIInv, ExecutorTypeOK, Executions
  <2> QED
    BY <1>8, <2>1, <2>2, PreparedIInv DEF PrepareDone, Outcomes
<1>9. CASE PrepareThrows
  <2>1. /\ phase = "preparing" /\ phase' = "failed"
        /\ UNCHANGED <<schedulerVars, stage, current, prepared, signal, executing, executed,
                       timed, finalized, yielded>>
    BY <1>9 DEF PrepareThrows, prepareVars, toolVars, resultVars
  <2>2. executing = {}
    BY <2>1 DEF ExecutorIInv, ExecutingTasks, PhaseProgress, Tasks
  <2>3. stage' \in {"resolve", "before", "will"} /\ current' \in Executions
    BY <2>1 DEF ExecutorIInv, ExecutorTypeOK
  <2>4. PhaseProgress' /\ ResultsFlow' /\ NoToolOutlivesTheBatch'
    BY <2>1, <2>2 DEF ExecutorIInv, PhaseProgress, ResultsFlow, NoToolOutlivesTheBatch, schedulerVars
  <2> QED
    BY <2>1, <2>3, <2>4, QuietIInv
<1> QED
  BY <1>1, <1>2, <1>3, <1>4, <1>5, <1>6, <1>7, <1>8, <1>9 DEF PrepareStep

----------------------------------------------------------------------------
(* Results.                                                                *)

\* Taking a result from the scheduler, finalizing it and yielding it moves it
\* forward through the pipeline once.
LEMMA ResultStepIInv ==
  ASSUME ExecutorIInv, NEW t \in Calls,
         TakeTimed(t) \/ FinalizeDone(t) \/ FinalizeFails(t) \/ YieldResult(t)
  PROVE  ExecutorIInv'
<1>1. /\ phase \in {"batch", "closing"} /\ phase' \in {"batch", "closing"}
      /\ UNCHANGED <<schedulerVars, stage, current, prepared, signal, executing, executed>>
  BY DEF TakeTimed, FinalizeDone, FinalizeFails, YieldResult, prepareVars, toolVars
<1>2. ResultsFlow'
  BY <1>1 DEF TakeTimed, FinalizeDone, FinalizeFails, YieldResult, ExecutorIInv, ResultsFlow, schedulerVars
<1>3. stage' \in {"resolve", "before", "will"} /\ current' \in Executions
  BY <1>1 DEF ExecutorIInv, ExecutorTypeOK
<1>4. PhaseProgress' /\ NoToolOutlivesTheBatch'
  BY <1>1 DEF ExecutorIInv, PhaseProgress, NoToolOutlivesTheBatch, schedulerVars
<1> QED
  BY <1>1, <1>2, <1>3, <1>4, QuietIInv

\* When the generator is through, or its `finally` blocks are, every task has
\* settled: no tool runs unless it was given up on.
LEMMA BatchEndIInv ==
  ASSUME ExecutorIInv, BatchDone \/ BatchThrows
  PROVE  ExecutorIInv'
<1>1. /\ phase \in {"batch", "closing"} /\ phase' \in {"done", "failed"}
      /\ phase' = "done" => phase = "batch"
      /\ settled = Calls \/ timed = Calls
      /\ UNCHANGED <<schedulerVars, stage, current, prepared, signal, executing, executed,
                     timed, finalized, yielded>>
  BY DEF BatchDone, BatchThrows, Through, CleanedUp, prepareVars, toolVars, resultVars
<1>2. Tasks = Calls
  BY <1>1 DEF ExecutorIInv, PhaseProgress, Tasks, Calls
<1>3. activeTasks = {}
  BY <1>1, <1>2 DEF ExecutorIInv, ResultsFlow, SchedulerIInv, SchedulerTypeOK
<1>4. NoToolOutlivesTheBatch'
  BY <1>1, <1>3 DEF ExecutorIInv, ExecutingTasks, NoToolOutlivesTheBatch
<1>5. stage' \in {"resolve", "before", "will"} /\ current' \in Executions
  BY <1>1 DEF ExecutorIInv, ExecutorTypeOK
<1>6. PhaseProgress' /\ ResultsFlow'
  BY <1>1 DEF ExecutorIInv, PhaseProgress, ResultsFlow, schedulerVars
<1> QED
  BY <1>1, <1>4, <1>5, <1>6, QuietIInv
----------------------------------------------------------------------------
(* Tools and the scheduler.                                                *)

\* A tool returns, or the signal is aborted: fewer tools run, and the claims
\* that an abort lifts are not needed any more.
LEMMA EnvironmentIInv ==
  ASSUME ExecutorIInv, Abort \/ \E t \in Calls : ToolReturns(t)
  PROVE  ExecutorIInv'
<1>1. /\ UNCHANGED <<schedulerVars, phase, stage, current, prepared, executed, timed, finalized, yielded>>
      /\ executing' \subseteq executing
      /\ signal' \in BOOLEAN /\ (signal => signal')
  BY DEF Abort, ToolReturns, prepareVars, toolVars, resultVars, ExecutorIInv, ExecutorTypeOK
<1>2. SchedulerIInv' /\ Tasks' = Tasks /\ \A t, u : Clash(t, u)' <=> Clash(t, u)
  BY <1>1, SchedulerUnchanged DEF ExecutorIInv
<1>3. ExecutorTypeOK' /\ PhaseProgress' /\ ResultsFlow'
  BY <1>1 DEF ExecutorIInv, ExecutorTypeOK, PhaseProgress, ResultsFlow, schedulerVars
<1>4. ExecutingTasks' /\ NoToolOutlivesTheBatch'
  BY <1>1, <1>2 DEF ExecutorIInv, ExecutingTasks, NoToolOutlivesTheBatch, schedulerVars
<1>5. NoConflictingExecutions'
  BY <1>1, <1>2 DEF ExecutorIInv, NoConflictingExecutions
<1>6. SkippedTail'
  BY <1>1 DEF ExecutorIInv, SkippedTail, StopBatch
<1> QED
  BY <1>2, <1>3, <1>4, <1>5, <1>6 DEF ExecutorIInv

\* The heart of the argument.  The scheduler moved: without an abort the
\* running tools belong to active tasks, which do not conflict; after an
\* abort no tool is called any more.
LEMMA LaunchIInv ==
  ASSUME ExecutorIInv, SchedulerIInv', Launch,
         phase \in {"adding", "batch", "closing"},
         UNCHANGED <<stage, current, prepared, signal, timed, finalized, yielded>>,
         phase' \in {"adding", "batch", "closing"}, PhaseProgress',
         Tasks \subseteq Tasks', settled \subseteq settled',
         \A t, u \in Tasks : Clash(t, u)' <=> Clash(t, u),
         activeTasks' \subseteq DOMAIN prepared,
         ~signal => executing \subseteq activeTasks'
  PROVE  ExecutorIInv'
<1> DEFINE ts == Launched(activeTasks' \ activeTasks)
<1>1. executing' = executing \cup ts /\ executed' = executed \cup ts
  BY DEF Launch
<1>2. /\ ts \subseteq activeTasks' /\ (signal => ts = {})
      /\ \A t \in ts : prepared[t].outcome = "run"
  BY DEF Launched
<1>3. activeTasks' \subseteq Tasks'
  BY DEF SchedulerIInv, SchedulerTypeOK
<1> HIDE DEF ts
<1>4. ExecutingTasks'
  BY <1>1, <1>2, <1>3 DEF ExecutorIInv, ExecutingTasks
<1>5. NoConflictingExecutions'
  <2>1. CASE signal
    BY <2>1, <1>1, <1>2 DEF ExecutorIInv, ExecutingTasks, NoConflictingExecutions
  <2>2. CASE ~signal
    <3>1. executing' \subseteq activeTasks'
      BY <2>2, <1>1, <1>2
    <3>2. NoConflictingTasksActive'
      BY IInvExcludesConflicts, PTL
    <3> QED
      BY <3>1, <3>2 DEF NoConflictingExecutions, NoConflictingTasksActive
  <2> QED
    BY <2>1, <2>2
<1>6. SkippedTail'
  BY <1>1, <1>2 DEF ExecutorIInv, SkippedTail, StopBatch
<1>7. ExecutorTypeOK' /\ ResultsFlow' /\ NoToolOutlivesTheBatch'
  BY DEF ExecutorIInv, ExecutorTypeOK, ResultsFlow, NoToolOutlivesTheBatch
<1> QED
  BY <1>4, <1>5, <1>6, <1>7 DEF ExecutorIInv

\* executeBatch hands the prepared calls to the scheduler in order; a tool that
\* the scheduler starts at once conflicts with no running one.
LEMMA AddTaskIInv ==
  ASSUME ExecutorIInv, AddTask
  PROVE  ExecutorIInv'
<1> DEFINE n == Len(accesses) + 1
           acc == prepared[n].accesses
<1>1. /\ phase = "adding" /\ Add(acc) /\ Launch
      /\ phase' = IF n = MaxTasks THEN "batch" ELSE "adding"
      /\ UNCHANGED <<stage, current, prepared, signal, timed, finalized, yielded>>
  BY DEF AddTask, prepareVars, resultVars
<1>2. /\ Len(accesses) \in Nat /\ Len(prepared) = MaxTasks /\ Len(accesses) < MaxTasks
      /\ prepared \in Seq(PreparedTasks) /\ MaxTasks \in Nat /\ SchedulerTypeOK
  BY <1>1, MaxTasksAssumption
  DEF ExecutorIInv, PhaseProgress, ExecutorTypeOK, SchedulerIInv, SchedulerTypeOK
<1>3. n \in DOMAIN prepared /\ acc \in Declarations /\ DOMAIN prepared = 1 .. MaxTasks
  <2>1. DOMAIN prepared = 1 .. MaxTasks /\ n \in 1 .. MaxTasks
    BY <1>2
  <2>2. prepared[n] \in PreparedTasks
    BY <1>2, <2>1
  <2> QED
    BY <2>1, <2>2 DEF PreparedTasks
<1> HIDE DEF acc
<1>4. SchedulerIInv'
  BY <1>1, <1>3, AddIInv DEF ExecutorIInv
<1>5. accesses' = Append(accesses, acc)
  BY <1>1 DEF Add
<1>6. /\ Len(accesses)' = n /\ Tasks' = Tasks \cup {n}
      /\ \A t \in Tasks : accesses'[t] = accesses[t]
  BY <1>2, <1>3, <1>5, AppendKeepsAccesses
<1>7. \A t, u \in Tasks : Clash(t, u)' <=> Clash(t, u)
  BY <1>6 DEF Clash
<1>8. settled' = settled /\ activeTasks \subseteq activeTasks'
  BY <1>1 DEF Add
<1>9. activeTasks' \subseteq DOMAIN prepared
  <2>1. Tasks \cup {n} \subseteq 1 .. MaxTasks
    BY <1>2 DEF Tasks
  <2>2. activeTasks' \subseteq Tasks'
    BY <1>4 DEF SchedulerIInv, SchedulerTypeOK
  <2> QED
    BY <2>1, <2>2, <1>3, <1>6
<1>10. PhaseProgress'
  BY <1>1, <1>2, <1>6 DEF PhaseProgress
<1>11. ~signal => executing \subseteq activeTasks'
  BY <1>8 DEF ExecutorIInv, ExecutingTasks
<1> QED
  BY <1>1, <1>4, <1>6, <1>7, <1>8, <1>9, <1>10, <1>11, LaunchIInv

\* A task settles, by its tool's result or by the abort grace, and the tools of
\* the tasks which that releases are launched.
LEMMA TaskSettlesIInv ==
  ASSUME ExecutorIInv, NEW t \in Calls, TaskSettles(t)
  PROVE  ExecutorIInv'
<1>1. /\ phase \in {"batch", "closing"} /\ phase' = phase
      /\ HasResult(t) /\ Finish(t) /\ Launch
      /\ UNCHANGED <<stage, current, prepared, signal, timed, finalized, yielded>>
  BY DEF TaskSettles, prepareVars, resultVars
<1>2. t \in activeTasks /\ accesses' = accesses /\ settled' = settled \cup {t}
      /\ activeTasks \ {t} \subseteq activeTasks'
  BY <1>1 DEF Finish
<1>3. SchedulerIInv'
  BY <1>1, <1>2, FinishIInv DEF ExecutorIInv
<1>4. Tasks' = Tasks /\ \A u, v : Clash(u, v)' <=> Clash(u, v)
  BY <1>2 DEF Tasks, Clash
<1>5. PhaseProgress'
  BY <1>1, <1>2 DEF ExecutorIInv, PhaseProgress
<1>6. activeTasks' \subseteq DOMAIN prepared
  <2>1. activeTasks' \subseteq Tasks'
    BY <1>3 DEF SchedulerIInv, SchedulerTypeOK
  <2>2. Tasks = 1 .. MaxTasks /\ DOMAIN prepared = 1 .. MaxTasks
    BY <1>1 DEF ExecutorIInv, ExecutorTypeOK, PhaseProgress, Tasks
  <2> QED
    BY <2>1, <2>2, <1>4
<1>7. ~signal => executing \subseteq activeTasks'
  BY <1>1, <1>2 DEF ExecutorIInv, ExecutingTasks, HasResult
<1> QED
  BY <1>1, <1>2, <1>3, <1>4, <1>5, <1>6, <1>7, LaunchIInv
----------------------------------------------------------------------------
\* Every step of the executor preserves the invariant.
LEMMA ExecutorStep == ExecutorIInv /\ [Next]_vars => ExecutorIInv'
<1> SUFFICES ASSUME ExecutorIInv, [Next]_vars
             PROVE  ExecutorIInv'
  OBVIOUS
<1>1. CASE PrepareStep
  BY <1>1, PrepareStepIInv
<1>2. CASE BatchStep
  BY <1>2, AddTaskIInv, TaskSettlesIInv, ResultStepIInv, BatchEndIInv DEF BatchStep
<1>3. CASE \E t \in Calls : FinalizeFails(t) \/ ToolReturns(t)
  BY <1>3, ResultStepIInv, EnvironmentIInv
<1>4. CASE Abort
  BY <1>4, EnvironmentIInv
<1>5. CASE UNCHANGED vars
  <2>1. UNCHANGED <<schedulerVars, phase, stage, current, prepared, signal, executing, executed,
                    timed, finalized, yielded>>
    BY <1>5 DEF vars, prepareVars, toolVars, resultVars
  <2>2. PhaseProgress' /\ ResultsFlow' /\ NoToolOutlivesTheBatch'
    BY <2>1 DEF ExecutorIInv, PhaseProgress, ResultsFlow, NoToolOutlivesTheBatch, schedulerVars
  <2>3. /\ phase' \in {"preparing", "adding", "batch", "closing", "done", "failed"}
        /\ stage' \in {"resolve", "before", "will"} /\ current' \in Executions
        /\ (phase' = "preparing" /\ stage' # "resolve") => ~StopBatch
    BY <2>1 DEF ExecutorIInv, ExecutorTypeOK, SkippedTail
  <2> QED
    BY <2>1, <2>2, <2>3, QuietIInv
<1> QED
  BY <1>1, <1>2, <1>3, <1>4, <1>5 DEF Next

\* The inductive invariant holds throughout every execution of a batch.
THEOREM ExecutorInvariant == Spec => []ExecutorIInv
BY ExecutorInit, ExecutorStep, PTL DEF Spec

\* Tools with conflicting accesses never execute together, even when the
\* abort grace gives up on a tool that keeps running.
THEOREM ExecutorExcludesConflicts == Spec => []NoConflictingExecutions
<1>1. ExecutorIInv => NoConflictingExecutions
  BY DEF ExecutorIInv
<1> QED
  BY <1>1, ExecutorInvariant, PTL

\* Calls after one that stopped the batch are never executed.
THEOREM ExecutorSkipsStopped == Spec => []StoppedCallsNeverRun
<1>1. ExecutorIInv => StoppedCallsNeverRun
  <2> SUFFICES ASSUME ExecutorIInv, NEW t \in DOMAIN prepared, NEW u \in executed, prepared[t].stops
               PROVE  u <= t
    BY DEF StoppedCallsNeverRun
  <2>1. u \in DOMAIN prepared /\ prepared[u].outcome = "run"
    BY DEF ExecutorIInv, SkippedTail
  <2>2. ~ (t < u)
    BY <2>1 DEF ExecutorIInv, SkippedTail
  <2>3. t \in Nat /\ u \in Nat
    BY <2>1 DEF ExecutorIInv, ExecutorTypeOK
  <2> QED
    BY <2>2, <2>3
<1> QED
  BY <1>1, ExecutorInvariant, PTL

\* A batch that is over leaves no tool running, unless it was aborted.
THEOREM ExecutorCleansUp == Spec => []NoToolOutlivesTheBatch
<1>1. ExecutorIInv => NoToolOutlivesTheBatch
  BY DEF ExecutorIInv
<1> QED
  BY <1>1, ExecutorInvariant, PTL

----------------------------------------------------------------------------
(* Refinement.                                                             *)

\* The initial states of the executor are initial states of ToolBatch.
LEMMA ExecutorInitRefines == Init => Batch!Init
BY DEF Init, Batch!Init

\* Every step of the executor is a step of ToolBatch or leaves the consumer's
\* view unchanged.
LEMMA ExecutorStepRefines ==
  ExecutorIInv /\ [Next]_vars => [Batch!Next]_(Batch!batchVars)
<1> SUFFICES ASSUME ExecutorIInv, [Next]_vars
             PROVE  Batch!Next \/ UNCHANGED Batch!batchVars
  OBVIOUS
<1> USE DEF Batch!batchVars
<1>1. CASE PrepareStep
  <2>1. CASE PrepareThrows
    BY <2>1 DEF PrepareThrows, resultVars, Batch!Next, Batch!Fail
  <2>2. CASE ~PrepareThrows
    <3>1. phase = "preparing"
      BY <1>1, <2>2 DEF PrepareStep, PrepareSkipped, PreparePreflightRejected, PrepareUnresolved,
         PrepareAborted, PrepareSynthetic, PrepareVetoed, PrepareResolved, PrepareAllowed,
         PrepareDone, Preparing
    <3>2. ASSUME NEW outcome, NEW acc, NEW stops, Prepared(outcome, acc, stops)
          PROVE  phase' \in {"adding", "preparing"} /\ yielded' = yielded
      BY <3>2 DEF Prepared, resultVars
    <3>3. ASSUME NEW acc, NEW stops, PrepareResolved(acc, stops) \/ PrepareAllowed
          PROVE  phase' = phase /\ yielded' = yielded
      BY <3>3 DEF PrepareResolved, PrepareAllowed, resultVars
    <3>4. phase' \in {"adding", "preparing"} /\ yielded' = yielded
      BY <1>1, <2>2, <3>1, <3>2, <3>3 DEF PrepareStep, PrepareSkipped, PreparePreflightRejected,
         PrepareUnresolved, PrepareAborted, PrepareSynthetic, PrepareVetoed, PrepareDone
    <3> QED
      BY <3>1, <3>4
  <2> QED
    BY <2>1, <2>2
<1>2. CASE BatchStep
  <2>1. CASE AddTask
    BY <2>1 DEF AddTask, resultVars
  <2>2. ASSUME NEW t \in Calls, TaskSettles(t) \/ TakeTimed(t) \/ FinalizeDone(t)
        PROVE  UNCHANGED Batch!batchVars
    BY <2>2 DEF TaskSettles, TakeTimed, FinalizeDone, resultVars
  <2>3. ASSUME NEW t \in Calls, YieldResult(t)
        PROVE  Batch!Next
    <3>1. Batch!Yield(t)
      BY <2>3 DEF YieldResult, Batch!Yield
    <3> QED
      BY <3>1 DEF Batch!Next
  <2>4. CASE BatchDone
    BY <2>4 DEF BatchDone, Through, resultVars, Batch!Next, Batch!Finish
  <2>5. CASE BatchThrows
    BY <2>5 DEF BatchThrows, resultVars, Batch!Next, Batch!Fail
  <2> QED
    BY <1>2, <2>1, <2>2, <2>3, <2>4, <2>5 DEF BatchStep
<1>3. CASE \E t \in Calls : FinalizeFails(t) \/ ToolReturns(t)
  BY <1>3 DEF FinalizeFails, ToolReturns, resultVars
<1>4. CASE Abort
  BY <1>4 DEF Abort, resultVars
<1>5. CASE UNCHANGED vars
  BY <1>5 DEF vars, resultVars
<1> QED
  BY <1>1, <1>2, <1>3, <1>4, <1>5 DEF Next

\* The executor keeps the promise of ToolBatch to whoever iterates over it.
THEOREM ExecutorImplementsBatch == Spec => BatchSpec
BY ExecutorInitRefines, ExecutorStepRefines, ExecutorInvariant, PTL DEF Spec, BatchSpec, Batch!Spec
=============================================================================
