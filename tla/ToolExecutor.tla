--------------------------- MODULE ToolExecutor ---------------------------
(***************************************************************************)
(* AgentToolExecutorService.execute                                        *)
(* (agent/toolExecutor/toolExecutorService.ts): the async generator that   *)
(* takes the tool calls of one model response, prepares them one after the *)
(* other (preflight, resolution, veto and will-execute hooks), runs them   *)
(* under the ToolScheduler and yields one result per call.                 *)
(*                                                                         *)
(* Calls are numbered in the order of the response.  Between two awaits    *)
(* anything else may happen; in particular the signal may be aborted.      *)
(***************************************************************************)
EXTENDS ToolScheduler, SequencesExt

\* ToolAccesses.none() is what a task with a ready result declares; an empty
\* batch returns at once.
ASSUME BatchAssumption == {} \in Declarations /\ MaxTasks # 0

VARIABLES phase,       \* "preparing", "adding", "batch", "closing", "done", "failed"
          stage,       \* the await at which the call being prepared stands
          current,     \* the resolved execution of that call
          prepared,    \* the prepared tasks
          signal,      \* options.signal.aborted
          executing,   \* calls whose tool was called and has not returned
          executed,    \* calls whose tool was ever called
          timed,       \* results taken from executeBatch
          finalized,   \* results for which finalizeTimedResult is through
          yielded      \* results handed to the consumer

prepareVars == <<stage, current, prepared>>
toolVars == <<executing, executed>>
resultVars == <<timed, finalized, yielded>>
vars == <<schedulerVars, phase, prepareVars, signal, toolVars, resultVars>>

Calls == 1 .. MaxTasks      \* the calls of the batch

Batch == INSTANCE ToolBatch
           WITH ended <- IF phase \in {"done", "failed"} THEN phase ELSE "no"

NoExecution == [accesses |-> {}, stops |-> FALSE]

Init ==
  /\ SchedulerInit
  /\ phase = "preparing"
  /\ stage = "resolve" /\ current = NoExecution /\ prepared = << >>
  /\ signal = FALSE
  /\ executing = {} /\ executed = {}
  /\ timed = {} /\ finalized = {} /\ yielded = {}

----------------------------------------------------------------------------
(* Preparation: `for (const call of preflighted)`.                         *)

\* Mutant: only the call next to the one that stopped the batch is skipped.
StopNextOnly == prepared # << >> /\ Last(prepared).stops

\* stopBatch
StopBatch == \E i \in DOMAIN prepared : prepared[i].stops

\* The call is prepared and the loop moves on; executeBatch follows the last.
Prepared(outcome, acc, stops) ==
  /\ prepared' = Append(prepared, [outcome |-> outcome, accesses |-> acc, stops |-> stops])
  /\ phase' = IF Len(prepared) + 1 = MaxTasks THEN "adding" ELSE "preparing"
  /\ stage' = "resolve"
  /\ current' = NoExecution
  /\ UNCHANGED <<schedulerVars, signal, toolVars, resultVars>>

Preparing(at) == phase = "preparing" /\ stage = at

\* prepareSkippedToolCall
PrepareSkipped == Preparing("resolve") /\ StopBatch /\ Prepared("skipped", {}, FALSE)

\* preflightToolCall rejected the call (no such tool, denied, bad arguments).
PreparePreflightRejected ==
  Preparing("resolve") /\ ~StopBatch /\ Prepared("preflight-rejected", {}, FALSE)

\* resolveExecution throws.
PrepareUnresolved == Preparing("resolve") /\ ~StopBatch /\ Prepared("resolution-failed", {}, FALSE)

\* resolveExecution returns after the signal was aborted.
PrepareAborted == Preparing("resolve") /\ ~StopBatch /\ signal /\ Prepared("aborted", {}, FALSE)

\* It returns an error result in place of an execution; a result that stops
\* the turn stops the batch.
PrepareSynthetic(stops) ==
  Preparing("resolve") /\ ~StopBatch /\ ~signal /\ Prepared("synthetic", {}, stops)

\* It returns an execution: the before-execute hooks are asked.
PrepareResolved(acc, stops) ==
  /\ Preparing("resolve") /\ ~StopBatch /\ ~signal
  /\ stage' = "before"
  /\ current' = [accesses |-> acc, stops |-> stops]
  /\ UNCHANGED <<schedulerVars, phase, prepared, signal, toolVars, resultVars>>

PrepareVetoed(stops) == Preparing("before") /\ Prepared("vetoed", {}, stops)

PrepareAllowed ==
  /\ Preparing("before")
  /\ stage' = "will"
  /\ UNCHANGED <<schedulerVars, phase, current, prepared, signal, toolVars, resultVars>>

\* The will-execute hooks are through (or the signal is aborted).
PrepareDone == Preparing("will") /\ Prepared("run", current.accesses, current.stops)

\* A before-execute hook or an onToolCall listener throws: so does the
\* generator, before anything ran.
PrepareThrows ==
  /\ phase = "preparing"
  /\ phase' = "failed"
  /\ UNCHANGED <<schedulerVars, prepareVars, signal, toolVars, resultVars>>

----------------------------------------------------------------------------
(* Execution: executeBatch and runSingleExecution.                         *)

\* Mutant: a task that starts after the abort is executed all the same.
LaunchedRegardless(ts) == {t \in ts : prepared[t].outcome = "run"}

\* Of the tasks the scheduler starts, those whose tool is called: a resolved
\* task has its result, and runSingleExecution checks the signal first.
Launched(ts) == {t \in ts : prepared[t].outcome = "run" /\ ~signal}

Launch ==
  LET ts == Launched(activeTasks' \ activeTasks) IN
  /\ executing' = executing \cup ts
  /\ executed' = executed \cup ts

\* scheduler.add for each task; the loop does not await.
AddTask ==
  /\ phase = "adding"
  /\ Add(prepared[Len(accesses) + 1].accesses)
  /\ Launch
  /\ phase' = IF Len(accesses) + 1 = MaxTasks THEN "batch" ELSE "adding"
  /\ UNCHANGED <<prepareVars, signal, resultVars>>

\* The tool's own promise settles, even if nobody waits for it any more.
ToolReturns(t) ==
  /\ t \in executing
  /\ executing' = executing \ {t}
  /\ UNCHANGED <<schedulerVars, phase, prepareVars, signal, executed, resultVars>>

\* Mutant: the tool's promise is not raced with the abort grace.
HasResultIfReturned(t) == t \notin executing

\* raceWithAbortGrace: the tool returned, or the grace period after an abort
\* is over.
HasResult(t) == t \notin executing \/ signal

\* The task's promise settles and the scheduler goes on.
TaskSettles(t) ==
  /\ phase \in {"batch", "closing"}
  /\ HasResult(t)
  /\ Finish(t)
  /\ Launch
  /\ UNCHANGED <<phase, prepareVars, signal, resultVars>>

----------------------------------------------------------------------------
(* Results: the loop over timedResults and finalizations.                  *)

\* A `timed` event: its finalization begins.
TakeTimed(t) ==
  /\ phase = "batch" /\ t \in settled \ timed
  /\ timed' = timed \cup {t}
  /\ UNCHANGED <<schedulerVars, phase, prepareVars, signal, toolVars, finalized, yielded>>

\* The did-execute hooks have run or thrown, the result was truncated and its
\* event dispatched.
FinalizeDone(t) ==
  /\ phase \in {"batch", "closing"} /\ t \in timed \ finalized
  /\ finalized' = finalized \cup {t}
  /\ UNCHANGED <<schedulerVars, phase, prepareVars, signal, toolVars, timed, yielded>>

\* The finalization rejects: the generator will throw, after its `finally`.
FinalizeFails(t) ==
  /\ phase = "batch" /\ t \in timed \ finalized
  /\ phase' = "closing"
  /\ finalized' = finalized \cup {t}
  /\ UNCHANGED <<schedulerVars, prepareVars, signal, toolVars, timed, yielded>>

\* A `finalized` event: the result is yielded.
YieldResult(t) ==
  /\ phase = "batch" /\ t \in finalized \ yielded
  /\ yielded' = yielded \cup {t}
  /\ UNCHANGED <<schedulerVars, phase, prepareVars, signal, toolVars, timed, finalized>>

\* Mutant: the loop ends with the last timed result.
ThroughWithTimed == timed = Calls

\* `nextTimed === undefined` and no finalization is left.
Through == timed = Calls /\ yielded = Calls

BatchDone ==
  /\ phase = "batch" /\ Through
  /\ phase' = "done"
  /\ UNCHANGED <<schedulerVars, prepareVars, signal, toolVars, resultVars>>

\* Mutant: the generator throws without waiting for the tasks.
CleanedUpFinalizations == timed \subseteq finalized

\* The `finally` blocks: every task has settled, and every finalization.
CleanedUp == settled = Calls /\ timed \subseteq finalized

BatchThrows ==
  /\ phase = "closing" /\ CleanedUp
  /\ phase' = "failed"
  /\ UNCHANGED <<schedulerVars, prepareVars, signal, toolVars, resultVars>>

Abort ==
  /\ ~signal
  /\ signal' = TRUE
  /\ UNCHANGED <<schedulerVars, phase, prepareVars, toolVars, resultVars>>

----------------------------------------------------------------------------
PrepareStep ==
  \/ PrepareSkipped \/ PreparePreflightRejected \/ PrepareUnresolved \/ PrepareAborted
  \/ \E stops \in BOOLEAN : PrepareSynthetic(stops) \/ PrepareVetoed(stops)
  \/ \E acc \in Declarations, stops \in BOOLEAN : PrepareResolved(acc, stops)
  \/ PrepareAllowed \/ PrepareDone \/ PrepareThrows

BatchStep ==
  \/ AddTask
  \/ \E t \in Calls : TaskSettles(t) \/ TakeTimed(t) \/ FinalizeDone(t) \/ YieldResult(t)
  \/ BatchDone \/ BatchThrows

Next ==
  \/ PrepareStep
  \/ BatchStep
  \/ \E t \in Calls : FinalizeFails(t) \/ ToolReturns(t)
  \/ Abort

\* Hooks, resolutions and finalizations settle and the grace timer fires; no
\* tool has to return.
Fairness == WF_vars(PrepareStep) /\ WF_vars(BatchStep)

Spec == Init /\ [][Next]_vars /\ Fairness

----------------------------------------------------------------------------
(* Properties.                                                             *)

\* The generator is a ToolBatch: each call yields one result and the
\* iteration ends only when all have, or throws.
BatchSpec == Batch!Spec

\* Two tools with conflicting accesses are never inside their execute() at
\* the same time -- even when an aborted tool is given up on after the grace
\* period and runs on, while the scheduler, to which its task is finished,
\* starts the tasks that were waiting for it.
NoConflictingExecutions ==
  \A t, u \in executing : t # u => ~Clash(t, u)

\* Once a call stopped the batch (a goal was completed, a hook vetoed with
\* stopTurn), no later call of the response has any effect.
StoppedCallsNeverRun ==
  \A t \in DOMAIN prepared, u \in executed : prepared[t].stops => u <= t

\* When the iteration is over, successfully or not, no tool is still running,
\* unless the batch was aborted.
NoToolOutlivesTheBatch ==
  phase \in {"done", "failed"} => executing = {} \/ signal

\* An aborted batch ends, even if its tools ignore the signal.
AbortEndsTheBatch == signal ~> phase \in {"done", "failed"}
===========================================================================
