--------------------------- MODULE FullCompaction ---------------------------
(***************************************************************************)
(* Full compaction of an agent's context: the worker that asks the model   *)
(* for a summary and puts it in the place of the history, while turns run  *)
(* steps, are blocked by it, recover from a context overflow through it or *)
(* are aborted, and while the user cancels it, clears the context, undoes  *)
(* a turn or restarts the process.                                         *)
(***************************************************************************)
EXTENDS ContextMemory, FiniteSets, TLC

CONSTANTS
    MaxWorkers,      \* bound: compaction workers at one time
    MaxPrompts,      \* bound: prompts of the user
    MaxSteps,        \* bound: responses of the model to turns
    MaxOps,          \* bound: manual compactions, cancels, clears, undos, restarts, notes, aborts
    MaxWindow,       \* the model's context window, in messages
    TriggerRatio,    \* compactionTriggerRatio, in percent
    Reserved,        \* reservedContextSize, in messages
    MaxOverflow,     \* maxOverflowCompactionAttempts
    MaxAttempts,     \* compactionMaxAttempts
    MaxShrinks       \* MAX_COMPACTION_OVERFLOW_SHRINK_ATTEMPTS

ASSUME RatioAssumption == TriggerRatio \in 1 .. 100
ASSUME BoundAssumption ==
    /\ {MaxPrompts, MaxSteps, MaxOps, Reserved, MaxOverflow, MaxShrinks} \subseteq Nat
    /\ {MaxWorkers, MaxWindow, MaxAttempts} \subseteq Nat \ {0}

VARIABLES
    ctx,          \* contextMemory
    phase,        \* the replayable phase of fullCompactionKey
    compacting,   \* _compacting: a worker or 0
    worker,       \* the compaction workers
    lease,        \* who holds the loop's quiescence: a worker, Undo or 0
    turn,         \* the active turn of the loop
    queued,       \* a prompt waits for the loop
    window,       \* the effective context window, lowered by overflows
    last,         \* lastCompactedTokenCount, 0 for null
    over,         \* consecutiveOverflowCompactions
    count,        \* prompts, responses and operations so far
    said,         \* ghost: the items recorded in the context and not retracted
    gone,         \* ghost: the items a clear has removed, those the running
                  \* step has yet to record included
    dropped,      \* ghost: the items a shrunk summary request left out
    slipped       \* ghost: a compaction was applied to a context that had
                  \* stopped being safe to compact, or while messages waited
                  \* for a tool result

loopVars == <<turn, queued>>
ghosts == <<said, gone, dropped, slipped>>
vars == <<ctx, phase, compacting, worker, lease, turn, queued, window, last,
          over, count, said, gone, dropped, slipped>>

Workers == 1 .. MaxWorkers
Undo == MaxWorkers + 1
Live == {"hook", "ask", "sleep", "flush"}
BlockRatio == IF TriggerRatio > 85 THEN TriggerRatio ELSE 85

NoWorker == [pc |-> "none", manual |-> FALSE, aborted |-> FALSE,
             original |-> <<>>, history |-> <<>>, attempts |-> 0, shrinks |-> 0,
             outcome |-> "none"]
NoTurn == [pc |-> "idle", on |-> 0, more |-> FALSE, aborted |-> FALSE]

Init ==
    /\ ctx = EmptyContext
    /\ phase = "idle" /\ compacting = 0 /\ lease = 0
    /\ worker = [w \in Workers |-> NoWorker]
    /\ turn = NoTurn /\ queued = FALSE
    /\ window = MaxWindow /\ last = 0 /\ over = 0
    /\ count = [prompts |-> 0, steps |-> 0, ops |-> 0]
    /\ said = {} /\ gone = {} /\ dropped = {} /\ slipped = FALSE

Tally(what) == count' = [count EXCEPT ![what] = @ + 1]
-----------------------------------------------------------------------------
(* Thresholds.                                                             *)

Size == Len(ctx.msgs)

ShouldUseReservedContext == Reserved \in 1 .. window - 1 /\ Size + Reserved >= window

ShouldCompact == Size * 100 >= window * TriggerRatio \/ ShouldUseReservedContext

ShouldBlock == Size * 100 >= window * BlockRatio \/ ShouldUseReservedContext

CheckAfterStep == TriggerRatio # BlockRatio

ObserveContextOverflow(tokens) ==
    LET observed == IF (tokens * 85) \div 100 > 1 THEN (tokens * 85) \div 100 ELSE 1
    IN  window' = IF tokens = 0 \/ observed >= window THEN window ELSE observed

(* The history a summary request starts with: cut to the recent messages   *)
(* when it does not fit the window.                                        *)
PreShrink(msgs) ==
    LET budget == ((window - (window \div 8)) * 85) \div 100
        cut == TakeRecentMessagesWithinTokenBudget(msgs, budget)
    IN  IF budget = 0 \/ Len(msgs) + 1 <= budget \/ cut = <<>> THEN msgs ELSE cut

-----------------------------------------------------------------------------
(* Begin and end of a compaction.                                          *)

Begin(w, manual) ==
    /\ compacting = 0 /\ ctx.msgs # <<>>
    /\ worker[w].pc = "none" /\ \A v \in 1 .. w - 1 : worker[v].pc # "none"
    /\ compacting' = w /\ phase' = "running"
    /\ worker' = [worker EXCEPT ![w] =
           [NoWorker EXCEPT !.pc = "hook", !.manual = manual, !.original = ctx.msgs]]

(* cancelActive: the worker loses the slot and learns of it by its signal; *)
(* it has no more use for its histories.                                   *)
Abort(w) ==
    /\ compacting = w
    /\ compacting' = 0 /\ phase' = "idle"
    /\ worker' = [worker EXCEPT ![w].aborted = TRUE, ![w].original = <<>>, ![w].history = <<>>]

(* The end of compactionWorker: the slot is given back if it is still the  *)
(* worker's, the loop's lease is released, and the promise settles.        *)
Settle(w, outcome) ==
    /\ worker' = [worker EXCEPT ![w] =
           IF turn.on = w THEN [NoWorker EXCEPT !.pc = "done", !.outcome = outcome] ELSE NoWorker]
    /\ compacting' = IF compacting = w THEN 0 ELSE compacting
    /\ phase' = IF compacting = w THEN "idle" ELSE phase
    /\ lease' = IF lease = w THEN 0 ELSE lease
-----------------------------------------------------------------------------
(* The worker.                                                             *)

HookDone(w) ==
    /\ worker[w].pc = "hook"
    /\ \/ /\ worker[w].aborted
          /\ Settle(w, "aborted")
          /\ UNCHANGED dropped
       \/ /\ ~worker[w].aborted
          /\ LET history == PreShrink(worker[w].original) IN
             /\ worker' = [worker EXCEPT ![w].pc = "ask", ![w].attempts = 1,
                                         ![w].history = history]
             /\ dropped' = dropped \cup (ItemsOf(worker[w].original) \ ItemsOf(history))
          /\ UNCHANGED <<compacting, phase, lease>>
    /\ UNCHANGED <<ctx, loopVars, window, last, over, count, said, gone, slipped>>

(* The signal reaches a request or a backoff timer.                        *)
RequestAborted(w) ==
    /\ worker[w].pc \in {"ask", "sleep"} /\ worker[w].aborted
    /\ Settle(w, "aborted")
    /\ UNCHANGED <<ctx, loopVars, window, last, over, count, ghosts>>

Answered(w) == worker[w].pc = "ask" /\ ~worker[w].aborted

(* The summary has arrived: the history must still be the one it is about. *)
SummaryArrives(w) ==
    /\ Answered(w)
    /\ IF HistorySafeToCompact(ctx.msgs, worker[w].original)
       THEN /\ worker' = [worker EXCEPT ![w].pc = "flush"]
            /\ UNCHANGED <<compacting, phase, lease>>
       ELSE Settle(w, "aborted")
    /\ UNCHANGED <<ctx, loopVars, window, last, over, count, ghosts>>

(* Ask again with a shorter history, or give up.                           *)
Again(w, history, shrunk) ==
    /\ worker' = [worker EXCEPT ![w].history = history, ![w].attempts = @ + 1,
                                ![w].shrinks = @ + shrunk]
    /\ dropped' = dropped \cup (ItemsOf(worker[w].history) \ ItemsOf(history))
    /\ UNCHANGED <<compacting, phase, lease>>

GiveUp(w, outcome) == Settle(w, outcome) /\ UNCHANGED dropped

ShrinkRatio(n) == IF n = 1 THEN 70 ELSE IF n = 2 THEN 50 ELSE 35

RequestOverflows(w) ==
    /\ Answered(w)
    /\ LET task == worker[w]
           shrinks == task.shrinks + 1
           shorter == TakeRecentMessagesWithinTokenBudget(
                          task.history, (Len(task.history) * ShrinkRatio(shrinks)) \div 100)
       IN  /\ ObserveContextOverflow(Len(task.history) + 1)
           /\ IF \/ shrinks > MaxShrinks \/ task.attempts >= MaxAttempts
                 \/ Len(task.history) <= 1 \/ shorter = <<>>
              THEN GiveUp(w, "overflow")
              ELSE Again(w, shorter, 1)
    /\ UNCHANGED <<ctx, loopVars, last, over, count, said, gone, slipped>>

(* A truncated or an empty answer.                                         *)
RequestFallsShort(w) ==
    /\ Answered(w)
    /\ LET task == worker[w] IN
       IF Len(task.history) <= 1 \/ task.attempts >= MaxAttempts
       THEN GiveUp(w, "failed")
       ELSE Again(w, DropLeadingToolResults(Tail(task.history)), 0)
    /\ UNCHANGED <<ctx, loopVars, window, last, over, count, said, gone, slipped>>

(* An error worth a retry is followed by a backoff, any other ends it.     *)
RequestFails(w, retryable) ==
    /\ Answered(w)
    /\ IF retryable /\ worker[w].attempts < MaxAttempts
       THEN /\ worker' = [worker EXCEPT ![w].pc = "sleep"]
            /\ UNCHANGED <<compacting, phase, lease>>
       ELSE Settle(w, "failed")
    /\ UNCHANGED <<ctx, loopVars, window, last, over, count, ghosts>>

BackoffEnds(w) ==
    /\ worker[w].pc = "sleep" /\ ~worker[w].aborted
    /\ worker' = [worker EXCEPT ![w].pc = "ask", ![w].attempts = @ + 1]
    /\ UNCHANGED <<ctx, compacting, phase, lease, loopVars, window, last, over, count, ghosts>>

(* The journal is flushed and the compaction applied.                      *)
Flushed(w) ==
    /\ worker[w].pc = "flush"
    /\ \/ /\ worker[w].aborted
          /\ Settle(w, "aborted")
          /\ UNCHANGED <<ctx, last, slipped>>
       \/ /\ ~worker[w].aborted
          /\ ctx' = ApplyCompaction(ctx, ItemsOf(worker[w].history))
          /\ last' = Len(ctx'.msgs)
          /\ slipped' = \/ slipped
                        \/ ~HistorySafeToCompact(ctx.msgs, worker[w].original)
                        \/ ctx.deferred # <<>>
          /\ Settle(w, "ok")
    /\ UNCHANGED <<loopVars, window, over, count, said, gone, dropped>>
-----------------------------------------------------------------------------
(* The turn.                                                               *)

TurnStart ==
    /\ turn.pc = "idle" /\ queued /\ lease = 0
    /\ queued' = FALSE
    /\ Tally("prompts")
    /\ LET n == count.prompts + 1 IN
       /\ ctx' = AppendMessage(ctx, Message("user", n))
       /\ said' = said \cup {<<"user", n>>}
    /\ turn' = [NoTurn EXCEPT !.pc = "gate"]
    /\ last' = 0 /\ over' = 0
    /\ UNCHANGED <<phase, compacting, worker, lease, window, gone, dropped, slipped>>

EndTurn == turn' = NoTurn /\ UNCHANGED queued

(* checkAutoCompaction: begin a compaction unless one runs or the context  *)
(* has not grown since the last.                                           *)
AutoDue == compacting = 0 /\ ~(last # 0 /\ Size <= last) /\ ShouldCompact

CheckAutoCompaction ==
    IF AutoDue THEN \E w \in Workers : Begin(w, FALSE)
    ELSE UNCHANGED <<compacting, phase, worker>>

(* beforeStep: a context above the block threshold waits for the           *)
(* compaction that runs.                                                   *)
BeforeStep ==
    /\ turn.pc = "gate"
    /\ \/ /\ count.steps = MaxSteps
          /\ EndTurn
          /\ UNCHANGED <<compacting, phase, worker>>
       \/ /\ count.steps < MaxSteps
          /\ CheckAutoCompaction
          /\ turn' = IF ShouldBlock /\ compacting' # 0
                     THEN [turn EXCEPT !.pc = "blocked", !.on = compacting']
                     ELSE [turn EXCEPT !.pc = "ready"]
          /\ UNCHANGED queued
    /\ UNCHANGED <<ctx, lease, window, last, over, count, ghosts>>

StepItems(n) == {<<"asst", n>>, <<"tool", n>>}

(* A step takes the number of one that ended without a response.           *)
StepStarted ==
    /\ turn.pc = "ready"
    /\ ctx' = StepBegin(ctx, count.steps + 1)
    /\ turn' = [turn EXCEPT !.pc = "asking"]
    /\ gone' = gone \ StepItems(count.steps + 1)
    /\ UNCHANGED <<phase, compacting, worker, lease, queued, window, last, over, count,
                   said, dropped, slipped>>

(* What a running step records counts unless a clear has cut it off.       *)
Record(items) == said' = said \cup (items \ gone)

StepCompleted(call) ==
    /\ turn.pc = "asking"
    /\ LET n == count.steps + 1
           answered == ContentPart(ctx, n)
       IN  /\ ctx' = IF call THEN ToolCall(answered, n) ELSE StepEnd(answered, "completed")
           /\ Record({<<"asst", n>>})
    /\ turn' = [turn EXCEPT !.pc = IF call THEN "tool" ELSE "after", !.more = call]
    /\ Tally("steps")
    /\ UNCHANGED <<phase, compacting, worker, lease, queued, window, last, over,
                   gone, dropped, slipped>>

ToolDone ==
    /\ turn.pc = "tool"
    /\ ctx' = StepEnd(ToolResult(ctx, count.steps), "tool_calls")
    /\ Record({<<"tool", count.steps>>})
    /\ turn' = [turn EXCEPT !.pc = "after"]
    /\ UNCHANGED <<phase, compacting, worker, lease, queued, window, last, over, count,
                   gone, dropped, slipped>>

AfterStep ==
    /\ turn.pc = "after"
    /\ over' = 0
    /\ IF CheckAfterStep THEN CheckAutoCompaction ELSE UNCHANGED <<compacting, phase, worker>>
    /\ turn' = IF turn.more THEN [NoTurn EXCEPT !.pc = "gate"] ELSE NoTurn
    /\ UNCHANGED <<ctx, lease, queued, window, last, count, ghosts>>

(* The request of the step fails; the open message stays in the context.   *)
StepFails(overflow) ==
    /\ turn.pc = "asking"
    /\ ctx' = StepEnd(ctx, "error")
    /\ turn' = IF overflow THEN [turn EXCEPT !.pc = "recover"] ELSE NoTurn
    /\ UNCHANGED <<phase, compacting, worker, lease, queued, window, last, over, count, ghosts>>

(* recoverFromContextOverflow up to its wait.                              *)
Recover ==
    /\ turn.pc = "recover"
    /\ ObserveContextOverflow(Size)
    /\ over' = over + 1
    /\ LET gaveUp == over' > MaxOverflow \/ (compacting = 0 /\ ctx.msgs = <<>>) IN
       \/ /\ gaveUp
          /\ EndTurn
          /\ UNCHANGED <<compacting, phase, worker>>
       \/ /\ ~gaveUp
          /\ IF compacting = 0 THEN \E w \in Workers : Begin(w, FALSE)
             ELSE UNCHANGED <<compacting, phase, worker>>
          /\ turn' = [turn EXCEPT !.pc = "waiting", !.on = compacting']
          /\ UNCHANGED queued
    /\ UNCHANGED <<ctx, lease, last, count, ghosts>>

(* The compaction a turn waits for has settled: the step goes on, the      *)
(* failed step is retried, an overflow of the summary request is recovered *)
(* from like one of a step, and anything else ends the turn.               *)
Unblocked ==
    /\ turn.pc \in {"blocked", "waiting"}
    /\ worker[turn.on].pc = "done"
    /\ LET outcome == worker[turn.on].outcome
           blocked == turn.pc = "blocked"
           next == CASE turn.aborted -> "idle"
                     [] outcome = "ok" -> IF blocked THEN "ready" ELSE "gate"
                     [] outcome = "overflow" /\ blocked -> "recover"
                     [] OTHER -> "idle"
       IN  turn' = [NoTurn EXCEPT !.pc = next]
    /\ worker' = [worker EXCEPT ![turn.on] = NoWorker]
    /\ UNCHANGED <<ctx, phase, compacting, lease, queued, window, last, over, count, ghosts>>

(* The user aborts the turn: a wait aborts its compaction and ends with    *)
(* it, a step is interrupted with the text so far and its call answered.   *)
AbortTurn(text) ==
    /\ count.ops < MaxOps
    /\ turn.pc # "idle" /\ ~turn.aborted
    /\ \/ /\ turn.on # 0 /\ ~text
          /\ turn' = [turn EXCEPT !.aborted = TRUE]
          /\ IF compacting = turn.on THEN Abort(turn.on)
             ELSE UNCHANGED <<compacting, phase, worker>>
          /\ Tally("ops")
          /\ UNCHANGED <<ctx, said>>
       \/ /\ turn.on = 0
          /\ text => turn.pc = "asking"
          /\ LET n == count.steps + 1
                 answered == IF turn.pc = "tool" THEN ToolResult(ctx, count.steps)
                             ELSE IF text THEN ContentPart(ctx, n) ELSE ctx
             IN  /\ ctx' = StepEnd(answered, "interrupted")
                 /\ Record(IF text THEN {<<"asst", n>>} ELSE {})
          /\ count' = [count EXCEPT !.ops = @ + 1, !.steps = IF text THEN @ + 1 ELSE @]
          /\ turn' = NoTurn
          /\ UNCHANGED <<compacting, phase, worker>>
    /\ UNCHANGED <<lease, queued, window, last, over, gone, dropped, slipped>>
-----------------------------------------------------------------------------
(* The user and the process.                                               *)

Prompt ==
    /\ ~queued /\ count.prompts < MaxPrompts
    /\ queued' = TRUE
    /\ UNCHANGED <<ctx, phase, compacting, worker, lease, turn, window, last, over, count, ghosts>>

(* A background task or a feature puts a reminder in the context.          *)
Notify ==
    /\ count.ops < MaxOps
    /\ Tally("ops")
    /\ ctx' = AppendMessage(ctx, Message("note", count.ops + 1))
    /\ said' = said \cup {<<"note", count.ops + 1>>}
    /\ UNCHANGED <<phase, compacting, worker, lease, loopVars, window, last, over,
                   gone, dropped, slipped>>

TryAcquireQuiescence == lease = 0 /\ turn.pc = "idle" /\ ~queued

Compact ==
    /\ count.ops < MaxOps
    /\ Tally("ops")
    /\ TryAcquireQuiescence
    /\ \E w \in Workers : Begin(w, TRUE) /\ lease' = w
    /\ UNCHANGED <<ctx, loopVars, window, last, over, ghosts>>

CancelCompaction ==
    /\ count.ops < MaxOps
    /\ Tally("ops")
    /\ \E w \in Workers : Abort(w)
    /\ UNCHANGED <<ctx, lease, loopVars, window, last, over, ghosts>>

ClearContext ==
    /\ count.ops < MaxOps
    /\ Tally("ops")
    /\ ctx.msgs # <<>>
    /\ ctx' = EmptyContext
    /\ gone' = gone \cup said \cup (IF turn.pc \in {"asking", "tool"}
                                     THEN StepItems(ctx.open) ELSE {})
    /\ said' = {}
    /\ UNCHANGED <<phase, compacting, worker, lease, loopVars, window, last, over,
                   dropped, slipped>>

\* Mutant: a compaction that runs between turns does not stop an undo.
UndoBeginHasty ==
    /\ count.ops < MaxOps
    /\ Tally("ops")
    /\ TryAcquireQuiescence
    /\ ComputeUndoCut(ctx.msgs) # 0
    /\ lease' = Undo
    /\ UNCHANGED <<ctx, phase, compacting, worker, loopVars, window, last, over, ghosts>>

UndoBegin ==
    /\ count.ops < MaxOps
    /\ Tally("ops")
    /\ TryAcquireQuiescence
    /\ compacting = 0
    /\ ComputeUndoCut(ctx.msgs) # 0
    /\ lease' = Undo
    /\ UNCHANGED <<ctx, phase, compacting, worker, loopVars, window, last, over, ghosts>>

UndoEnd ==
    /\ lease = Undo
    /\ lease' = 0
    /\ LET cut == ComputeUndoCut(ctx.msgs) IN
       IF cut = 0 THEN UNCHANGED <<ctx, said>>
       ELSE /\ ctx' = [EmptyContext EXCEPT !.msgs = SubSeq(ctx.msgs, 1, cut - 1)]
            /\ said' = said \ (ItemsOf(SubSeq(ctx.msgs, cut, Size)) \cup ItemsOf(ctx.deferred))
    /\ UNCHANGED <<phase, compacting, worker, loopVars, window, last, over, count,
                   gone, dropped, slipped>>

(* normalizeAfterReplay: the replayed phase of a compaction that died with *)
(* the process is closed.                                                  *)
NormalizeAfterReplay(replayed) == IF replayed = "running" THEN "idle" ELSE replayed

Restart ==
    /\ count.ops < MaxOps
    /\ Tally("ops")
    /\ phase' = NormalizeAfterReplay(phase)
    /\ compacting' = 0 /\ lease' = 0
    /\ worker' = [w \in Workers |-> NoWorker]
    /\ turn' = NoTurn /\ queued' = FALSE
    /\ window' = MaxWindow /\ last' = 0 /\ over' = 0
    /\ UNCHANGED <<ctx, ghosts>>
-----------------------------------------------------------------------------
WorkerStep(w) ==
    \/ HookDone(w)
    \/ RequestAborted(w)
    \/ SummaryArrives(w)
    \/ RequestOverflows(w)
    \/ RequestFallsShort(w)
    \/ RequestFails(w, TRUE)
    \/ RequestFails(w, FALSE)
    \/ BackoffEnds(w)
    \/ Flushed(w)

TurnStep ==
    \/ TurnStart
    \/ BeforeStep
    \/ StepStarted
    \/ StepCompleted(TRUE)
    \/ StepCompleted(FALSE)
    \/ ToolDone
    \/ AfterStep
    \/ StepFails(TRUE)
    \/ StepFails(FALSE)
    \/ Recover
    \/ Unblocked

UserStep ==
    \/ Prompt
    \/ Notify
    \/ AbortTurn(TRUE)
    \/ AbortTurn(FALSE)
    \/ Compact
    \/ CancelCompaction
    \/ ClearContext
    \/ UndoBegin
    \/ Restart

Next ==
    \/ \E w \in Workers : WorkerStep(w)
    \/ TurnStep
    \/ UndoEnd
    \/ UserStep

Spec == Init /\ [][Next]_vars

-----------------------------------------------------------------------------
TypeOK ==
    /\ phase \in {"idle", "running"}
    /\ compacting \in 0 .. MaxWorkers /\ lease \in 0 .. Undo
    /\ \A w \in Workers :
         /\ worker[w].pc \in Live \cup {"none", "done"}
         /\ worker[w].attempts \in 0 .. MaxAttempts
         /\ worker[w].shrinks \in 0 .. MaxShrinks
    /\ turn.pc \in {"idle", "gate", "blocked", "ready", "asking", "tool", "after",
                    "recover", "waiting"}
    /\ turn.on \in 0 .. MaxWorkers
    /\ window \in 1 .. MaxWindow /\ last \in Nat /\ over \in 0 .. MaxOverflow + 1
    /\ ctx.open \in 0 .. MaxSteps + 1

(* Every prompt, response, tool result and reminder that was recorded and  *)
(* not withdrawn is still a message of the context, or is covered by the   *)
(* summary in it, or was left out of a summary request that had to be      *)
(* shortened - unless a compaction was applied to a context changed after  *)
(* its only check (historySafeToCompact is asked before the journal is     *)
(* flushed), or that had messages the check does not see, those deferred   *)
(* until a tool result comes.                                              *)
NothingForgotten == slipped \/ said \subseteq Known(ctx) \cup dropped

(* What a clear removed does not come back, as a message, as the rest of a *)
(* step that was running, or in a summary, with the same exception.        *)
ClearedStaysCleared == slipped \/ Known(ctx) \cap gone = {}

(* The slot of the compaction belongs to the one worker that is at work    *)
(* and not aborted, and the journalled phase says the same: no worker goes *)
(* on without it, and none that was cancelled disturbs its successor.      *)
SlotFollowsWorker ==
    /\ \A w \in Workers : (compacting = w) <=> (worker[w].pc \in Live /\ ~worker[w].aborted)
    /\ (phase = "running") <=> (compacting # 0)

(* The lease on the loop is held by an undo or by a manual compaction that *)
(* is still at work, never beside a turn, and an undo never runs beside a  *)
(* compaction that may still change the history.                           *)
LeaseIsExclusive ==
    /\ lease # 0 => turn.pc = "idle"
    /\ lease \in Workers => worker[lease].pc \in Live /\ worker[lease].manual
    /\ lease = Undo => compacting = 0

(* What was said is in the context or its summary, and what was cleared is *)
(* not (AgentContextMemory, AgentFullCompactionService).                   *)
ContextIsKept == TypeOK /\ NothingForgotten /\ ClearedStaysCleared

(* One compaction at a time has the slot, and turns, undos and manual      *)
(* compactions exclude each other (AgentFullCompactionService and the      *)
(* loop's quiescence lease).                                               *)
CompactionIsAlone == SlotFollowsWorker /\ LeaseIsExclusive
=============================================================================
