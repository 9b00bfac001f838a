--------------------------- MODULE ToolScheduler ---------------------------
(***************************************************************************)
(* The scheduler that runs one batch of tool calls                         *)
(* (agent/toolExecutor/toolScheduler.ts) and the relation it schedules by  *)
(* (ToolAccesses.conflict in tool/toolContract.ts).                        *)
(*                                                                         *)
(* A task is the index at which it was added; accesses[i] is the set of    *)
(* resource accesses task i declares.  The only caller hands `start` over  *)
(* as an async function (executeBatch), so `start` never throws in the     *)
(* caller's stack and a task leaves activeTasks only in the promise        *)
(* callback that settles it.  `add` pushes at the end of queuedTasks and    *)
(* startQueuedTasks rebuilds it in order, so the queue is always sorted by  *)
(* index and is modelled as the set of the tasks in it.                     *)
(***************************************************************************)
EXTENDS Naturals, Sequences, FiniteSets

CONSTANTS Declarations, \* the sets of resource accesses that tools declare
          MaxTasks      \* bound: tool calls in one batch

IsAccess(a) ==
  \/ a.kind = "all"
  \/ /\ a.kind = "file"
     /\ a.operation \in {"read", "search", "write", "readwrite"}
     /\ a.recursive \in BOOLEAN

ASSUME DeclarationsAssumption == \A acc \in Declarations : \A a \in acc : IsAccess(a)

ASSUME MaxTasksAssumption == MaxTasks \in Nat

VARIABLES accesses,     \* the accesses of the tasks added so far, in order
          activeTasks,  \* tasks whose start() was called and has not settled
          queuedTasks,  \* tasks waiting to be started
          settled       \* tasks whose result promise resolved or rejected

schedulerVars == <<accesses, activeTasks, queuedTasks, settled>>

Tasks == 1 .. Len(accesses)

----------------------------------------------------------------------------
(* ToolAccesses.conflict.  A path is the sequence of its normalised parts. *)

FileOperationWrites(op) == op \in {"write", "readwrite"}

IsAncestor(p, q) == Len(p) < Len(q) /\ SubSeq(q, 1, Len(p)) = p

FileAccessesOverlap(left, right) ==
  \/ left.path = right.path
  \/ left.recursive /\ IsAncestor(left.path, right.path)
  \/ right.recursive /\ IsAncestor(right.path, left.path)

ResourceAccessesConflict(left, right) ==
  \/ left.kind = "all"
  \/ right.kind = "all"
  \/ /\ left.kind = "file" /\ right.kind = "file"
     /\ FileOperationWrites(left.operation) \/ FileOperationWrites(right.operation)
     /\ FileAccessesOverlap(left, right)

Conflict(left, right) ==
  \E a \in left, b \in right : ResourceAccessesConflict(a, b)

Clash(t, u) == Conflict(accesses[t], accesses[u])

----------------------------------------------------------------------------
SchedulerInit ==
  /\ accesses = << >>
  /\ activeTasks = {}
  /\ queuedTasks = {}
  /\ settled = {}

\* Mutant: a new task is compared with the active tasks only.
IsBlockedActiveOnly(acc) == \E t \in activeTasks : Conflict(acc, accesses[t])

\* isBlocked in `add`: the new task conflicts with an active task or with any
\* queued one.
IsBlocked(acc) ==
  \E t \in activeTasks \cup queuedTasks : Conflict(acc, accesses[t])

\* add(task): start it at once, or queue it behind what it conflicts with.
Add(acc) ==
  LET t == Len(accesses) + 1 IN
  /\ Len(accesses) < MaxTasks
  /\ accesses' = Append(accesses, acc)
  /\ \/ /\ IsBlocked(acc)
        /\ queuedTasks' = queuedTasks \cup {t}
        /\ UNCHANGED activeTasks
     \/ /\ ~IsBlocked(acc)
        /\ activeTasks' = activeTasks \cup {t}
        /\ UNCHANGED queuedTasks
  /\ UNCHANGED settled

\* Mutant: the scan compares a queued task with itself too.
StillBlockedBySelf(t, running) ==
  \E u \in running \cup {q \in queuedTasks : q <= t} : Clash(t, u)

\* isBlocked in startQueuedTasks, with `running` the tasks active when the
\* scan begins.  A task queued before t is, when the scan reaches t, either
\* active (this very scan started it) or in stillQueued: t waits for it in
\* both cases.
StillBlocked(t, running) ==
  \E u \in running \cup {q \in queuedTasks : q < t} : Clash(t, u)

\* Mutant: the scan stops at the first task it can start.
StartableFirstOnly(running) ==
  {t \in queuedTasks : ~StillBlocked(t, running) /\ \A u \in queuedTasks : t <= u}

\* The tasks that startQueuedTasks starts.
Startable(running) == {t \in queuedTasks : ~StillBlocked(t, running)}

\* finish(task): the result promise settles, the task leaves activeTasks and
\* the queue is scanned again.
Finish(t) ==
  LET running == activeTasks \ {t} IN
  /\ t \in activeTasks
  /\ settled' = settled \cup {t}
  /\ activeTasks' = running \cup Startable(running)
  /\ queuedTasks' = queuedTasks \ Startable(running)
  /\ UNCHANGED accesses

SchedulerNext ==
  \/ \E acc \in Declarations : Add(acc)
  \/ \E t \in activeTasks : Finish(t)

\* A started tool settles: its execution is raced with the abort grace and the
\* promise of runSingleExecution never stays pending once the tool returns.
SchedulerFairness == \A t \in 1 .. MaxTasks : WF_schedulerVars(Finish(t))

SchedulerSpec == SchedulerInit /\ [][SchedulerNext]_schedulerVars /\ SchedulerFairness

----------------------------------------------------------------------------
(* What the executor relies on.                                            *)

\* Every task added is in exactly one place: none is dropped by the scan that
\* rebuilds queuedTasks and none is started twice.
SchedulerTypeOK ==
  /\ accesses \in Seq(Declarations)
  /\ activeTasks \cup queuedTasks \cup settled = Tasks
  /\ activeTasks \cap queuedTasks = {}
  /\ settled \cap (activeTasks \cup queuedTasks) = {}

\* Two tool calls whose declared accesses conflict (a write and anything that
\* overlaps it) are never in flight together.
NoConflictingTasksActive ==
  \A t, u \in activeTasks : t # u => ~Clash(t, u)

\* Conflicting tool calls take effect in the order the model issued them: when
\* one has started, every earlier one it conflicts with has settled, however
\* the queue was rescanned in between.
ConflictsRunInOrder ==
  \A t, u \in Tasks :
     (t < u /\ Clash(t, u) /\ u \notin queuedTasks) => t \in settled

\* No call waits for nothing: a queued task conflicts with a task before it
\* that has not settled.  In particular the queue is empty once nothing runs.
QueuedTasksAreBlocked ==
  \A t \in queuedTasks :
     \E u \in activeTasks \cup queuedTasks : u < t /\ Clash(t, u)

\* Every tool call that was added settles, so the batch's
\* `while (pendingResults.size > 0)` loop ends.
EveryTaskSettles ==
  \A t \in 1 .. MaxTasks : (t \in Tasks) ~> (t \in settled)
============================================================================
