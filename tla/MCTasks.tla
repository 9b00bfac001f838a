------------------------------- MODULE MCTasks -------------------------------
(***************************************************************************)
(* The two views of a background task that share no state: the life of one *)
(* process task, and how the agent hears of the end of a task.  A          *)
(* behaviour belongs to one of them, `part`; the other stays in an initial *)
(* state.                                                                  *)
(***************************************************************************)
EXTENDS TaskLifecycle

CONSTANTS Tasks, None, MaxPrompts, MaxWaits, MaxUndos, MaxResumes

VARIABLES part,
          phase, keep, at, info, stopBy, writes, disk, wire, line, saved, building,
          scheduled, delivered, pend, nudges, armed, toRestore, undo, turn, tool, undos,
          resumes, odd

Reports == INSTANCE TaskNotifications WITH Faults <- {"crash", "abort", "close", "stop", "wait"}

ASSUME LifeAssumption == TaskAssumption

----------------------------------------------------------------------------
reportVars ==
  <<phase, keep, at, info, stopBy, writes, disk, wire, line, saved, building, scheduled,
    delivered, pend, nudges, armed, toRestore, undo, turn, tool, undos, resumes, odd>>
partVars == <<part, vars, reportVars>>

PartInit ==
  /\ part \in {"life", "reports"}
  /\ Init /\ Reports!Init
  /\ part = "life" => keep = FALSE
  /\ part = "reports" => opts = [detached |-> TRUE, auto |-> FALSE, rearm |-> FALSE]

PartNext ==
  \/ part = "life" /\ Next /\ UNCHANGED <<part, reportVars>>
  \/ part = "reports" /\ Reports!Next /\ UNCHANGED <<part, vars>>

PartSpec == PartInit /\ [][PartNext]_partVars

----------------------------------------------------------------------------
\* The conversation reports the end of a task at most once, and under one
\* outcome, over undo, session close, crash and resume (notifyAgentTask,
\* restoreAgentTaskNotification, markTasksDeliveredViaWait).
ReportedOnce == part = "reports" =>
  /\ Reports!TypeOK
  /\ Reports!ReportedOnce
  /\ Reports!OutcomesAgree

\* A task that has ended is reported or about to be, except as `odd` records
\* (AgentTaskService).
NoneForgotten == part = "reports" => Reports!NoneForgotten
==============================================================================
