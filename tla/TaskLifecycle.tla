--------------------------- MODULE TaskLifecycle ---------------------------
(***************************************************************************)
(* The life of one task of AgentTaskService (agent/task/taskService.ts)    *)
(* that runs a process (ProcessTask of the Bash tool): in the foreground   *)
(* or detached, moved to the background by the user or by its timeout,     *)
(* stopped by several callers at once, with its output on the way to the   *)
(* tool's result and to the task's file.                                   *)
(*                                                                         *)
(* Every await is a step boundary.  A chunk of output is its number; the   *)
(* limits on output are counted in chunks.  SIGKILL always ends the        *)
(* process; SIGTERM may be ignored.                                        *)
(***************************************************************************)
EXTENDS Naturals, Sequences, FiniteSets

CONSTANTS Stops,          \* those of stop and signal that may be called
          MaxChunks,      \* bound on the chunks the process writes
          PendingChunks,  \* MAX_OUTPUT_BYTES
          LimitChunks     \* MAX_TASK_OUTPUT_BYTES

Statuses == {"running", "completed", "failed", "killed", "timed_out"}
Stoppers == {"stop", "signal", "limit"}      \* terminateWithGrace ending in 'killed'
Timeouts == {"timeout", "detachTimeout"}     \* and in 'timed_out'
Callers == Stoppers \cup Timeouts

TaskAssumption ==
  /\ Stops \subseteq Stoppers \ {"limit"}
  /\ PendingChunks \in Nat /\ LimitChunks \in Nat /\ PendingChunks < LimitChunks

VARIABLES
  opts,      \* [detached, auto, rearm]: the options of the registration
  entry,     \* ManagedTask: status, reason, fg, timer, timedOut, persisting, tripped
  aborted,   \* abortController
  proc,      \* "alive", "ok" or "bad" once it has exited, "disposed"
  run,       \* start(): "wait", "drain", "dispose", "settling", "over"
  result,    \* the settlement start() will report
  terms,     \* terms[b]: the call of terminateWithGrace by b
  settle,    \* settleTask: "no", "write", "done"
  release,   \* what foregroundRelease was resolved with
  bash,      \* the Bash tool: "waiting", "result", "background"
  waiter,    \* a call of wait: "none", "waiting", "returned"
  chunks, pending, file, builder,
  told,      \* TaskStarted and TaskTerminated
  mute,      \* history: chunks written after the abort
  first,     \* history: who called terminateWithGrace first
  bent       \* history: the task was detached after that

vars == <<opts, entry, aborted, proc, run, result, terms, settle, release, bash, waiter, chunks, pending, file,
          builder, told, mute, first, bent>>
Output == <<chunks, pending, file, builder, mute>>
Process == <<proc, run, result>>
Ends == <<settle, release, bash, waiter, told>>

Init ==
  /\ opts \in [detached : BOOLEAN, auto : BOOLEAN, rearm : BOOLEAN]
  /\ entry = [status |-> "running", reason |-> "none", fg |-> ~opts.detached, timer |-> "timeout",
              timedOut |-> FALSE, persisting |-> opts.detached, tripped |-> FALSE]
  /\ aborted = FALSE /\ proc = "alive" /\ run = "wait" /\ result = "running"
  /\ terms = [b \in Callers |-> "no"] /\ settle = "no" /\ release = "none"
  /\ bash = (IF opts.detached THEN "background" ELSE "waiting") /\ waiter = "none"
  /\ chunks = 0 /\ pending = <<>> /\ file = <<>> /\ builder = <<>> /\ mute = {}
  /\ told = (IF opts.detached THEN <<"started">> ELSE <<>>) /\ first = "none" /\ bent = FALSE

TypeOK ==
  /\ entry.status \in Statuses /\ entry.reason \in Stoppers \cup {"none"}
  /\ entry.timer \in Timeouts \cup {"none"}
  /\ proc \in {"alive", "ok", "bad", "disposed"} /\ run \in {"wait", "drain", "dispose", "settling", "over"}
  /\ \A b \in Callers : terms[b] \in {"no", "grace", "kill", "killed", "settling", "done"}
  /\ (settle = "no") = (entry.status = "running")
  /\ ~entry.persisting => file = <<>>

Running == entry.status = "running"

----------------------------------------------------------------------------
(* settleTask.                                                             *)

\* fireTerminalEffects: a foreground task reports through its caller.
fireTerminalEffects(fg) == told' = IF fg THEN told ELSE Append(told, "terminated")

\* What settleTask does after it has written the file.
SettleEffects(fg) ==
  /\ fireTerminalEffects(fg)
  /\ release' = IF fg THEN "terminal" ELSE release

settleTask(status, reason) ==
  /\ entry' = [entry EXCEPT !.status = status, !.timer = "none",
                            !.reason = IF reason # "none" THEN reason ELSE IF status = "killed" THEN @ ELSE "none"]
  /\ IF entry.persisting
     THEN settle' = "write" /\ UNCHANGED <<told, release, pending>>
     ELSE settle' = "done" /\ pending' = <<>> /\ SettleEffects(entry.fg)

\* persistLive has written the file.
SettleWritten ==
  /\ settle = "write" /\ settle' = "done" /\ SettleEffects(entry.fg)
  /\ UNCHANGED <<opts, entry, aborted, Process, terms, bash, waiter, Output, first, bent>>

----------------------------------------------------------------------------
(* ProcessTask.start.                                                      *)

\* The process ends by itself or because of SIGTERM.
ProcessExits(code) ==
  /\ proc = "alive"
  /\ proc' = code
  /\ UNCHANGED <<opts, entry, aborted, run, result, terms, Ends, Output, first, bent>>

WaitReturns ==
  /\ run = "wait" /\ proc # "alive"
  /\ run' = "drain" /\ result' = IF proc = "ok" THEN "completed" ELSE "failed"
  /\ UNCHANGED <<opts, entry, aborted, proc, terms, Ends, Output, first, bent>>

\* The streams have ended, failed or used up their grace; then finally disposes the process.
StreamsDrained(broken) ==
  /\ run = "drain" /\ run' = "dispose"
  /\ result' = IF aborted THEN "killed" ELSE IF broken THEN "failed" ELSE result
  /\ UNCHANGED <<opts, entry, aborted, proc, terms, Ends, Output, first, bent>>

\* Mutant: the timeout is not told from a stop.
Uncoerced(status) == status

coerceTimeoutSettlement(status) == IF entry.timedOut /\ status = "killed" THEN "timed_out" ELSE status

Disposed ==
  /\ run = "dispose" /\ proc' = "disposed"
  /\ IF Running
     THEN run' = "settling" /\ settleTask(coerceTimeoutSettlement(result), "none")
     ELSE run' = "over" /\ UNCHANGED <<entry, settle, told, release, pending>>
  /\ UNCHANGED <<opts, aborted, result, terms, bash, waiter, chunks, file, builder, mute, first, bent>>

RunEnds ==
  /\ run = "settling" /\ settle = "done" /\ run' = "over"
  /\ UNCHANGED <<opts, entry, aborted, proc, result, terms, Ends, Output, first, bent>>

----------------------------------------------------------------------------
(* terminateWithGrace.                                                     *)

Abort(b, e) ==
  /\ entry' = [e EXCEPT !.timer = "none", !.timedOut = @ \/ b \in Timeouts, !.reason = IF b \in Timeouts THEN "none" ELSE b]
  /\ aborted' = TRUE /\ terms' = [terms EXCEPT ![b] = "grace"]
  /\ first' = IF first = "none" THEN b ELSE first

\* stop, stopByUser and the abort of the turn, which only a foreground task hears.
terminateWithGrace(b) ==
  /\ b \in Stops /\ (b = "signal" => entry.fg)
  /\ Running /\ terms[b] = "no" /\ Abort(b, entry)
  /\ UNCHANGED <<opts, Process, Ends, Output, bent>>

Final(b) == IF b \in Timeouts THEN "timed_out" ELSE "killed"

\* The end of start() or of the grace, whichever comes first.
GraceOver(b) ==
  /\ terms[b] = "grace"
  /\ IF Running /\ run = "over" THEN terms' = [terms EXCEPT ![b] = "settling"] /\ settleTask(Final(b), IF b \in Timeouts THEN "none" ELSE b)
     ELSE /\ terms' = [terms EXCEPT ![b] = IF Running THEN "kill" ELSE "settling"]
          /\ UNCHANGED <<entry, settle, told, release, pending>>
  /\ UNCHANGED <<opts, aborted, Process, bash, waiter, chunks, file, builder, mute, first, bent>>

\* forceStop: SIGKILL, then the process is disposed.
forceStop(b) ==
  /\ terms[b] = "kill" /\ terms' = [terms EXCEPT ![b] = "killed"]
  /\ proc' = IF proc = "alive" THEN "bad" ELSE proc
  /\ UNCHANGED <<opts, entry, aborted, run, result, Ends, Output, first, bent>>

ForcedSettle(b) ==
  /\ terms[b] = "killed" /\ terms' = [terms EXCEPT ![b] = "settling"] /\ proc' = "disposed"
  /\ IF Running THEN settleTask(Final(b), IF b \in Timeouts THEN "none" ELSE b)
     ELSE UNCHANGED <<entry, settle, told, release, pending>>
  /\ UNCHANGED <<opts, aborted, run, result, bash, waiter, chunks, file, builder, mute, first, bent>>

TermReturns(b) ==
  /\ terms[b] = "settling" /\ settle = "done" /\ terms' = [terms EXCEPT ![b] = "done"]
  /\ UNCHANGED <<opts, entry, aborted, Process, Ends, Output, first, bent>>

----------------------------------------------------------------------------
(* Detaching and the timeout.                                              *)

\* startOutputPersist
startOutputPersist ==
  /\ file' = IF entry.persisting THEN file ELSE file \o pending
  /\ pending' = <<>>

detachEntry(how, e) ==
  /\ entry' = [e EXCEPT !.fg = FALSE, !.timer = IF opts.rearm THEN "detachTimeout" ELSE @, !.persisting = TRUE]
  /\ startOutputPersist
  /\ told' = Append(told, "started") /\ release' = how
  /\ bent' = (bent \/ first # "none")

detach ==
  /\ Running /\ entry.fg /\ detachEntry("detached", entry)
  /\ UNCHANGED <<opts, aborted, Process, terms, settle, bash, waiter, chunks, builder, mute, first>>

\* armManagerTimeout's callback.
TimerFires ==
  /\ entry.timer # "none"
  /\ IF opts.auto /\ entry.fg
     THEN /\ detachEntry("timeout_detached", [entry EXCEPT !.timer = "none"])
          /\ UNCHANGED <<aborted, terms, settle, bash, waiter, chunks, builder, mute, first>>
     ELSE /\ Abort(entry.timer, entry)
          /\ UNCHANGED <<Ends, Output, bent>>
  /\ UNCHANGED <<opts, Process>>

----------------------------------------------------------------------------
(* Output, and those who wait.                                             *)

\* appendOutput; the tool's own collector stops at the abort.
appendOutput ==
  LET c == chunks + 1
      trips == ~entry.tripped /\ c > LimitChunks
      full == ~entry.persisting /\ Len(pending) + 1 > PendingChunks
  IN /\ proc # "disposed" /\ chunks < MaxChunks
     /\ chunks' = c
     /\ IF trips /\ Running
        THEN Abort("limit", [entry EXCEPT !.tripped = TRUE])
        ELSE /\ entry' = [entry EXCEPT !.tripped = @ \/ trips, !.persisting = @ \/ (full /\ ~entry.tripped)]
             /\ UNCHANGED <<aborted, terms, first>>
     /\ IF entry.tripped \/ trips THEN UNCHANGED <<pending, file>>
        ELSE IF entry.persisting THEN file' = Append(file, c) /\ UNCHANGED pending
        ELSE IF full THEN file' = file \o Append(pending, c) /\ pending' = <<>>
        ELSE pending' = Append(pending, c) /\ UNCHANGED file
     /\ mute' = IF aborted \/ trips THEN mute \cup {c} ELSE mute
     /\ builder' = IF bash = "waiting" /\ ~aborted /\ ~trips THEN Append(builder, c) ELSE builder
     /\ UNCHANGED <<opts, Process, Ends, bent>>

\* The builder is full: the output goes to the file from now on.
persistOutput ==
  /\ bash = "waiting" /\ ~entry.persisting /\ builder # <<>> /\ Running
  /\ entry' = [entry EXCEPT !.persisting = TRUE] /\ startOutputPersist
  /\ UNCHANGED <<opts, aborted, Process, terms, Ends, chunks, builder, mute, first, bent>>

\* The Bash tool hears of the release, or of the end of start().
waitForForegroundRelease ==
  /\ bash = "waiting"
  /\ \/ release \in {"detached", "timeout_detached"} /\ bash' = "background"
     \/ release # "detached" /\ release # "timeout_detached" /\ (release = "terminal" \/ run = "over")
          /\ settle # "write" /\ bash' = "result"
  /\ UNCHANGED <<opts, entry, aborted, Process, terms, settle, release, waiter, Output, told, first, bent>>

wait ==
  /\ waiter = "none" /\ waiter' = "waiting"
  /\ UNCHANGED <<opts, entry, aborted, Process, terms, settle, release, bash, Output, told, first, bent>>

WaiterWoken ==
  /\ waiter = "waiting" /\ settle = "done" /\ waiter' = "returned"
  /\ UNCHANGED <<opts, entry, aborted, Process, terms, settle, release, bash, Output, told, first, bent>>

Finished == settle = "done" /\ run = "over" /\ bash # "waiting" /\ UNCHANGED vars

Own == ProcessExits("bad") \/ WaitReturns \/ StreamsDrained(FALSE) \/ Disposed \/ RunEnds \/ SettleWritten
Stopping(b) == GraceOver(b) \/ forceStop(b) \/ ForcedSettle(b) \/ TermReturns(b)

Next ==
  \/ Own \/ ProcessExits("ok") \/ StreamsDrained(TRUE)
  \/ \E b \in Callers : terminateWithGrace(b) \/ Stopping(b)
  \/ detach \/ TimerFires \/ appendOutput \/ persistOutput
  \/ waitForForegroundRelease \/ wait \/ WaiterWoken \/ Finished

Spec == Init /\ [][Next]_vars

----------------------------------------------------------------------------
Upto(n) == [i \in 1 .. n |-> i]
Elements(s) == {s[i] : i \in 1 .. Len(s)}

(* The end of a task is told exactly once and to the right one: a task     *)
(* that was still in the foreground when it ended through the result of    *)
(* its tool call, a detached one through TaskTerminated after TaskStarted; *)
(* detach, timeouts and stops race with the end.                           *)
ToldOnce ==
  /\ told \in {<<>>, <<"started">>, <<"started", "terminated">>}
  /\ bash = "result" => told = <<>> /\ ~Running
  /\ settle = "done" => (told = <<>>) = entry.fg /\ told # <<"started">>
  /\ bash = "background" => Len(told) >= 1

(* The output is whole: the file has the first chunks in order, all of     *)
(* them up to the limit for a task in the background; a chunk that is not  *)
(* in the file was given to the tool's result, unless it came after the    *)
(* stop.                                                                   *)
OutputWhole ==
  /\ file = Upto(Len(file))
  /\ ~entry.fg => Len(file) = IF chunks < LimitChunks THEN chunks ELSE LimitChunks
  /\ \A c \in 1 .. chunks : c \in Elements(file) \cup Elements(builder) \cup Elements(pending) \cup mute

(* The outcome is honest: killed only when somebody asked for it, with the *)
(* reason; timed out only after the timeout, and not after a stop that     *)
(* came first, unless the task was detached during the stop's grace        *)
(* (applyDetachTimeout arms the timer again); completed only by itself.    *)
OutcomeHonest ==
  /\ entry.status = "killed" => \E b \in Stoppers : terms[b] # "no" /\ entry.reason = b
  /\ entry.status = "timed_out" => (\E b \in Timeouts : terms[b] # "no") /\ (first \in Stoppers => bent)

(* A task that has ended has left no process behind.                       *)
NoProcessLeft == ~Running => proc # "alive"

(* The end of a process task is told once and to the right one, with the   *)
(* true outcome, the whole output and no process left, however detach,     *)
(* timeouts and stops race with it.                                        *)
EndIsTrue == TypeOK /\ ToldOnce /\ OutcomeHonest /\ OutputWhole /\ NoProcessLeft

=============================================================================
