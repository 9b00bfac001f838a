------------------------ MODULE TaskLifecycleProofs ------------------------
(***************************************************************************)
(* The end of a process task, for any amount of output and any limits:     *)
(* four invariants, of which the later ones rest on the earlier: what has  *)
(* happened when the task is settled (ControlOK), who is to blame for its  *)
(* end (BlameOK), who hears of it (TellingOK), and where its output is     *)
(* (OutputOK).                                                             *)
(***************************************************************************)
EXTENDS TaskLifecycle, SequenceTheorems, TLAPS

Entries ==
  [status : Statuses, reason : Stoppers \cup {"none"}, fg : BOOLEAN, timer : Timeouts \cup {"none"},
   timedOut : BOOLEAN, persisting : BOOLEAN, tripped : BOOLEAN]

\* A task is settled only after its process is gone, and a settled task has no
\* timer left; start() ends with the task.
ControlOK ==
  /\ opts \in [detached : BOOLEAN, auto : BOOLEAN, rearm : BOOLEAN]
  /\ entry \in Entries /\ aborted \in BOOLEAN /\ bent \in BOOLEAN
  /\ proc \in {"alive", "ok", "bad", "disposed"}
  /\ run \in {"wait", "drain", "dispose", "settling", "over"}
  /\ result \in {"running", "completed", "failed", "killed"}
  /\ terms \in [Callers -> {"no", "grace", "kill", "killed", "settling", "done"}]
  /\ settle \in {"no", "write", "done"} /\ (settle = "no" <=> Running)
  /\ first \in Callers \cup {"none"} /\ (aborted <=> first # "none")
  /\ entry.timer # "none" => Running
  /\ ~Running => proc = "disposed"
  /\ run \in {"settling", "over"} => ~Running
  /\ run # "wait" => result # "running"

\* Until it is settled, an aborted task knows whether a timeout or whom to
\* blame; the timer is armed after a stop only by a detach.
BlameOK ==
  /\ entry.timedOut <=> \E b \in Timeouts : terms[b] # "no"
  /\ entry.timedOut => aborted /\ (first \in Stoppers => bent)
  /\ Running /\ aborted /\ ~entry.timedOut => entry.reason \in Stoppers /\ terms[entry.reason] # "no"
  /\ first # "none" /\ entry.timer # "none" => bent
  /\ result = "killed" => aborted
  /\ OutcomeHonest

\* A task in the foreground is told by its tool call alone.
TellingOK ==
  /\ entry.fg => told = <<>>
  /\ ~entry.fg => told = IF settle = "done" THEN <<"started", "terminated">> ELSE <<"started">>
  /\ release \in {"none", "detached", "timeout_detached", "terminal"}
  /\ release = "terminal" => entry.fg /\ settle = "done"
  /\ release \in {"detached", "timeout_detached"} => ~entry.fg
  /\ bash \in {"waiting", "result", "background"}
  /\ release = "none" /\ bash = "waiting" => entry.fg
  /\ bash = "result" => entry.fg /\ ~Running
  /\ bash = "background" => ~entry.fg

Least(m, n) == IF m < n THEN m ELSE n

\* The file, once there is one, has everything up to the limit; until then all
\* of it is pending, and everything said before the stop is in the builder.
OutputOK ==
  /\ chunks \in Nat
  /\ pending \in Seq(Nat) /\ file \in Seq(Nat) /\ builder \in Seq(Nat)
  /\ entry.tripped <=> chunks > LimitChunks
  /\ entry.tripped => aborted
  /\ entry.persisting => pending = <<>> /\ file = Upto(Least(chunks, LimitChunks))
  /\ ~entry.persisting =>
       /\ entry.fg /\ file = <<>> /\ chunks <= PendingChunks
       /\ Running => pending = Upto(chunks)
       /\ \A c \in 1 .. chunks : c \in Elements(builder) \cup mute
  /\ \A c \in 1 .. chunks : c > LimitChunks => c \in mute

----------------------------------------------------------------------------
(* Building blocks.                                                        *)

\* settleTask: the end is written to the file first, if there is one.
LEMMA SettleTaskEffect ==
  ASSUME entry \in Entries, NEW status \in Statuses, NEW reason \in Stoppers \cup {"none"},
         settleTask(status, reason)
  PROVE  /\ entry' \in Entries /\ entry'.status = status /\ entry'.timer = "none"
         /\ entry'.fg = entry.fg /\ entry'.timedOut = entry.timedOut
         /\ entry'.persisting = entry.persisting /\ entry'.tripped = entry.tripped
         /\ entry'.reason = IF reason # "none" THEN reason ELSE IF status = "killed" THEN entry.reason ELSE "none"
         /\ \/ entry.persisting /\ settle' = "write" /\ UNCHANGED <<told, release, pending>>
            \/ ~entry.persisting /\ settle' = "done" /\ pending' = <<>> /\ SettleEffects(entry.fg)
BY DEF settleTask, Entries, Stoppers, Timeouts, Statuses

\* The first half of terminateWithGrace.
LEMMA AbortEffect ==
  ASSUME entry \in Entries, terms \in [Callers -> {"no", "grace", "kill", "killed", "settling", "done"}],
         NEW b \in Callers, NEW e \in Entries, Abort(b, e)
  PROVE  /\ entry' \in Entries /\ entry'.status = e.status /\ entry'.timer = "none"
         /\ entry'.fg = e.fg /\ entry'.persisting = e.persisting /\ entry'.tripped = e.tripped
         /\ b \in Timeouts => entry'.timedOut /\ entry'.reason = "none"
         /\ b \notin Timeouts => entry'.timedOut = e.timedOut /\ entry'.reason = b
         /\ aborted' = TRUE /\ first' = IF first = "none" THEN b ELSE first
         /\ terms' \in [Callers -> {"no", "grace", "kill", "killed", "settling", "done"}]
         /\ terms'[b] = "grace" /\ \A c \in Callers \ {b} : terms'[c] = terms[c]
<1>1. /\ entry' = [e EXCEPT !.timer = "none", !.timedOut = @ \/ b \in Timeouts,
                            !.reason = IF b \in Timeouts THEN "none" ELSE b]
      /\ aborted' = TRUE /\ terms' = [terms EXCEPT ![b] = "grace"]
      /\ first' = IF first = "none" THEN b ELSE first
  BY DEF Abort
<1>2. CASE b \in Timeouts
  <2>1. entry' = [e EXCEPT !.timer = "none", !.timedOut = TRUE, !.reason = "none"]
    BY <1>1, <1>2
  <2> QED
    BY <1>1, <1>2, <2>1 DEF Entries
<1>3. CASE b \notin Timeouts
  <2>1. entry' = [e EXCEPT !.timer = "none", !.timedOut = e.timedOut, !.reason = b] /\ b \in Stoppers
    BY <1>1, <1>3 DEF Entries, Callers
  <2> QED
    BY <1>1, <1>3, <2>1 DEF Entries
<1> QED
  BY <1>2, <1>3

\* An abort leaves status, place and output of the task alone.
LEMMA AbortKeeps ==
  ASSUME entry \in Entries, terms \in [Callers -> {"no", "grace", "kill", "killed", "settling", "done"}],
         NEW b \in Callers, Abort(b, entry)
  PROVE  /\ entry'.fg = entry.fg /\ entry'.status = entry.status
         /\ entry'.persisting = entry.persisting /\ entry'.tripped = entry.tripped
<1>1. \E t, r : entry' = [entry EXCEPT !.timer = "none", !.timedOut = t, !.reason = r]
  BY DEF Abort
<1> QED
  BY <1>1 DEF Entries

\* The task leaves the foreground.
LEMMA DetachEffect ==
  ASSUME NEW how, NEW e \in Entries, opts \in [detached : BOOLEAN, auto : BOOLEAN, rearm : BOOLEAN],
         detachEntry(how, e)
  PROVE  /\ entry' \in Entries /\ entry'.status = e.status /\ ~entry'.fg /\ entry'.persisting
         /\ entry'.reason = e.reason /\ entry'.timedOut = e.timedOut /\ entry'.tripped = e.tripped
         /\ entry'.timer \in {e.timer, "detachTimeout"}
         /\ startOutputPersist /\ told' = Append(told, "started") /\ release' = how
         /\ bent' = (bent \/ first # "none")
BY DEF detachEntry, Entries, Timeouts

----------------------------------------------------------------------------
(* What has happened when the task is settled.                             *)

LEMMA ControlInit == Init => ControlOK
<1> SUFFICES ASSUME Init PROVE ControlOK
  OBVIOUS
<1>1. entry \in Entries /\ entry.status = "running"
  <2>1. opts.detached \in BOOLEAN /\ (~opts.detached) \in BOOLEAN
    BY DEF Init
  <2>2. PICK fg \in BOOLEAN, persisting \in BOOLEAN :
          entry = [status |-> "running", reason |-> "none", fg |-> fg, timer |-> "timeout",
                   timedOut |-> FALSE, persisting |-> persisting, tripped |-> FALSE]
    BY <2>1 DEF Init
  <2> QED
    BY <2>2 DEF Entries, Statuses, Stoppers, Timeouts
<1> QED
  BY <1>1 DEF Init, ControlOK, Running, Callers

\* An abort, a detach and a settlement keep what ControlOK says.
LEMMA AbortedControl ==
  ASSUME ControlOK, NEW b \in Callers, NEW e \in Entries, e.status = entry.status, Running, Abort(b, e),
         UNCHANGED <<opts, proc, run, result, settle, bent>>
  PROVE  ControlOK'
<1>1. /\ entry' \in Entries /\ entry'.status = "running" /\ entry'.timer = "none" /\ aborted' = TRUE
      /\ first' = IF first = "none" THEN b ELSE first
      /\ terms' \in [Callers -> {"no", "grace", "kill", "killed", "settling", "done"}]
  BY AbortEffect, ZenonT(60) DEF ControlOK, Running
<1>2. first' \in Callers \cup {"none"} /\ first' # "none"
  BY <1>1 DEF ControlOK, Callers, Stoppers, Timeouts
<1> QED
  BY <1>1, <1>2 DEF ControlOK, Running

LEMMA DetachedControl ==
  ASSUME ControlOK, NEW how, NEW e \in Entries, e.status = entry.status, Running, detachEntry(how, e),
         UNCHANGED <<opts, aborted, proc, run, result, terms, settle, first>>
  PROVE  ControlOK'
<1>1. entry' \in Entries /\ entry'.status = "running" /\ bent' = (bent \/ first # "none")
  BY DetachEffect DEF ControlOK, Running
<1>2. bent' \in BOOLEAN
  BY <1>1
<1> QED
  BY <1>1, <1>2 DEF ControlOK, Running

LEMMA SettledControl ==
  ASSUME ControlOK, NEW status \in Statuses \ {"running"}, NEW reason \in Stoppers \cup {"none"},
         settleTask(status, reason), proc' = "disposed",
         run' \in {"wait", "drain", "dispose", "settling", "over"}, run' # "wait" => result # "running",
         terms' \in [Callers -> {"no", "grace", "kill", "killed", "settling", "done"}],
         UNCHANGED <<opts, aborted, result, first, bent>>
  PROVE  ControlOK'
<1>1. entry' \in Entries /\ entry'.status = status /\ entry'.timer = "none" /\ settle' \in {"write", "done"}
  BY SettleTaskEffect DEF ControlOK
<1> QED
  BY <1>1 DEF ControlOK, Running

\* A chunk trips the limit of a running task, or only fills its buffers.
LEMMA AppendEntry ==
  ASSUME entry \in Entries, appendOutput
  PROVE  \/ Running /\ Abort("limit", [entry EXCEPT !.tripped = TRUE])
         \/ UNCHANGED <<aborted, terms, first>>
            /\ \E t, p \in BOOLEAN : entry' = [entry EXCEPT !.tripped = t, !.persisting = p]
<1> DEFINE trips == ~entry.tripped /\ chunks + 1 > LimitChunks
           full == ~entry.persisting /\ Len(pending) + 1 > PendingChunks
<1>1. IF trips /\ Running
      THEN Abort("limit", [entry EXCEPT !.tripped = TRUE])
      ELSE /\ entry' = [entry EXCEPT !.tripped = @ \/ trips, !.persisting = @ \/ (full /\ ~entry.tripped)]
           /\ UNCHANGED <<aborted, terms, first>>
  BY DEF appendOutput
<1>2. (entry.tripped \/ trips) \in BOOLEAN /\ (entry.persisting \/ (full /\ ~entry.tripped)) \in BOOLEAN
  BY Zenon
<1>3. entry.tripped \in BOOLEAN /\ entry.persisting \in BOOLEAN
  BY DEF Entries
<1>4. [entry EXCEPT !.tripped = @ \/ trips, !.persisting = @ \/ (full /\ ~entry.tripped)]
      = [entry EXCEPT !.tripped = entry.tripped \/ trips, !.persisting = entry.persisting \/ (full /\ ~entry.tripped)]
  BY Zenon
<1> HIDE DEF trips, full
<1> QED
  BY <1>1, <1>2, <1>4

LEMMA ControlStep ==
  ASSUME ControlOK, [Next]_vars
  PROVE  ControlOK'
<1> USE DEF ControlOK, Running
<1>1. CASE \E code \in {"ok", "bad"} : ProcessExits(code)
  BY <1>1 DEF ProcessExits, Ends, Output
<1>2. CASE WaitReturns \/ (\E x \in BOOLEAN : StreamsDrained(x)) \/ RunEnds
  BY <1>2 DEF WaitReturns, StreamsDrained, RunEnds, Ends, Output
<1>3. CASE Disposed
  <2>1. proc' = "disposed" /\ UNCHANGED <<opts, aborted, result, terms, first, bent>>
    BY <1>3 DEF Disposed
  <2>2. CASE Running
    <3>1. run = "dispose" /\ run' = "settling" /\ settleTask(coerceTimeoutSettlement(result), "none")
      BY <1>3, <2>2 DEF Disposed
    <3>2. coerceTimeoutSettlement(result) \in Statuses \ {"running"}
      BY <3>1 DEF coerceTimeoutSettlement, Statuses
    <3> QED
      BY <2>1, <3>1, <3>2, SettledControl
  <2>3. CASE ~Running
    <3>1. run = "dispose" /\ run' = "over" /\ UNCHANGED <<entry, settle>>
      BY <1>3, <2>3 DEF Disposed
    <3> QED
      BY <2>1, <2>3, <3>1
  <2> QED
    BY <2>2, <2>3
<1>4. CASE SettleWritten \/ waitForForegroundRelease \/ wait \/ WaiterWoken
  BY <1>4 DEF SettleWritten, waitForForegroundRelease, wait, WaiterWoken, Process, Ends, Output
<1>5. CASE \E b \in Callers : terminateWithGrace(b)
  <2>1. PICK b \in Callers : terminateWithGrace(b)
    BY <1>5
  <2>2. Running /\ Abort(b, entry) /\ UNCHANGED <<opts, proc, run, result, settle, bent>>
    BY <2>1 DEF terminateWithGrace, Process, Ends
  <2> QED
    BY <2>2, AbortedControl
<1>6. CASE \E b \in Callers : GraceOver(b)
  <2>1. PICK b \in Callers : GraceOver(b)
    BY <1>6
  <2>2. \/ terms' = [terms EXCEPT ![b] = "kill"]
        \/ terms' = [terms EXCEPT ![b] = "settling"]
    BY <2>1 DEF GraceOver
  <2>3. UNCHANGED <<opts, entry, aborted, proc, run, result, settle, first, bent>>
    BY <2>1 DEF GraceOver, Process
  <2> QED
    BY <2>2, <2>3
<1>7. CASE \E b \in Callers : forceStop(b) \/ TermReturns(b)
  BY <1>7 DEF forceStop, TermReturns, Process, Ends, Output
<1>8. CASE \E b \in Callers : ForcedSettle(b)
  <2>1. PICK b \in Callers : ForcedSettle(b)
    BY <1>8
  <2>2. proc' = "disposed" /\ UNCHANGED <<opts, aborted, run, result, first, bent>>
    BY <2>1 DEF ForcedSettle
  <2>3. terms' \in [Callers -> {"no", "grace", "kill", "killed", "settling", "done"}]
    BY <2>1 DEF ForcedSettle
  <2>4. CASE Running
    <3>1. Final(b) \in Statuses \ {"running"} /\ (IF b \in Timeouts THEN "none" ELSE b) \in Stoppers \cup {"none"}
      BY DEF Final, Statuses, Callers
    <3>2. settleTask(Final(b), IF b \in Timeouts THEN "none" ELSE b)
      BY <2>1, <2>4 DEF ForcedSettle
    <3> QED
      BY <2>2, <2>3, <3>1, <3>2, SettledControl
  <2>5. CASE ~Running
    <3>1. UNCHANGED <<entry, settle>>
      BY <2>1, <2>5 DEF ForcedSettle
    <3> QED
      BY <2>2, <2>3, <2>5, <3>1
  <2> QED
    BY <2>4, <2>5
<1>9. CASE detach
  <2>1. detachEntry("detached", entry) /\ Running
        /\ UNCHANGED <<opts, aborted, proc, run, result, terms, settle, first>>
    BY <1>9 DEF detach, Process
  <2> QED
    BY <2>1, DetachedControl
<1>10. CASE TimerFires
  <2>1. Running /\ entry.timer \in Timeouts /\ UNCHANGED <<opts, proc, run, result>>
    BY <1>10 DEF TimerFires, Process, Entries
  <2>2. CASE opts.auto /\ entry.fg
    <3> DEFINE e == [entry EXCEPT !.timer = "none"]
    <3>1. detachEntry("timeout_detached", e) /\ UNCHANGED <<aborted, terms, settle, first>>
      BY <1>10, <2>2 DEF TimerFires
    <3>2. e \in Entries /\ e.status = entry.status
      BY DEF Entries
    <3> HIDE DEF e
    <3> QED
      BY <2>1, <3>1, <3>2, DetachedControl
  <2>3. CASE ~(opts.auto /\ entry.fg)
    <3>1. Abort(entry.timer, entry) /\ UNCHANGED <<settle, bent>> /\ entry.timer \in Callers
      BY <1>10, <2>1, <2>3 DEF TimerFires, Ends, Callers
    <3> QED
      BY <2>1, <3>1, AbortedControl
  <2> QED
    BY <2>2, <2>3
<1>11. CASE appendOutput
  <2>1. UNCHANGED <<opts, proc, run, result, settle, bent>>
    BY <1>11 DEF appendOutput, Process, Ends
  <2>2. CASE Running /\ Abort("limit", [entry EXCEPT !.tripped = TRUE])
    <3> DEFINE e == [entry EXCEPT !.tripped = TRUE]
    <3>1. e \in Entries /\ e.status = entry.status /\ "limit" \in Callers
      BY DEF Entries, Callers, Stoppers
    <3>2. Abort("limit", e)
      BY <2>2
    <3> HIDE DEF e
    <3> QED
      BY <2>1, <2>2, <3>1, <3>2, AbortedControl
  <2>3. CASE UNCHANGED <<aborted, terms, first>>
             /\ \E t, p \in BOOLEAN : entry' = [entry EXCEPT !.tripped = t, !.persisting = p]
    <3>1. entry' \in Entries /\ entry'.status = entry.status /\ entry'.timer = entry.timer
      BY <2>3 DEF Entries
    <3> QED
      BY <2>1, <2>3, <3>1
  <2> QED
    BY <1>11, <2>2, <2>3, AppendEntry
<1>12. CASE persistOutput
  <2>1. entry' = [entry EXCEPT !.persisting = TRUE]
        /\ UNCHANGED <<opts, aborted, proc, run, result, terms, settle, first, bent>>
    BY <1>12 DEF persistOutput, Process, Ends
  <2>2. entry' \in Entries /\ entry'.status = entry.status /\ entry'.timer = entry.timer
    BY <2>1 DEF Entries
  <2> QED
    BY <2>1, <2>2
<1>13. CASE UNCHANGED vars
  BY <1>13 DEF vars, Process, Ends, Output
<1> QED
  BY <1>1, <1>2, <1>3, <1>4, <1>5, <1>6, <1>7, <1>8, <1>9, <1>10, <1>11, <1>12, <1>13
     DEF Next, Own, Stopping, Finished

----------------------------------------------------------------------------
(* Who is to blame for the end.                                            *)

LEMMA BlameInit == Init => BlameOK
<1> SUFFICES ASSUME Init PROVE BlameOK
  OBVIOUS
<1>1. /\ entry.status = "running" /\ entry.timedOut = FALSE
      /\ aborted = FALSE /\ result = "running" /\ first = "none"
  BY DEF Init
<1>2. \A b \in Callers : terms[b] = "no"
  BY DEF Init
<1> QED
  BY <1>1, <1>2 DEF BlameOK, OutcomeHonest, Running, Callers

\* A step that neither aborts, detaches nor settles.
LEMMA QuietBlame ==
  ASSUME BlameOK,
         entry'.status = entry.status, entry'.reason = entry.reason,
         entry'.timedOut = entry.timedOut, entry'.timer = entry.timer,
         \A b \in Callers : terms'[b] # "no" <=> terms[b] # "no",
         UNCHANGED <<aborted, first, bent>>, entry.reason \in Stoppers \cup {"none"},
         result' = "killed" => aborted
  PROVE  BlameOK'
BY DEF BlameOK, OutcomeHonest, Running, Callers

LEMMA AbortedBlame ==
  ASSUME ControlOK, BlameOK, NEW b \in Callers, NEW e \in Entries,
         e.status = entry.status, e.timedOut = entry.timedOut, Running, Abort(b, e),
         b \in Timeouts => first = "none" \/ bent, UNCHANGED <<result, bent>>
  PROVE  BlameOK'
<1>1. /\ entry'.status = "running" /\ entry'.timer = "none"
      /\ b \in Timeouts => entry'.timedOut /\ entry'.reason = "none"
      /\ b \notin Timeouts => entry'.timedOut = entry.timedOut /\ entry'.reason = b
      /\ aborted' = TRUE /\ first' = IF first = "none" THEN b ELSE first
      /\ terms'[b] = "grace" /\ \A c \in Callers \ {b} : terms'[c] = terms[c]
  BY AbortEffect, ZenonT(60) DEF ControlOK, Running
<1>2. entry'.timedOut <=> \E c \in Timeouts : terms'[c] # "no"
  BY <1>1 DEF BlameOK, Callers
<1>3. entry'.timedOut => (first' \in Stoppers => bent)
  <2>1. first # "none" => first' = first
    BY <1>1
  <2>2. first = "none" => ~aborted /\ first' = b /\ ~entry.timedOut
    BY <1>1 DEF ControlOK, BlameOK
  <2>3. b \in Timeouts => b \notin Stoppers
    BY DEF Timeouts, Stoppers
  <2> QED
    BY <1>1, <2>1, <2>2, <2>3 DEF BlameOK
<1>4. ~entry'.timedOut => entry'.reason \in Stoppers /\ terms'[entry'.reason] # "no"
  BY <1>1 DEF Callers
<1> QED
  BY <1>1, <1>2, <1>3, <1>4 DEF BlameOK, OutcomeHonest, Running

LEMMA DetachedBlame ==
  ASSUME ControlOK, BlameOK, NEW how, NEW e \in Entries,
         e.status = entry.status, e.timedOut = entry.timedOut, e.reason = entry.reason, Running, detachEntry(how, e),
         UNCHANGED <<aborted, result, terms, first>>
  PROVE  BlameOK'
<1>1. /\ entry'.status = "running" /\ entry'.reason = entry.reason /\ entry'.timedOut = entry.timedOut
      /\ bent' = (bent \/ first # "none")
  BY DetachEffect DEF ControlOK, Running
<1>2. (bent => bent') /\ (first # "none" => bent')
  BY <1>1
<1> QED
  BY <1>1, <1>2 DEF BlameOK, OutcomeHonest, Running

LEMMA SettledBlame ==
  ASSUME ControlOK, BlameOK, NEW status \in Statuses \ {"running"}, NEW reason \in Stoppers \cup {"none"},
         settleTask(status, reason),
         status = "killed" => \E b \in Stoppers : /\ terms[b] # "no"
                                                  /\ b = IF reason # "none" THEN reason ELSE entry.reason,
         status = "timed_out" => entry.timedOut,
         \A b \in Callers : terms'[b] # "no" <=> terms[b] # "no",
         UNCHANGED <<aborted, result, first, bent>>
  PROVE  BlameOK'
<1>1. /\ entry'.status = status /\ entry'.timer = "none" /\ entry'.timedOut = entry.timedOut
      /\ entry'.reason = IF reason # "none" THEN reason ELSE IF status = "killed" THEN entry.reason ELSE "none"
  BY SettleTaskEffect DEF ControlOK
<1>2. status = "killed" => \E b \in Stoppers : terms'[b] # "no" /\ entry'.reason = b
  BY <1>1 DEF Callers
<1>3. status = "timed_out" => (\E b \in Timeouts : terms'[b] # "no") /\ (first' \in Stoppers => bent')
  BY <1>1 DEF BlameOK, Callers
<1> QED
  BY <1>1, <1>2, <1>3 DEF BlameOK, OutcomeHonest, Running, Callers

LEMMA BlameStep ==
  ASSUME TaskAssumption, ControlOK, BlameOK, [Next]_vars
  PROVE  BlameOK'
<1> DEFINE Quiet == /\ entry'.status = entry.status /\ entry'.reason = entry.reason
                    /\ entry'.timedOut = entry.timedOut /\ entry'.timer = entry.timer
                    /\ \A b \in Callers : terms'[b] # "no" <=> terms[b] # "no"
                    /\ UNCHANGED <<aborted, first, bent>>
                    /\ result' = "killed" => aborted
<1>0. Quiet => BlameOK'
  BY QuietBlame DEF ControlOK, Entries
<1>1. CASE \/ \E code \in {"ok", "bad"} : ProcessExits(code)
           \/ SettleWritten \/ waitForForegroundRelease \/ wait \/ WaiterWoken \/ RunEnds \/ UNCHANGED vars
  <2>1. UNCHANGED <<entry, aborted, terms, result, first, bent>>
    BY <1>1 DEF ProcessExits, SettleWritten, waitForForegroundRelease, wait, WaiterWoken, RunEnds,
                Process, Ends, Output, vars
  <2> QED
    BY <1>0, <2>1 DEF BlameOK
<1>2. CASE WaitReturns \/ (\E x \in BOOLEAN : StreamsDrained(x))
  <2>1. UNCHANGED <<entry, aborted, terms, first, bent>> /\ (result' = "killed" => aborted)
    BY <1>2 DEF WaitReturns, StreamsDrained, BlameOK
  <2> QED
    BY <1>0, <2>1
<1>3. CASE Disposed
  <2>1. UNCHANGED <<aborted, result, terms, first, bent>>
    BY <1>3 DEF Disposed
  <2>2. CASE Running
    <3> DEFINE status == coerceTimeoutSettlement(result)
    <3>1. run = "dispose" /\ settleTask(status, "none")
      BY <1>3, <2>2 DEF Disposed
    <3>2. status \in Statuses \ {"running"}
      BY <3>1 DEF coerceTimeoutSettlement, Statuses, ControlOK
    <3>3. status = "timed_out" => entry.timedOut
      BY DEF coerceTimeoutSettlement, ControlOK
    <3>4. status = "killed" => entry.reason \in Stoppers /\ terms[entry.reason] # "no"
      BY <2>2 DEF coerceTimeoutSettlement, BlameOK
    <3> HIDE DEF status
    <3> QED
      BY <2>1, <3>1, <3>2, <3>3, <3>4, SettledBlame
  <2>3. CASE ~Running
    <3>1. UNCHANGED entry
      BY <1>3, <2>3 DEF Disposed
    <3> QED
      BY <1>0, <2>1, <3>1 DEF BlameOK
  <2> QED
    BY <2>2, <2>3
<1>4. CASE \E b \in Callers : terminateWithGrace(b)
  <2>1. PICK b \in Callers : terminateWithGrace(b)
    BY <1>4
  <2>2. Running /\ Abort(b, entry) /\ UNCHANGED <<result, bent>> /\ b \notin Timeouts
    BY <2>1 DEF terminateWithGrace, Process, TaskAssumption, Stoppers, Timeouts
  <2> QED
    BY <2>2, AbortedBlame DEF ControlOK
<1>5. CASE \E b \in Callers : GraceOver(b) \/ forceStop(b) \/ TermReturns(b)
  <2>1. PICK b \in Callers : GraceOver(b) \/ forceStop(b) \/ TermReturns(b)
    BY <1>5
  <2>2. terms[b] # "no" /\ \E t \in {"kill", "killed", "settling", "done"} : terms' = [terms EXCEPT ![b] = t]
    BY <2>1 DEF GraceOver, forceStop, TermReturns
  <2>3. UNCHANGED <<entry, aborted, result, first, bent>>
    BY <2>1 DEF GraceOver, forceStop, TermReturns, Process, Ends, Output, ControlOK
  <2>4. \A c \in Callers : terms'[c] # "no" <=> terms[c] # "no"
    BY <2>2 DEF ControlOK
  <2> QED
    BY <1>0, <2>3, <2>4 DEF BlameOK
<1>6. CASE \E b \in Callers : ForcedSettle(b)
  <2>1. PICK b \in Callers : ForcedSettle(b)
    BY <1>6
  <2>2. terms[b] # "no" /\ terms' = [terms EXCEPT ![b] = "settling"] /\ UNCHANGED <<aborted, result, first, bent>>
    BY <2>1 DEF ForcedSettle
  <2>3. \A c \in Callers : terms'[c] # "no" <=> terms[c] # "no"
    BY <2>2 DEF ControlOK
  <2>4. CASE Running
    <3> DEFINE reason == IF b \in Timeouts THEN "none" ELSE b
    <3>1. settleTask(Final(b), reason)
      BY <2>1, <2>4 DEF ForcedSettle
    <3>2. Final(b) \in Statuses \ {"running"} /\ reason \in Stoppers \cup {"none"}
      BY DEF Final, Statuses, Callers
    <3>3. Final(b) = "killed" => b \in Stoppers /\ b = IF reason # "none" THEN reason ELSE entry.reason
      BY DEF Final, Callers, Stoppers
    <3>4. Final(b) = "timed_out" => entry.timedOut
      BY <2>2 DEF Final, BlameOK
    <3> HIDE DEF reason
    <3> QED
      BY <2>2, <2>3, <3>1, <3>2, <3>3, <3>4, SettledBlame
  <2>5. CASE ~Running
    <3>1. UNCHANGED entry
      BY <2>1, <2>5 DEF ForcedSettle
    <3> QED
      BY <1>0, <2>2, <2>3, <3>1 DEF BlameOK
  <2> QED
    BY <2>4, <2>5
<1>7. CASE detach
  <2>1. detachEntry("detached", entry) /\ Running /\ UNCHANGED <<aborted, result, terms, first>>
    BY <1>7 DEF detach, Process
  <2> QED
    BY <2>1, DetachedBlame DEF ControlOK
<1>8. CASE TimerFires
  <2>1. Running /\ entry.timer \in Timeouts /\ UNCHANGED result
    BY <1>8 DEF TimerFires, Process, Entries, ControlOK
  <2>2. CASE opts.auto /\ entry.fg
    <3> DEFINE e == [entry EXCEPT !.timer = "none"]
    <3>1. detachEntry("timeout_detached", e) /\ UNCHANGED <<aborted, terms, first>>
      BY <1>8, <2>2 DEF TimerFires
    <3>2. e \in Entries /\ e.status = entry.status /\ e.timedOut = entry.timedOut /\ e.reason = entry.reason
      BY DEF Entries, ControlOK
    <3> HIDE DEF e
    <3> QED
      BY <2>1, <3>1, <3>2, DetachedBlame
  <2>3. CASE ~(opts.auto /\ entry.fg)
    <3>1. Abort(entry.timer, entry) /\ UNCHANGED bent /\ entry.timer \in Callers
      BY <1>8, <2>1, <2>3 DEF TimerFires, Callers
    <3>2. first = "none" \/ bent
      BY <1>8 DEF TimerFires, BlameOK
    <3> QED
      BY <2>1, <3>1, <3>2, AbortedBlame DEF ControlOK
  <2> QED
    BY <2>2, <2>3
<1>9. CASE appendOutput
  <2>1. UNCHANGED <<result, bent>>
    BY <1>9 DEF appendOutput, Process
  <2>2. CASE Running /\ Abort("limit", [entry EXCEPT !.tripped = TRUE])
    <3> DEFINE e == [entry EXCEPT !.tripped = TRUE]
    <3>1. /\ e \in Entries /\ e.status = entry.status /\ e.timedOut = entry.timedOut
          /\ "limit" \in Callers /\ "limit" \notin Timeouts
      BY DEF Entries, Callers, Stoppers, Timeouts, ControlOK
    <3>2. Abort("limit", e)
      BY <2>2
    <3> HIDE DEF e
    <3> QED
      BY <2>1, <2>2, <3>1, <3>2, AbortedBlame
  <2>3. CASE UNCHANGED <<aborted, terms, first>>
             /\ \E t, p \in BOOLEAN : entry' = [entry EXCEPT !.tripped = t, !.persisting = p]
    <3>1. /\ entry'.status = entry.status /\ entry'.reason = entry.reason
          /\ entry'.timedOut = entry.timedOut /\ entry'.timer = entry.timer
      BY <2>3 DEF Entries, ControlOK
    <3> QED
      BY <1>0, <2>1, <2>3, <3>1 DEF BlameOK
  <2> QED
    BY <1>9, <2>2, <2>3, AppendEntry DEF ControlOK
<1>10. CASE persistOutput
  <2>1. entry' = [entry EXCEPT !.persisting = TRUE] /\ UNCHANGED <<aborted, result, terms, first, bent>>
    BY <1>10 DEF persistOutput, Process
  <2>2. /\ entry'.status = entry.status /\ entry'.reason = entry.reason
        /\ entry'.timedOut = entry.timedOut /\ entry'.timer = entry.timer
    BY <2>1 DEF Entries, ControlOK
  <2> QED
    BY <1>0, <2>1, <2>2 DEF BlameOK
<1> QED
  BY <1>1, <1>2, <1>3, <1>4, <1>5, <1>6, <1>7, <1>8, <1>9, <1>10 DEF Next, Own, Stopping, Finished

----------------------------------------------------------------------------
(* Who hears of the end.                                                   *)

LEMMA TellingInit == Init => TellingOK
<1> SUFFICES ASSUME Init PROVE TellingOK
  OBVIOUS
<1>1. /\ opts.detached \in BOOLEAN /\ entry.fg = ~opts.detached /\ settle = "no" /\ release = "none"
      /\ bash = (IF opts.detached THEN "background" ELSE "waiting")
      /\ told = (IF opts.detached THEN <<"started">> ELSE <<>>)
  BY DEF Init
<1> QED
  BY <1>1 DEF TellingOK

\* Nobody is told by a step that neither settles nor detaches.
LEMMA QuietTelling ==
  ASSUME TellingOK, entry'.fg = entry.fg, entry'.status = entry.status, UNCHANGED Ends
  PROVE  TellingOK'
<1>1. UNCHANGED <<settle, release, bash, told>>
  BY DEF Ends
<1> QED
  BY <1>1 DEF TellingOK, Running

LEMMA DetachedTelling ==
  ASSUME ControlOK, TellingOK, NEW how \in {"detached", "timeout_detached"}, NEW e \in Entries,
         e.status = entry.status, Running, entry.fg, detachEntry(how, e), UNCHANGED <<settle, bash>>
  PROVE  TellingOK'
<1>1. /\ entry'.status = "running" /\ ~entry'.fg /\ told' = Append(told, "started") /\ release' = how
  BY DetachEffect DEF ControlOK, Running
<1>2. told' = <<"started">> /\ settle' = "no" /\ bash # "result"
  BY <1>1 DEF TellingOK, ControlOK
<1> QED
  BY <1>1, <1>2 DEF TellingOK, Running

\* TaskStarted, then TaskTerminated.
LEMMA StartedThenTerminated == Append(<<"started">>, "terminated") = <<"started", "terminated">>
<1> DEFINE S == {"started", "terminated"}
           r == Append(<<"started">>, "terminated")
<1>1. <<"started">> \in Seq(S) /\ Len(<<"started">>) = 1 /\ <<"started">>[1] = "started"
  OBVIOUS
<1>2. r \in Seq(S) /\ Len(r) = 2 /\ r[1] = "started" /\ r[2] = "terminated"
  BY <1>1, AppendProperties
<1>3. <<"started", "terminated">> \in Seq(S) /\ Len(<<"started", "terminated">>) = 2
  OBVIOUS
<1> HIDE DEF r
<1>4. \A i \in 1 .. Len(r) : r[i] = <<"started", "terminated">>[i]
  BY <1>2, <1>3
<1> QED
  BY <1>2, <1>3, <1>4, SeqEqual DEF r

LEMMA SettledTelling ==
  ASSUME ControlOK, TellingOK, Running, NEW status \in Statuses \ {"running"}, NEW reason \in Stoppers \cup {"none"},
         settleTask(status, reason), UNCHANGED bash
  PROVE  TellingOK'
<1>1. /\ entry'.status = status /\ entry'.fg = entry.fg
      /\ \/ settle' = "write" /\ UNCHANGED <<told, release>>
         \/ settle' = "done" /\ SettleEffects(entry.fg)
  BY SettleTaskEffect DEF ControlOK
<1>2. settle = "no"
  BY DEF ControlOK
<1>3. CASE settle' = "write" /\ UNCHANGED <<told, release>>
  BY <1>1, <1>2, <1>3 DEF TellingOK, Running
<1>4. CASE settle' = "done" /\ SettleEffects(entry.fg)
  <2>1. CASE entry.fg
    BY <1>1, <1>2, <1>4, <2>1 DEF TellingOK, Running, SettleEffects, fireTerminalEffects
  <2>2. CASE ~entry.fg
    <3>1. told = <<"started">> /\ told' = Append(told, "terminated") /\ release' = release
      BY <1>2, <1>4, <2>2 DEF TellingOK, SettleEffects, fireTerminalEffects
    <3>2. told' = <<"started", "terminated">>
      BY <3>1, StartedThenTerminated
    <3> QED
      BY <1>1, <1>2, <1>4, <2>2, <3>1, <3>2 DEF TellingOK, Running
  <2> QED
    BY <2>1, <2>2
<1> QED
  BY <1>1, <1>3, <1>4

LEMMA TellingStep ==
  ASSUME ControlOK, TellingOK, [Next]_vars
  PROVE  TellingOK'
<1>1. CASE \/ \E code \in {"ok", "bad"} : ProcessExits(code)
           \/ WaitReturns \/ (\E x \in BOOLEAN : StreamsDrained(x)) \/ RunEnds \/ UNCHANGED vars
           \/ \E b \in Callers : forceStop(b) \/ TermReturns(b)
  <2>1. UNCHANGED <<entry, Ends>>
    BY <1>1 DEF ProcessExits, WaitReturns, StreamsDrained, RunEnds, forceStop, TermReturns, Ends, Output, vars
  <2> QED
    BY <2>1, QuietTelling
<1>2. CASE SettleWritten
  <2>1. settle = "write" /\ settle' = "done" /\ SettleEffects(entry.fg) /\ UNCHANGED <<entry, bash>>
    BY <1>2 DEF SettleWritten
  <2>2. CASE entry.fg
    BY <2>1, <2>2 DEF TellingOK, Running, SettleEffects, fireTerminalEffects
  <2>3. CASE ~entry.fg
    <3>1. told = <<"started">> /\ told' = Append(told, "terminated") /\ release' = release
      BY <2>1, <2>3 DEF TellingOK, SettleEffects, fireTerminalEffects
    <3>2. told' = <<"started", "terminated">>
      BY <3>1, StartedThenTerminated
    <3> QED
      BY <2>1, <2>3, <3>1, <3>2 DEF TellingOK, Running
  <2> QED
    BY <2>2, <2>3
<1>3. CASE Disposed
  <2>1. UNCHANGED bash
    BY <1>3 DEF Disposed
  <2>2. CASE Running
    <3>1. run = "dispose" /\ settleTask(coerceTimeoutSettlement(result), "none")
      BY <1>3, <2>2 DEF Disposed
    <3>2. coerceTimeoutSettlement(result) \in Statuses \ {"running"}
      BY <3>1 DEF coerceTimeoutSettlement, Statuses, ControlOK
    <3> QED
      BY <2>1, <2>2, <3>1, <3>2, SettledTelling
  <2>3. CASE ~Running
    <3>1. UNCHANGED <<entry, settle, told, release>>
      BY <1>3, <2>3 DEF Disposed
    <3> QED
      BY <2>1, <3>1 DEF TellingOK, Running
  <2> QED
    BY <2>2, <2>3
<1>4. CASE \E b \in Callers : terminateWithGrace(b)
  <2>1. PICK b \in Callers : Abort(b, entry) /\ UNCHANGED Ends
    BY <1>4 DEF terminateWithGrace
  <2>2. entry \in Entries /\ terms \in [Callers -> {"no", "grace", "kill", "killed", "settling", "done"}]
    BY DEF ControlOK
  <2>3. entry'.fg = entry.fg /\ entry'.status = entry.status
    <3>1. PICK t, r : entry' = [entry EXCEPT !.timer = "none", !.timedOut = t, !.reason = r]
      BY <2>1 DEF Abort
    <3> QED
      BY <2>2, <3>1 DEF Entries
  <2> QED
    BY <2>1, <2>3, QuietTelling
<1>5. CASE \E b \in Callers : GraceOver(b)
  <2>1. UNCHANGED <<entry, settle, told, release, bash>>
    BY <1>5 DEF GraceOver, ControlOK
  <2> QED
    BY <2>1 DEF TellingOK, Running
<1>6. CASE \E b \in Callers : ForcedSettle(b)
  <2>1. PICK b \in Callers : ForcedSettle(b)
    BY <1>6
  <2>2. UNCHANGED bash
    BY <2>1 DEF ForcedSettle
  <2>3. CASE Running
    <3>1. Final(b) \in Statuses \ {"running"} /\ (IF b \in Timeouts THEN "none" ELSE b) \in Stoppers \cup {"none"}
      BY DEF Final, Statuses, Callers
    <3>2. settleTask(Final(b), IF b \in Timeouts THEN "none" ELSE b)
      BY <2>1, <2>3 DEF ForcedSettle
    <3> QED
      BY <2>2, <2>3, <3>1, <3>2, SettledTelling
  <2>4. CASE ~Running
    <3>1. UNCHANGED <<entry, settle, told, release>>
      BY <2>1, <2>4 DEF ForcedSettle
    <3> QED
      BY <2>2, <3>1 DEF TellingOK, Running
  <2> QED
    BY <2>3, <2>4
<1>7. CASE detach
  <2>1. detachEntry("detached", entry) /\ Running /\ entry.fg /\ UNCHANGED <<settle, bash>>
    BY <1>7 DEF detach
  <2> QED
    BY <2>1, DetachedTelling DEF ControlOK
<1>8. CASE TimerFires
  <2>1. Running /\ entry.timer \in Timeouts
    BY <1>8 DEF TimerFires, Entries, ControlOK
  <2>2. CASE opts.auto /\ entry.fg
    <3> DEFINE e == [entry EXCEPT !.timer = "none"]
    <3>1. detachEntry("timeout_detached", e) /\ UNCHANGED <<settle, bash>>
      BY <1>8, <2>2 DEF TimerFires
    <3>2. e \in Entries /\ e.status = entry.status
      BY DEF Entries, ControlOK
    <3> HIDE DEF e
    <3> QED
      BY <2>1, <2>2, <3>1, <3>2, DetachedTelling
  <2>3. CASE ~(opts.auto /\ entry.fg)
    <3>1. Abort(entry.timer, entry) /\ UNCHANGED Ends /\ entry.timer \in Callers
      BY <1>8, <2>1, <2>3 DEF TimerFires, Callers
    <3>2. entry'.fg = entry.fg /\ entry'.status = entry.status
      BY <3>1, AbortEffect DEF ControlOK
    <3> QED
      BY <3>1, <3>2, QuietTelling
  <2> QED
    BY <2>2, <2>3
<1>9. CASE appendOutput
  <2>1. UNCHANGED Ends
    BY <1>9 DEF appendOutput
  <2>2. CASE Abort("limit", [entry EXCEPT !.tripped = TRUE])
    <3> DEFINE e == [entry EXCEPT !.tripped = TRUE]
    <3>1. e \in Entries /\ e.status = entry.status /\ e.fg = entry.fg /\ "limit" \in Callers
      BY DEF Entries, Callers, Stoppers, ControlOK
    <3>2. Abort("limit", e)
      BY <2>2
    <3> HIDE DEF e
    <3>3. entry'.fg = entry.fg /\ entry'.status = entry.status
      BY <3>1, <3>2, AbortEffect DEF ControlOK
    <3> QED
      BY <2>1, <3>3, QuietTelling
  <2>3. CASE \E t, p \in BOOLEAN : entry' = [entry EXCEPT !.tripped = t, !.persisting = p]
    <3>1. entry'.fg = entry.fg /\ entry'.status = entry.status
      BY <2>3 DEF Entries, ControlOK
    <3> QED
      BY <2>1, <3>1, QuietTelling
  <2> QED
    BY <1>9, <2>2, <2>3, AppendEntry DEF ControlOK
<1>10. CASE persistOutput
  <2>1. entry' = [entry EXCEPT !.persisting = TRUE] /\ UNCHANGED Ends
    BY <1>10 DEF persistOutput
  <2>2. entry'.fg = entry.fg /\ entry'.status = entry.status
    BY <2>1 DEF Entries, ControlOK
  <2> QED
    BY <2>1, <2>2, QuietTelling
<1>11. CASE waitForForegroundRelease
  <2>1. /\ bash = "waiting" /\ UNCHANGED <<entry, settle, release, told>>
        /\ \/ release \in {"detached", "timeout_detached"} /\ bash' = "background"
           \/ release # "detached" /\ release # "timeout_detached" /\ (release = "terminal" \/ run = "over")
              /\ bash' = "result"
    BY <1>11 DEF waitForForegroundRelease
  <2> QED
    BY <2>1 DEF TellingOK, ControlOK, Running
<1>12. CASE wait \/ WaiterWoken
  <2>1. UNCHANGED <<entry, settle, release, bash, told>>
    BY <1>12 DEF wait, WaiterWoken
  <2> QED
    BY <2>1 DEF TellingOK, Running
<1> QED
  BY <1>1, <1>2, <1>3, <1>4, <1>5, <1>6, <1>7, <1>8, <1>9, <1>10, <1>11, <1>12 DEF Next, Own, Stopping, Finished

----------------------------------------------------------------------------
(* Where the output is.                                                    *)

\* The first n chunks, in order.
LEMMA UptoFacts ==
  ASSUME NEW n \in Nat
  PROVE  /\ Upto(n) \in Seq(Nat) /\ Len(Upto(n)) = n /\ \A i \in 1 .. n : Upto(n)[i] = i
         /\ Elements(Upto(n)) = 1 .. n
BY DEF Upto, Elements

LEMMA UptoNone == Upto(0) = <<>>
<1>1. Upto(0) \in Seq(Nat) /\ Len(Upto(0)) = 0
  BY UptoFacts
<1> QED
  BY <1>1, EmptySeq

LEMMA UptoNext ==
  ASSUME NEW n \in Nat
  PROVE  Append(Upto(n), n + 1) = Upto(n + 1)
<1> DEFINE r == Append(Upto(n), n + 1)
<1>1. Upto(n) \in Seq(Nat) /\ Len(Upto(n)) = n /\ \A i \in 1 .. n : Upto(n)[i] = i
  BY UptoFacts
<1>2. r \in Seq(Nat) /\ Len(r) = n + 1 /\ \A i \in 1 .. n : r[i] = i
  BY <1>1, AppendProperties
<1>3. r[n + 1] = n + 1
  BY <1>1, AppendProperties
<1>4. /\ Upto(n + 1) \in Seq(Nat) /\ Len(Upto(n + 1)) = n + 1
      /\ \A i \in 1 .. n + 1 : Upto(n + 1)[i] = i
  BY UptoFacts
<1> HIDE DEF r
<1>5. \A i \in 1 .. Len(r) : r[i] = Upto(n + 1)[i]
  BY <1>2, <1>3, <1>4
<1> QED
  BY <1>2, <1>4, <1>5, SeqEqual DEF r

LEMMA ElementsOfAppend ==
  ASSUME NEW s \in Seq(Nat), NEW n \in Nat
  PROVE  Append(s, n) \in Seq(Nat) /\ Elements(Append(s, n)) = Elements(s) \cup {n}
<1> DEFINE r == Append(s, n)
<1>1. /\ r \in Seq(Nat) /\ Len(r) = Len(s) + 1 /\ r[Len(s) + 1] = n
      /\ \A i \in 1 .. Len(s) : r[i] = s[i]
  BY AppendProperties
<1>2. Len(s) \in Nat
  BY LenProperties
<1> HIDE DEF r
<1>3. Elements(r) = Elements(s) \cup {n}
  BY <1>1, <1>2, SMTT(60) DEF Elements
<1> QED
  BY <1>1, <1>3 DEF r

\* The output is in the file or pending, in a task that runs or has ended.
LEMMA OutputInit == TaskAssumption /\ Init => OutputOK
<1> SUFFICES ASSUME TaskAssumption, Init PROVE OutputOK
  OBVIOUS
<1>1. /\ opts.detached \in BOOLEAN /\ entry.fg = ~opts.detached /\ entry.persisting = opts.detached
      /\ entry.tripped = FALSE /\ chunks = 0 /\ pending = <<>> /\ file = <<>> /\ builder = <<>>
  BY DEF Init
<1>2. Least(chunks, LimitChunks) = 0 /\ ~(chunks > LimitChunks) /\ chunks <= PendingChunks
  BY <1>1 DEF Least, TaskAssumption
<1>3. 1 .. chunks = {} /\ Upto(chunks) = <<>> /\ <<>> \in Seq(Nat)
  BY <1>1, UptoNone
<1>4. CASE opts.detached
  BY <1>1, <1>2, <1>3, <1>4, UptoNone DEF OutputOK
<1>5. CASE ~opts.detached
  BY <1>1, <1>2, <1>3, <1>5 DEF OutputOK
<1> QED
  BY <1>4, <1>5

\* No output moves; a settlement without a file forgets what is pending.
LEMMA QuietOutput ==
  ASSUME OutputOK, entry'.tripped = entry.tripped, entry'.persisting = entry.persisting, entry'.fg = entry.fg,
         UNCHANGED <<chunks, file, builder, mute>>, aborted => aborted',
         \/ pending' = pending /\ (Running' => Running)
         \/ pending' = <<>> /\ ~Running'
  PROVE  OutputOK'
<1>1. chunks' = chunks /\ file' = file /\ builder' = builder /\ mute' = mute
  OBVIOUS
<1>2. pending' \in Seq(Nat) /\ (entry.persisting => pending' = <<>>)
  BY DEF OutputOK
<1> QED
  BY <1>1, <1>2 DEF OutputOK

\* What was pending goes to the file.
LEMMA PersistedOutput ==
  ASSUME TaskAssumption, OutputOK, Running, startOutputPersist, entry'.persisting, entry'.tripped = entry.tripped,
         UNCHANGED <<chunks, builder, mute, aborted>>
  PROVE  OutputOK'
<1>1. chunks' = chunks /\ builder' = builder /\ mute' = mute /\ pending' = <<>> /\ <<>> \in Seq(Nat)
  BY DEF startOutputPersist
<1>2. file' \in Seq(Nat) /\ file' = Upto(Least(chunks, LimitChunks))
  <2>1. CASE entry.persisting
    BY <2>1 DEF startOutputPersist, OutputOK
  <2>2. CASE ~entry.persisting
    <3>1. file' = file \o pending /\ file = <<>> /\ pending = Upto(chunks) /\ pending \in Seq(Nat)
      BY <2>2 DEF startOutputPersist, OutputOK
    <3>2. Least(chunks, LimitChunks) = chunks
      BY <2>2 DEF Least, OutputOK, TaskAssumption
    <3>3. file' = pending
      BY <3>1, ConcatEmptySeq
    <3> QED
      BY <3>1, <3>2, <3>3
  <2> QED
    BY <2>1, <2>2
<1> QED
  BY <1>1, <1>2 DEF OutputOK

\* A chunk arrives: over the limit, for the file, or for the buffers.
LEMMA AppendedOutput ==
  ASSUME TaskAssumption, ControlOK, TellingOK, OutputOK, appendOutput
  PROVE  OutputOK'
<1> DEFINE c == chunks + 1
           trips == ~entry.tripped /\ c > LimitChunks
           full == ~entry.persisting /\ Len(pending) + 1 > PendingChunks
<1>1. chunks \in Nat /\ c \in Nat /\ PendingChunks \in Nat /\ LimitChunks \in Nat /\ PendingChunks < LimitChunks
  BY DEF OutputOK, TaskAssumption
<1>2. /\ chunks' = c /\ Running
      /\ mute' = IF aborted \/ trips THEN mute \cup {c} ELSE mute
      /\ builder' = IF bash = "waiting" /\ ~aborted /\ ~trips THEN Append(builder, c) ELSE builder
  BY DEF appendOutput, ControlOK
<1>3. /\ \A d \in Elements(builder) \cup mute : d \in Elements(builder') \cup mute'
      /\ builder' \in Seq(Nat)
  BY <1>1, <1>2, ElementsOfAppend DEF OutputOK
<1>4. \A d \in 1 .. c : d \in 1 .. chunks \/ d = c
  BY <1>1
<1>5. /\ entry.tripped <=> chunks > LimitChunks
      /\ entry.tripped => aborted
      /\ pending \in Seq(Nat) /\ file \in Seq(Nat)
      /\ entry.persisting => pending = <<>> /\ file = Upto(Least(chunks, LimitChunks))
      /\ ~entry.persisting => entry.fg /\ file = <<>> /\ chunks <= PendingChunks /\ pending = Upto(chunks)
      /\ ~entry.persisting => \A d \in 1 .. chunks : d \in Elements(builder) \cup mute
      /\ \A d \in 1 .. chunks : d > LimitChunks => d \in mute
  BY <1>2 DEF OutputOK
<1>6. entry.fg \in BOOLEAN /\ entry.persisting \in BOOLEAN /\ entry.tripped \in BOOLEAN /\ entry \in Entries
  BY DEF ControlOK, Entries
<1>7. CASE entry.tripped \/ trips
  <2>1. /\ entry'.tripped = TRUE /\ entry'.persisting = entry.persisting /\ entry'.fg = entry.fg
        /\ aborted' = TRUE
    <3>1. CASE trips
      <4> DEFINE e == [entry EXCEPT !.tripped = TRUE]
      <4>1. Abort("limit", e)
        BY <1>2, <3>1 DEF appendOutput
      <4>2. /\ e \in Entries /\ e.persisting = entry.persisting /\ e.fg = entry.fg /\ e.tripped = TRUE
            /\ "limit" \in Callers
        BY <1>6 DEF Entries, Callers, Stoppers
      <4> HIDE DEF e
      <4> QED
        BY <4>1, <4>2, AbortEffect DEF ControlOK
    <3>2. CASE entry.tripped
      <4>1. /\ entry' = [entry EXCEPT !.tripped = @ \/ trips, !.persisting = @ \/ (full /\ ~entry.tripped)]
            /\ aborted' = aborted
        BY <3>2 DEF appendOutput
      <4>2. entry' = [entry EXCEPT !.tripped = TRUE, !.persisting = entry.persisting]
        BY <3>2, <4>1, <1>6
      <4> QED
        BY <1>5, <1>6, <3>2, <4>1, <4>2 DEF Entries
    <3> QED
      BY <1>7, <3>1, <3>2
  <2>2. pending' = pending /\ file' = file /\ chunks >= LimitChunks /\ c > LimitChunks
    BY <1>1, <1>5, <1>7 DEF appendOutput
  <2>3. entry.persisting /\ Least(chunks, LimitChunks) = LimitChunks /\ Least(c, LimitChunks) = LimitChunks
    BY <1>1, <1>5, <2>2 DEF Least
  <2>4. mute' = mute \cup {c}
    BY <1>2, <1>5, <1>7
  <2> QED
    BY <1>1, <1>2, <1>3, <1>4, <1>5, <2>1, <2>2, <2>3, <2>4 DEF OutputOK
<1>8. CASE ~entry.tripped /\ ~trips
  <2>1. /\ entry' = [entry EXCEPT !.tripped = @ \/ trips, !.persisting = @ \/ (full /\ ~entry.tripped)]
        /\ aborted' = aborted
    BY <1>8 DEF appendOutput
  <2>2. c <= LimitChunks /\ Least(c, LimitChunks) = c /\ Least(chunks, LimitChunks) = chunks
    BY <1>1, <1>8 DEF Least
  <2>3. CASE entry.persisting
    <3>1. entry' = [entry EXCEPT !.tripped = FALSE, !.persisting = TRUE]
      BY <1>6, <1>8, <2>1, <2>3
    <3>2. entry'.tripped = FALSE /\ entry'.persisting = TRUE
      BY <1>6, <3>1 DEF Entries
    <3>3. file' = Append(file, c) /\ pending' = pending
      BY <1>8, <2>3 DEF appendOutput
    <3>4. file' = Upto(c) /\ file' \in Seq(Nat)
      BY <1>1, <1>5, <2>2, <2>3, <3>3, UptoNext, UptoFacts
    <3> QED
      BY <1>1, <1>2, <1>3, <1>4, <1>5, <2>1, <2>2, <2>3, <3>2, <3>3, <3>4 DEF OutputOK
  <2>4. CASE full
    <3>1. entry' = [entry EXCEPT !.tripped = FALSE, !.persisting = TRUE]
      BY <1>6, <1>8, <2>1, <2>4
    <3>2. entry'.tripped = FALSE /\ entry'.persisting = TRUE
      BY <1>6, <3>1 DEF Entries
    <3>3. file' = file \o Append(pending, c) /\ pending' = <<>> /\ file = <<>> /\ pending = Upto(chunks)
      BY <1>5, <1>8, <2>4 DEF appendOutput
    <3>4. Append(pending, c) = Upto(c) /\ Upto(c) \in Seq(Nat)
      BY <1>1, <3>3, UptoNext, UptoFacts
    <3>5. file' = Upto(c) /\ file' \in Seq(Nat) /\ <<>> \in Seq(Nat)
      <4>1. file' = <<>> \o Upto(c)
        BY <3>3, <3>4
      <4>2. <<>> \o Upto(c) = Upto(c)
        BY <3>4, ConcatEmptySeq
      <4> QED
        BY <3>4, <4>1, <4>2
    <3> QED
      BY <1>1, <1>2, <1>3, <1>4, <1>5, <2>1, <2>2, <2>4, <3>2, <3>3, <3>5 DEF OutputOK
  <2>5. CASE ~entry.persisting /\ ~full
    <3>1. entry' = [entry EXCEPT !.tripped = FALSE, !.persisting = FALSE]
      BY <1>6, <1>8, <2>1, <2>5
    <3>2. entry'.tripped = FALSE /\ entry'.persisting = FALSE /\ entry'.fg = entry.fg
      BY <1>6, <3>1 DEF Entries
    <3>3. file' = <<>> /\ pending' = Append(pending, c) /\ pending = Upto(chunks)
      BY <1>5, <1>8, <2>5 DEF appendOutput
    <3>4. pending' = Upto(c) /\ pending' \in Seq(Nat) /\ c <= PendingChunks
      <4>1. Append(Upto(chunks), c) = Upto(c) /\ Upto(c) \in Seq(Nat) /\ Len(Upto(chunks)) = chunks
        BY <1>1, UptoNext, UptoFacts
      <4>2. Len(pending) + 1 <= PendingChunks
        BY <1>1, <2>5, <3>3, <4>1
      <4> QED
        BY <3>3, <4>1, <4>2
    <3>5. c \in Elements(builder') \cup mute'
      <4>1. bash = "waiting"
        BY <1>2, <1>5, <2>5 DEF TellingOK
      <4> QED
        BY <1>1, <1>2, <4>1, <1>8, ElementsOfAppend DEF OutputOK
    <3> QED
      BY <1>1, <1>2, <1>3, <1>4, <1>5, <2>1, <2>2, <2>5, <3>2, <3>3, <3>4, <3>5, SMTT(60) DEF OutputOK
  <2> QED
    BY <2>3, <2>4, <2>5
<1> HIDE DEF trips
<1> QED
  BY <1>7, <1>8

LEMMA OutputStep ==
  ASSUME TaskAssumption, ControlOK, TellingOK, OutputOK, [Next]_vars
  PROVE  OutputOK'
<1> DEFINE Still == UNCHANGED <<chunks, pending, file, builder, mute>>
<1>1. CASE \/ \E code \in {"ok", "bad"} : ProcessExits(code)
           \/ WaitReturns \/ (\E x \in BOOLEAN : StreamsDrained(x)) \/ RunEnds \/ UNCHANGED vars
           \/ SettleWritten \/ waitForForegroundRelease \/ wait \/ WaiterWoken
           \/ \E b \in Callers : forceStop(b) \/ TermReturns(b)
  <2>1. UNCHANGED <<entry, aborted, Output>>
    BY <1>1 DEF ProcessExits, WaitReturns, StreamsDrained, RunEnds, forceStop, TermReturns, SettleWritten,
                waitForForegroundRelease, wait, WaiterWoken, Output, vars
  <2>2. Still /\ entry' = entry /\ aborted' = aborted
    BY <2>1 DEF Output
  <2> QED
    BY <2>2, QuietOutput DEF Running
<1>2. ASSUME Running, NEW status \in Statuses \ {"running"}, NEW reason \in Stoppers \cup {"none"},
             settleTask(status, reason), UNCHANGED <<aborted, chunks, file, builder, mute>>
      PROVE  OutputOK'
  <2>1. /\ entry'.status = status /\ entry'.fg = entry.fg
        /\ entry'.persisting = entry.persisting /\ entry'.tripped = entry.tripped
        /\ pending' \in {pending, <<>>}
        /\ entry.persisting => pending' = pending
        /\ ~entry.persisting => pending' = <<>>
    BY <1>2, SettleTaskEffect DEF ControlOK
  <2>2. pending' = <<>> /\ ~Running'
    BY <2>1 DEF OutputOK, Running
  <2> QED
    BY <1>2, <2>1, <2>2, QuietOutput
<1>3. CASE Disposed
  <2>1. UNCHANGED <<aborted, chunks, file, builder, mute>>
    BY <1>3 DEF Disposed
  <2>2. CASE Running
    <3>1. run = "dispose" /\ settleTask(coerceTimeoutSettlement(result), "none")
      BY <1>3, <2>2 DEF Disposed
    <3>2. coerceTimeoutSettlement(result) \in Statuses \ {"running"}
      BY <3>1 DEF coerceTimeoutSettlement, Statuses, ControlOK
    <3> QED
      BY <1>2, <2>1, <2>2, <3>1, <3>2
  <2>3. CASE ~Running
    <3>1. UNCHANGED <<entry, pending>>
      BY <1>3, <2>3 DEF Disposed
    <3> QED
      BY <2>1, <3>1, QuietOutput DEF Running
  <2> QED
    BY <2>2, <2>3
<1>4. CASE \E b \in Callers : terminateWithGrace(b)
  <2>1. PICK b \in Callers : Abort(b, entry) /\ UNCHANGED Output
    BY <1>4 DEF terminateWithGrace
  <2>2. entry \in Entries /\ terms \in [Callers -> {"no", "grace", "kill", "killed", "settling", "done"}]
    BY DEF ControlOK
  <2>3. /\ entry'.fg = entry.fg /\ entry'.status = entry.status
        /\ entry'.persisting = entry.persisting /\ entry'.tripped = entry.tripped
    BY <2>1, <2>2, AbortKeeps
  <2>4. aborted' = TRUE
    BY <2>1 DEF Abort
  <2>5. Still
    BY <2>1 DEF Output
  <2> QED
    BY <2>3, <2>4, <2>5, QuietOutput DEF Running
<1>5. CASE \E b \in Callers : GraceOver(b)
  <2>1. UNCHANGED <<entry, aborted, chunks, pending, file, builder, mute>>
    BY <1>5 DEF GraceOver, ControlOK
  <2> QED
    BY <2>1, QuietOutput DEF Running
<1>6. CASE \E b \in Callers : ForcedSettle(b)
  <2>1. PICK b \in Callers : ForcedSettle(b)
    BY <1>6
  <2>2. UNCHANGED <<aborted, chunks, file, builder, mute>>
    BY <2>1 DEF ForcedSettle
  <2>3. CASE Running
    <3>1. Final(b) \in Statuses \ {"running"} /\ (IF b \in Timeouts THEN "none" ELSE b) \in Stoppers \cup {"none"}
      BY DEF Final, Statuses, Callers
    <3>2. settleTask(Final(b), IF b \in Timeouts THEN "none" ELSE b)
      BY <2>1, <2>3 DEF ForcedSettle
    <3> QED
      BY <1>2, <2>2, <2>3, <3>1, <3>2
  <2>4. CASE ~Running
    <3>1. UNCHANGED <<entry, pending>>
      BY <2>1, <2>4 DEF ForcedSettle
    <3> QED
      BY <2>2, <3>1, QuietOutput DEF Running
  <2> QED
    BY <2>3, <2>4
<1>7. CASE detach
  <2>1. detachEntry("detached", entry) /\ Running /\ UNCHANGED <<aborted, chunks, builder, mute>>
    BY <1>7 DEF detach
  <2>2. entry'.persisting /\ entry'.tripped = entry.tripped /\ startOutputPersist
    BY <2>1, DetachEffect DEF ControlOK
  <2> QED
    BY <2>1, <2>2, PersistedOutput
<1>8. CASE TimerFires
  <2>1. Running /\ entry.timer \in Timeouts
    BY <1>8 DEF TimerFires, Entries, ControlOK
  <2>2. CASE opts.auto /\ entry.fg
    <3> DEFINE e == [entry EXCEPT !.timer = "none"]
    <3>1. detachEntry("timeout_detached", e) /\ UNCHANGED <<aborted, chunks, builder, mute>>
      BY <1>8, <2>2 DEF TimerFires
    <3>2. e \in Entries /\ e.tripped = entry.tripped
      BY DEF Entries, ControlOK
    <3> HIDE DEF e
    <3>3. entry'.persisting /\ entry'.tripped = entry.tripped /\ startOutputPersist
      BY <3>1, <3>2, DetachEffect DEF ControlOK
    <3> QED
      BY <2>1, <3>1, <3>3, PersistedOutput
  <2>3. CASE ~(opts.auto /\ entry.fg)
    <3>1. Abort(entry.timer, entry) /\ UNCHANGED Output /\ entry.timer \in Callers
      BY <1>8, <2>1, <2>3 DEF TimerFires, Callers
    <3>2. entry \in Entries /\ terms \in [Callers -> {"no", "grace", "kill", "killed", "settling", "done"}]
      BY DEF ControlOK
    <3>3. /\ entry'.fg = entry.fg /\ entry'.status = entry.status /\ entry'.persisting = entry.persisting
          /\ entry'.tripped = entry.tripped
      BY <3>1, <3>2, AbortKeeps
    <3>4. aborted' = TRUE
      BY <3>1 DEF Abort
    <3>5. Still
      BY <3>1 DEF Output
    <3> QED
      BY <3>3, <3>4, <3>5, QuietOutput DEF Running
  <2> QED
    BY <2>2, <2>3
<1>9. CASE appendOutput
  BY <1>9, AppendedOutput
<1>10. CASE persistOutput
  <2>1. /\ entry' = [entry EXCEPT !.persisting = TRUE] /\ Running /\ startOutputPersist
        /\ UNCHANGED <<aborted, chunks, builder, mute>>
    BY <1>10 DEF persistOutput
  <2>2. entry'.persisting /\ entry'.tripped = entry.tripped
    BY <2>1 DEF Entries, ControlOK
  <2> QED
    BY <2>1, <2>2, PersistedOutput
<1> QED
  BY <1>1, <1>3, <1>4, <1>5, <1>6, <1>7, <1>8, <1>9, <1>10 DEF Next, Own, Stopping, Finished

----------------------------------------------------------------------------
(* The theorem.                                                            *)

TaskIInv == ControlOK /\ BlameOK /\ TellingOK /\ OutputOK

\* What the four invariants say together is that the end is true.
LEMMA EndFollows == TaskAssumption /\ TaskIInv => EndIsTrue
<1> SUFFICES ASSUME TaskAssumption, TaskIInv PROVE EndIsTrue
  OBVIOUS
<1> USE DEF TaskIInv
<1>1. TypeOK
  BY DEF TypeOK, ControlOK, OutputOK, Entries, Running
<1>2. ToldOnce
  <2>1. Len(<<"started">>) >= 1 /\ Len(<<"started", "terminated">>) >= 1
    OBVIOUS
  <2>2. <<"started">> # <<>> /\ <<"started", "terminated">> # <<>> /\ <<"started", "terminated">> # <<"started">>
    OBVIOUS
  <2>3. entry.fg \in BOOLEAN
    BY DEF ControlOK, Entries
  <2>4. CASE entry.fg
    BY <2>2, <2>4 DEF ToldOnce, TellingOK
  <2>5. CASE ~entry.fg
    BY <2>1, <2>2, <2>3, <2>5 DEF ToldOnce, TellingOK
  <2> QED
    BY <2>4, <2>5
<1>3. OutcomeHonest /\ NoProcessLeft
  BY DEF BlameOK, ControlOK, NoProcessLeft
<1>4. OutputWhole
  <2>1. chunks \in Nat /\ LimitChunks \in Nat /\ Least(chunks, LimitChunks) \in Nat
    BY DEF OutputOK, TaskAssumption, Least
  <2>2. CASE entry.persisting
    <3>1. /\ file = Upto(Least(chunks, LimitChunks)) /\ Len(file) = Least(chunks, LimitChunks)
          /\ Elements(file) = 1 .. Least(chunks, LimitChunks)
      BY <2>1, <2>2, UptoFacts DEF OutputOK
    <3>2. \A c \in 1 .. chunks : c \in Elements(file) \cup mute
      BY <2>1, <3>1 DEF OutputOK, Least
    <3> QED
      BY <2>1, <3>1, <3>2 DEF OutputWhole, Least
  <2>3. CASE ~entry.persisting
    <3>1. file = Upto(0) /\ Len(file) = 0 /\ entry.fg
      BY <2>3, UptoNone DEF OutputOK
    <3> QED
      BY <2>3, <3>1 DEF OutputWhole, OutputOK
  <2> QED
    BY <2>2, <2>3
<1> QED
  BY <1>1, <1>2, <1>3, <1>4 DEF EndIsTrue

\* However detach, timeouts and stops race with the end of a process task, its
\* end is told once and to the right one, with the true outcome, its output is
\* whole and its process is gone (settleTask, terminateWithGrace, detachEntry
\* and appendOutput of taskService.ts).
THEOREM TaskEndIsTrue ==
  ASSUME TaskAssumption
  PROVE  Spec => []EndIsTrue
<1>1. Init => TaskIInv
  BY ControlInit, BlameInit, TellingInit, OutputInit DEF TaskIInv
<1>2. TaskIInv /\ [Next]_vars => TaskIInv'
  BY ControlStep, BlameStep, TellingStep, OutputStep DEF TaskIInv
<1>3. TaskIInv => EndIsTrue
  BY EndFollows
<1> QED
  BY <1>1, <1>2, <1>3, PTL DEF Spec
============================================================================
