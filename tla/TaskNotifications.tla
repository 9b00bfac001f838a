------------------------- MODULE TaskNotifications -------------------------
(***************************************************************************)
(* How an agent hears of the end of its background tasks:                  *)
(* AgentTaskService (agent/task/taskService.ts), the tools WaitFor and     *)
(* TaskStop, and the files of persist.ts, over undo, session close, crash  *)
(* and resume.                                                             *)
(*                                                                         *)
(* line is the conversation as the wire records it: prompts, automatic     *)
(* notifications, delivery marks and results of WaitFor, results of        *)
(* TaskStop and reminders after a resume.  saved is what the wire would    *)
(* give back after a crash; the task files are written one by one and      *)
(* separately.  Every await of the code is a step boundary.                *)
(***************************************************************************)
EXTENDS Naturals, Sequences, FiniteSets, SequencesExt

CONSTANTS Tasks, None,
          MaxPrompts, MaxWaits, MaxUndos, MaxResumes,   \* bounds, the first two on one conversation
          Faults                              \* subset of {"crash", "abort", "close", "stop", "wait"}

Ends == {"completed", "killed", "lost"}                \* TERMINAL_STATUSES, told apart as far as needed
\* AgentTaskInfo: closed when its stop reason is 'Session closed'.
Infos == [status : Ends \cup {"running"}, supp : BOOLEAN, closed : BOOLEAN, reminded : BOOLEAN]
Items == [k : {"prompt", "note", "wait", "result", "stop", "rem"}, t : Tasks \cup {None}, s : Ends \cup {"running"}]

VARIABLES
  phase,     \* "up", "closing", "down", "losing" while a resume marks tasks lost
  keep,      \* keepAliveOnExit
  at,        \* at[t]: "none", "running", "persist" while settleTask writes, "ended", "ghost"
  info,      \* info[t]: of the entry or the ghost
  stopBy,    \* stopBy[t]: who has called stop
  writes,    \* writes[t]: persistWriteQueue
  disk,      \* disk[t]: the task's file
  wire,      \* wire[t]: task of the replayed state, taskKey
  line, saved,
  building,  \* notifications being built: [t, s, by]
  scheduled, delivered, pend,  \* keys: the sets and the map of the service
  nudges,    \* undropped nudges of the loop
  armed,     \* exitSuppressionArmed
  toRestore, \* what restoreAgentTaskNotificationsNow has left
  undo,      \* "no", "cut" once the branch is switched, "restore"
  turn, tool,
  undos, resumes,
  odd        \* history: <<t, why>> for the exceptions the properties name

vars == <<phase, keep, at, info, stopBy, writes, disk, wire, line, saved, building, scheduled, delivered,
          pend, nudges, armed, toRestore, undo, turn, tool, undos, resumes, odd>>
TaskVars == <<at, info, stopBy, writes, disk, wire>>
KeyVars == <<building, scheduled, delivered, pend, nudges, toRestore>>
TurnVars == <<turn, tool>>
SessionVars == <<phase, keep, armed, undo, undos, resumes>>

NoInfo == [status |-> "running", supp |-> FALSE, closed |-> FALSE, reminded |-> FALSE]
\* A tool call: the tasks it is about, the tasks that ran when it began, the keys it reports.
Call(k, on, run) == [k |-> k, on |-> on, run |-> run, keys |-> {}, cut |-> FALSE]
NoTool == Call("none", {}, {})
ItemsOf(k, keys) == SetToSeq({[k |-> k, t |-> key[1], s |-> key[2]] : key \in keys})
Item(k, t, s) == [k |-> k, t |-> t, s |-> s]
Key(t) == <<t, info[t].status>>
Terminal(t) == at[t] \in {"persist", "ended", "ghost"} /\ info[t].status \in Ends
Has(l, k, t) == \E i \in 1 .. Len(l) : l[i].k = k /\ l[i].t = t
Count(k) == Cardinality({i \in 1 .. Len(line) : line[i].k = k})
\* taskNotificationDelivery, as replayed from the line.
DeliveredIn(l) == {<<l[i].t, l[i].s>> : i \in {j \in 1 .. Len(l) : l[j].k \in {"note", "wait"}}}
\* hasDeliveredNotification
InContext(key) == \E i \in 1 .. Len(line) : line[i].k = "note" /\ <<line[i].t, line[i].s>> = key

Init ==
  /\ phase = "up" /\ keep \in BOOLEAN /\ armed = FALSE /\ undo = "no" /\ undos = 0 /\ resumes = 0
  /\ at = [t \in Tasks |-> "none"] /\ info = [t \in Tasks |-> NoInfo] /\ stopBy = [t \in Tasks |-> "none"]
  /\ writes = [t \in Tasks |-> <<>>] /\ disk = [t \in Tasks |-> None] /\ wire = [t \in Tasks |-> None]
  /\ line = <<>> /\ saved = [line |-> <<>>, wire |-> wire]
  /\ building = {} /\ scheduled = {} /\ delivered = {} /\ pend = {} /\ nudges = <<>> /\ toRestore = {}
  /\ turn = FALSE /\ tool = NoTool /\ odd = {}

TypeOK ==
  /\ phase \in {"up", "closing", "down", "losing"} /\ undo \in {"no", "cut", "restore"}
  /\ \A t \in Tasks :
       /\ at[t] \in {"none", "running", "persist", "ended", "ghost"} /\ info[t] \in Infos
       /\ disk[t] \in Infos \cup {None} /\ wire[t] \in Infos \cup {None}
       /\ at[t] = "running" => info[t].status = "running"
  /\ \A i \in 1 .. Len(line) : line[i] \in Items
  /\ pend \subseteq {<<nudges[i][1], nudges[i][2]>> : i \in 1 .. Len(nudges)}
  /\ toRestore \subseteq Tasks /\ (undo # "no" => ~turn)

Ready == phase = "up" /\ undo = "no" /\ toRestore = {} /\ \A b \in building : b.by = "live"

----------------------------------------------------------------------------
(* The turn.                                                               *)

Prompt ==
  /\ Ready /\ ~turn /\ Count("prompt") < MaxPrompts
  /\ turn' = TRUE /\ line' = Append(line, Item("prompt", None, "running"))
  /\ UNCHANGED <<TaskVars, KeyVars, SessionVars, saved, tool, odd>>

\* The turn ends; a tool call that is cut off goes on without an audience.
EndTurn ==
  /\ turn /\ (tool = NoTool \/ (tool.k \in {"wait", "stop"} /\ "abort" \in Faults))
  /\ turn' = FALSE
  /\ tool' = IF tool.k = "wait" THEN NoTool ELSE [tool EXCEPT !.cut = tool # NoTool]
  /\ UNCHANGED <<TaskVars, KeyVars, SessionVars, line, saved, odd>>

Odd(call, why) == {<<key[1], why>> : key \in call.keys}

\* The formatting of a wait that is over is not interrupted by the turn's end.
CutFormatting ==
  /\ turn /\ tool.k \in {"format", "marked"} /\ "abort" \in Faults
  /\ turn' = FALSE
  /\ tool' = IF tool.k = "format" THEN [tool EXCEPT !.cut = TRUE] ELSE NoTool
  /\ odd' = IF tool.k = "marked" THEN odd \cup Odd(tool, "wait") ELSE odd
  /\ UNCHANGED <<TaskVars, KeyVars, SessionVars, line, saved>>

registerTask(t) ==
  /\ Ready /\ turn /\ tool = NoTool /\ at[t] = "none"
  /\ at' = [at EXCEPT ![t] = "running"]
  /\ writes' = [writes EXCEPT ![t] = Append(@, NoInfo)]
  /\ wire' = [wire EXCEPT ![t] = NoInfo]
  /\ UNCHANGED <<info, stopBy, disk, KeyVars, SessionVars, TurnVars, line, saved, odd>>

----------------------------------------------------------------------------
(* settleTask and its effects.                                             *)

marksTerminalNotificationSuppressed == armed /\ ~keep

\* One write of persistWriteQueue reaches the file.
writeTask(t) ==
  /\ writes[t] # <<>> /\ phase # "down"
  /\ disk' = [disk EXCEPT ![t] = Head(writes[t])]
  /\ writes' = [writes EXCEPT ![t] = Tail(@)]
  /\ UNCHANGED <<at, info, stopBy, wire, KeyVars, SessionVars, TurnVars, line, saved, odd>>

CompletedOnExit(t, i) == IF ~info[t].supp /\ i.status = "completed" THEN odd \cup {<<t, "exit">>} ELSE odd

settleTask(t, status) ==
  LET settled == [info[t] EXCEPT !.status = status, !.supp = @ \/ marksTerminalNotificationSuppressed,
                                 !.closed = status = "killed" /\ stopBy[t] = "exit"]
  IN /\ at[t] = "running" /\ phase \in {"up", "closing"}
     /\ (status = "completed" \/ (status = "killed" /\ stopBy[t] # "none"))
     /\ at' = [at EXCEPT ![t] = "persist"]
     /\ info' = [info EXCEPT ![t] = settled]
     /\ writes' = [writes EXCEPT ![t] = Append(@, settled)]
     /\ odd' = IF marksTerminalNotificationSuppressed THEN CompletedOnExit(t, settled) ELSE odd
     /\ UNCHANGED <<stopBy, disk, wire, KeyVars, SessionVars, TurnVars, line, saved>>

\* What buildAgentTaskNotificationContext asks before its await.
Buildable(t) ==
  ~info[t].supp /\ ~(\E b \in building : <<b.t, b.s>> = Key(t)) /\ Key(t) \notin scheduled \cup delivered
  /\ ~InContext(Key(t))

Building(t, by) == building \cup {[t |-> t, s |-> info[t].status, by |-> by]}

\* The exit was ordered while the file was written: it is written once more.
SuppressLate(t) ==
  LET late == [info[t] EXCEPT !.supp = TRUE] IN
  /\ at[t] = "persist" /\ writes[t] = <<>> /\ phase \in {"up", "closing"}
  /\ marksTerminalNotificationSuppressed /\ ~info[t].supp
  /\ info' = [info EXCEPT ![t] = late]
  /\ writes' = [writes EXCEPT ![t] = Append(@, late)]
  /\ odd' = CompletedOnExit(t, late)
  /\ UNCHANGED <<at, stopBy, disk, wire, KeyVars, SessionVars, TurnVars, line, saved>>

fireTerminalEffects(t) ==
  /\ at[t] = "persist" /\ writes[t] = <<>> /\ phase \in {"up", "closing"}
  /\ ~(marksTerminalNotificationSuppressed /\ ~info[t].supp)
  /\ at' = [at EXCEPT ![t] = "ended"]
  /\ wire' = [wire EXCEPT ![t] = info[t]]
  /\ building' = IF Buildable(t) THEN Building(t, "live") ELSE building
  /\ UNCHANGED <<info, stopBy, writes, disk, scheduled, delivered, pend, nudges, toRestore, SessionVars,
                 TurnVars, line, saved, odd>>

isTerminalNotificationSuppressed(t) == armed \/ info[t].supp

\* The checks after the await.
Deliverable(b) ==
  /\ ~isTerminalNotificationSuppressed(b.t)
  /\ <<b.t, b.s>> \notin scheduled \cup delivered /\ ~InContext(<<b.t, b.s>>)

notifyAgentTask(b) ==
  LET key == <<b.t, b.s>> IN
  /\ b \in building /\ b.by = "live" /\ phase \in {"up", "closing"}
  /\ building' = building \ {b}
  /\ IF Deliverable(b)
     THEN /\ scheduled' = scheduled \cup {key} /\ pend' = pend \cup {key}
          /\ nudges' = Append(nudges, key)
     ELSE UNCHANGED <<scheduled, pend, nudges>>
  /\ UNCHANGED <<TaskVars, delivered, toRestore, SessionVars, TurnVars, line, saved, odd>>

\* consumeDrainedNudges: the message enters the context at a step boundary.
consumeNudge ==
  /\ phase = "up" /\ undo = "no" /\ tool = NoTool /\ nudges # <<>>
  /\ LET key == Head(nudges) IN
     /\ line' = Append(line, Item("note", key[1], key[2]))
     /\ delivered' = delivered \cup {key} /\ scheduled' = scheduled \ {key} /\ pend' = pend \ {key}
     /\ nudges' = Tail(nudges)
  /\ UNCHANGED <<TaskVars, building, toRestore, SessionVars, TurnVars, saved, odd>>

----------------------------------------------------------------------------
(* restoreAgentTaskNotificationsNow, after a resume or an undo.            *)

Restoring == \E b \in building : b.by = "restore"

restoreAgentTaskNotification(t) ==
  /\ t \in toRestore /\ ~Restoring /\ phase \in {"up", "closing"}
  /\ toRestore' = toRestore \ {t}
  /\ building' = IF Buildable(t) THEN Building(t, "restore") ELSE building
  /\ UNCHANGED <<TaskVars, scheduled, delivered, pend, nudges, SessionVars, TurnVars, line, saved, odd>>

RestoreAppends(b) ==
  LET key == <<b.t, b.s>> IN
  /\ b \in building /\ b.by = "restore" /\ phase \in {"up", "closing"}
  /\ building' = building \ {b}
  /\ IF Deliverable(b)
     THEN /\ line' = Append(line, Item("note", b.t, b.s))
          /\ delivered' = delivered \cup {key} /\ pend' = pend \ {key}
          /\ odd' = IF at[b.t] = "persist" THEN odd \cup {<<b.t, "early">>} ELSE odd
     ELSE UNCHANGED <<line, delivered, pend, odd>>
  /\ UNCHANGED <<TaskVars, scheduled, nudges, toRestore, SessionVars, TurnVars, saved>>

----------------------------------------------------------------------------
(* WaitFor and TaskStop.                                                   *)

\* On one task, or on whatever runs.
WaitFor(on) ==
  /\ "wait" \in Faults /\ Count("wait") < MaxWaits
  /\ Ready /\ turn /\ tool = NoTool /\ on # {} /\ \A t \in on : at[t] # "none"
  /\ tool' = Call("wait", on, {t \in Tasks : at[t] = "running"})
  /\ UNCHANGED <<TaskVars, KeyVars, SessionVars, turn, line, saved, odd>>

\* One of them is over and its file written: collectExtras adds the others that have ended since.
WaitReturns ==
  \E t \in tool.on :
    /\ tool.k = "wait" /\ Terminal(t) /\ writes[t] = <<>>
    /\ tool' = [tool EXCEPT !.k = "format", !.keys = {Key(u) : u \in {t} \cup {v \in tool.run : Terminal(v)}}]
    /\ UNCHANGED <<TaskVars, KeyVars, SessionVars, turn, line, saved, odd>>

\* The timeout, or a steering message.
WaitEnds ==
  /\ tool.k = "wait" /\ (\E t \in tool.on : ~Terminal(t)) /\ tool' = NoTool
  /\ UNCHANGED <<TaskVars, KeyVars, SessionVars, turn, line, saved, odd>>

\* What markTasksDeliveredViaWait does apart from the drop of the pending requests.
Mark ==
  /\ tool.k = "format"
  /\ delivered' = delivered \cup tool.keys /\ scheduled' = scheduled \ tool.keys /\ pend' = pend \ tool.keys
  /\ line' = line \o ItemsOf("wait", tool.keys)
  /\ tool' = IF tool.cut THEN NoTool ELSE [tool EXCEPT !.k = "marked"]
  /\ odd' = odd \cup (IF tool.cut THEN Odd(tool, "wait") ELSE {})
                \cup {<<t, "early">> : t \in {key[1] : key \in {k \in tool.keys : at[k[1]] = "persist"}}}
  /\ UNCHANGED <<TaskVars, building, toRestore, SessionVars, turn, saved>>

markTasksDeliveredViaWait == Mark /\ nudges' = SelectSeq(nudges, LAMBDA n : n \notin pend \cap tool.keys)

\* The batch is over: the result enters the conversation.
WaitResult ==
  /\ tool.k = "marked" /\ tool' = NoTool
  /\ line' = line \o ItemsOf("result", tool.keys)
  /\ UNCHANGED <<TaskVars, KeyVars, SessionVars, turn, saved, odd>>

\* TaskStop: suppressTerminalNotification, then stop.
TaskStop(t) ==
  /\ "stop" \in Faults /\ Ready /\ turn /\ tool = NoTool /\ at[t] = "running"
  /\ info' = [info EXCEPT ![t].supp = TRUE]
  /\ writes' = [writes EXCEPT ![t] = Append(@, info'[t])]
  /\ tool' = [Call("stop", {t}, {}) EXCEPT !.keys = {<<t, "killed">>}]
  /\ UNCHANGED <<at, stopBy, disk, wire, KeyVars, SessionVars, turn, line, saved, odd>>

stop(t) ==
  /\ tool.k = "stop" /\ t \in tool.on /\ at[t] = "running" /\ writes[t] = <<>> /\ stopBy[t] = "none"
  /\ stopBy' = [stopBy EXCEPT ![t] = "tool"]
  /\ UNCHANGED <<at, info, writes, disk, wire, KeyVars, SessionVars, TurnVars, line, saved, odd>>

StopReturns(t) ==
  /\ tool.k = "stop" /\ t \in tool.on /\ Terminal(t) /\ writes[t] = <<>>
  /\ tool' = NoTool
  /\ line' = IF tool.cut THEN line ELSE line \o ItemsOf("stop", {Key(t)})
  /\ odd' = IF tool.cut THEN odd \cup Odd(tool, "stop") ELSE odd
  /\ UNCHANGED <<TaskVars, KeyVars, SessionVars, turn, saved>>

----------------------------------------------------------------------------
(* Undo of the last prompt.                                                *)

LastPrompt == CHOOSE i \in 1 .. Len(line) : line[i].k = "prompt" /\ \A j \in i + 1 .. Len(line) : line[j].k # "prompt"

\* The branch is switched and the states are replayed; taskKey is not undone.
undoNow ==
  LET kept == SubSeq(line, 1, LastPrompt - 1)
      gone == SubSeq(line, LastPrompt, Len(line))
  IN /\ undos < MaxUndos /\ undos' = undos + 1
     /\ Ready /\ ~turn /\ tool = NoTool /\ nudges = <<>> /\ \E i \in 1 .. Len(line) : line[i].k = "prompt"
     /\ undo' = "cut"
     /\ line' = kept /\ saved' = [line |-> kept, wire |-> wire]
     /\ odd' = odd \cup {<<t, "reminder">> : t \in {u \in Tasks : Has(gone, "rem", u)}}
                   \cup {<<t, "stop">> : t \in {u \in Tasks : Has(gone, "stop", u)}}
     /\ UNCHANGED <<TaskVars, KeyVars, TurnVars, phase, keep, armed, resumes>>

\* list(false): what has ended, in this process or before.
Listed == {t \in Tasks : Terminal(t) /\ info[t].status # "lost"}

\* Mutant: keys that were delivered once stay scheduled.
ReconcileKeepsScheduled ==
  /\ undo = "cut" /\ phase = "up"
  /\ undo' = "restore"
  /\ delivered' = delivered \cup DeliveredIn(line)
  /\ UNCHANGED scheduled
  /\ toRestore' = Listed
  /\ UNCHANGED <<TaskVars, building, pend, nudges, TurnVars, phase, keep, armed, undos, resumes, line, saved, odd>>

reconcileNotificationDeliveryAfterUndo ==
  /\ undo = "cut" /\ phase = "up"
  /\ undo' = "restore"
  /\ delivered' = DeliveredIn(line)
  /\ scheduled' = {k \in scheduled : k \notin DeliveredIn(line) /\ k \in pend}
  /\ toRestore' = Listed
  /\ UNCHANGED <<TaskVars, building, pend, nudges, TurnVars, phase, keep, armed, undos, resumes, line, saved, odd>>

UndoEnds ==
  /\ undo = "restore" /\ toRestore = {} /\ ~Restoring /\ phase = "up"
  /\ undo' = "no"
  /\ UNCHANGED <<TaskVars, KeyVars, TurnVars, phase, keep, armed, undos, resumes, line, saved, odd>>

----------------------------------------------------------------------------
(* Close, crash and resume.                                                *)

\* suppressAllTerminalNotifications, and the loop is cancelled.
suppressAllTerminalNotifications ==
  /\ "close" \in Faults /\ phase = "up" /\ undo = "no" /\ toRestore = {} /\ ~Restoring
  /\ phase' = "closing" /\ armed' = TRUE
  /\ nudges' = SelectSeq(nudges, LAMBDA n : n \notin pend)
  /\ scheduled' = scheduled \ pend /\ pend' = {}
  /\ turn' = FALSE
  /\ tool' = IF tool.k \in {"none", "wait", "marked"} THEN NoTool ELSE [tool EXCEPT !.cut = TRUE]
  /\ odd' = IF tool.k = "marked" THEN odd \cup Odd(tool, "wait") ELSE odd
  /\ UNCHANGED <<TaskVars, building, delivered, toRestore, keep, undo, undos, resumes, line, saved>>

stopAllOnExit ==
  /\ phase = "closing" /\ ~keep /\ \E t \in Tasks : at[t] = "running" /\ stopBy[t] # "exit"
  /\ stopBy' = [t \in Tasks |-> IF at[t] = "running" THEN "exit" ELSE stopBy[t]]
  /\ UNCHANGED <<at, info, writes, disk, wire, KeyVars, TurnVars, SessionVars, line, saved, odd>>

\* Everything stopped, the wire is flushed and the agent disposed.
CloseEnds ==
  /\ phase = "closing" /\ (keep \/ \A t \in Tasks : at[t] \notin {"running", "persist"} /\ writes[t] = <<>>)
  /\ phase' = "down" /\ saved' = [line |-> line, wire |-> wire]
  /\ tool' = NoTool /\ odd' = IF tool.k = "stop" THEN odd \cup Odd(tool, "stop") ELSE odd
  /\ UNCHANGED <<TaskVars, KeyVars, turn, keep, armed, undo, undos, resumes, line>>

Crash ==
  /\ "crash" \in Faults /\ phase # "down"
  /\ phase' = "down"
  /\ tool' = NoTool /\ odd' = IF tool.k = "stop" THEN odd \cup Odd(tool, "stop") ELSE odd
  /\ UNCHANGED <<TaskVars, KeyVars, turn, keep, armed, undo, undos, resumes, line, saved>>

\* The wire reaches the disk.
Flush ==
  /\ phase # "down" /\ saved # [line |-> line, wire |-> wire]
  /\ saved' = [line |-> line, wire |-> wire]
  /\ UNCHANGED <<TaskVars, KeyVars, TurnVars, SessionVars, line, odd>>

newerRestoredTask(existing, loaded) ==
  IF loaded = None THEN existing
  ELSE IF existing = None THEN loaded
  ELSE IF existing.status \in Ends /\ loaded.status \notin Ends THEN existing ELSE loaded

\* Replay, restoreGhostsFromWire and loadFromDisk.
Resume ==
  LET ghost == [t \in Tasks |-> newerRestoredTask(saved.wire[t], disk[t])] IN
  /\ phase = "down" /\ resumes < MaxResumes /\ resumes' = resumes + 1
  /\ phase' = "losing" /\ armed' = FALSE /\ undo' = "no" /\ turn' = FALSE /\ tool' = NoTool
  /\ line' = saved.line /\ wire' = saved.wire
  /\ at' = [t \in Tasks |-> IF ghost[t] = None THEN "none" ELSE "ghost"]
  /\ info' = [t \in Tasks |-> IF ghost[t] = None THEN NoInfo ELSE ghost[t]]
  /\ stopBy' = [t \in Tasks |-> "none"] /\ writes' = [t \in Tasks |-> <<>>]
  /\ delivered' = DeliveredIn(saved.line)
  /\ building' = {} /\ scheduled' = {} /\ pend' = {} /\ nudges' = <<>> /\ toRestore' = {}
  /\ odd' = odd \cup {<<t, "wait">> : t \in {u \in Tasks : Has(saved.line, "wait", u) /\ ~Has(saved.line, "result", u)}}
                \cup {<<t, "reminder">> : t \in {u \in Tasks : ghost[u] # None /\ ghost[u].reminded
                                                                /\ ~Has(saved.line, "rem", u)}}
                \cup {<<t, "stop">> : t \in {u \in Tasks : ghost[u] # None /\ ghost[u].supp /\ ghost[u].status \in Ends
                                              /\ ~ghost[u].closed /\ <<u, "exit">> \notin odd
                                              /\ ~Has(saved.line, "stop", u)}}
  /\ UNCHANGED <<keep, disk, saved, undos>>

\* A task that nobody runs any more; its file is written before the next one.
markLoadedTaskLost(t) ==
  /\ phase = "losing" /\ at[t] = "ghost" /\ info[t].status = "running"
  /\ info' = [info EXCEPT ![t].status = "lost"]
  /\ disk' = [disk EXCEPT ![t] = info'[t]]
  /\ UNCHANGED <<at, stopBy, writes, wire, KeyVars, TurnVars, SessionVars, line, saved, odd>>

isPreviousSessionTermination(i) == i.status = "lost" \/ (i.status = "killed" /\ i.supp /\ i.closed)

\* Mutant: the marker in the file is not looked at.
RemindAll == {t \in Tasks : at[t] = "ghost" /\ isPreviousSessionTermination(info[t])}

\* Ghosts appendPreviousSessionTasksReminder looks at.
Unreminded == {t \in Tasks : at[t] = "ghost" /\ ~info[t].reminded /\ isPreviousSessionTermination(info[t])}

\* The rest of reconcile: terminated records, the reminder and its markers.
appendPreviousSessionTasksReminder ==
  LET known == {t \in Unreminded : Has(line, "rem", t) \/ (info[t].status = "lost" /\ Key(t) \in delivered)}
      marked == [t \in Tasks |-> [info[t] EXCEPT !.reminded = @ \/ t \in Unreminded]]
  IN /\ phase = "losing" /\ \A t \in Tasks : at[t] = "ghost" => info[t].status \in Ends
     /\ phase' = "up"
     /\ wire' = [t \in Tasks |-> IF at[t] = "ghost" /\ info[t].status = "lost" THEN info[t] ELSE wire[t]]
     /\ line' = line \o ItemsOf("rem", {Key(t) : t \in Unreminded \ known})
     /\ info' = marked
     /\ writes' = [t \in Tasks |-> IF t \in Unreminded THEN <<marked[t]>> ELSE <<>>]
     /\ toRestore' = Listed
     /\ UNCHANGED <<at, stopBy, disk, building, scheduled, delivered, pend, nudges, TurnVars, keep, armed, undo,
                    undos, resumes, saved, odd>>

----------------------------------------------------------------------------
Stopped == phase = "down" /\ resumes = MaxResumes /\ UNCHANGED vars
Finished == Ready /\ ~turn /\ nudges = <<>> /\ building = {} /\ UNCHANGED vars

Next ==
  \/ Prompt \/ EndTurn \/ CutFormatting \/ consumeNudge
  \/ \E t \in Tasks : \/ registerTask(t) \/ writeTask(t) \/ settleTask(t, "completed") \/ settleTask(t, "killed")
                      \/ SuppressLate(t) \/ fireTerminalEffects(t) \/ restoreAgentTaskNotification(t)
                      \/ WaitFor({t}) \/ TaskStop(t) \/ stop(t) \/ StopReturns(t) \/ markLoadedTaskLost(t)
  \/ \E b \in building : notifyAgentTask(b) \/ RestoreAppends(b)
  \/ WaitFor({t \in Tasks : at[t] = "running"}) \/ WaitReturns \/ WaitEnds
  \/ markTasksDeliveredViaWait \/ WaitResult
  \/ undoNow \/ reconcileNotificationDeliveryAfterUndo \/ UndoEnds
  \/ suppressAllTerminalNotifications \/ stopAllOnExit \/ CloseEnds \/ Crash \/ Flush \/ Resume
  \/ appendPreviousSessionTasksReminder \/ Stopped \/ Finished

Spec == Init /\ [][Next]_vars

----------------------------------------------------------------------------
Automatic(t) == {i \in 1 .. Len(line) : line[i].t = t /\ line[i].k \in {"note", "rem"}}

(* The conversation never holds two automatic reports of one task, nor an  *)
(* automatic one after WaitFor has reported it: the end of the task, undo, *)
(* resume and the wait race for the same key (notifyAgentTask,             *)
(* restoreAgentTaskNotification, markTasksDeliveredViaWait).  Not so for a *)
(* task reported before its file was written (odd "early"): an undo or     *)
(* another task's WaitFor lists it, and after a crash it counts as lost.   *)
ReportedOnce ==
  \A t \in Tasks : <<t, "early">> \notin odd =>
    /\ Cardinality(Automatic(t)) <= 1
    /\ \A i \in Automatic(t), j \in 1 .. Len(line) : line[j].t = t /\ line[j].k = "wait" => j > i

OnItsWay(t) ==
  \/ \E b \in building : b.t = t
  \/ \E i \in 1 .. Len(nudges) : nudges[i][1] = t
  \/ \E key \in tool.keys : key[1] = t

InLine(t) == \E k \in {"note", "result", "stop", "rem"} : Has(line, k, t)

(* No task's end is forgotten: once it has ended and nothing is being      *)
(* restored, the conversation has its report or the report is on its way,  *)
(* also after an undo took the report away and after a resume.  The        *)
(* exceptions are the ones odd records: a task that completed while the    *)
(* session closed, a WaitFor or TaskStop whose result was lost, a TaskStop *)
(* that was undone, a reminder lost after its marker was written.          *)
NoneForgotten ==
  Ready => \A t \in Tasks : at[t] \in {"ended", "ghost"} /\ info[t].status \in Ends
                              => InLine(t) \/ OnItsWay(t) \/ \E why \in {"exit", "wait", "stop", "reminder"} : <<t, why>> \in odd

(* The conversation never says that a task is lost which it reported as    *)
(* completed or killed: files and wire may each be behind the other.  The  *)
(* exception is again the task reported before its file was written.       *)
OutcomesAgree ==
  \A i, j \in 1 .. Len(line) :
    line[i].t = line[j].t /\ <<line[i].t, "early">> \notin odd /\ line[i].s \in Ends /\ line[j].s \in Ends => line[i].s = line[j].s

=============================================================================
