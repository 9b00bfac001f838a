---------------------------- MODULE AgentMachine ----------------------------
(***************************************************************************)
(* The agent machine (human/agent/machine.ts) with the turn and tool       *)
(* actors it spawns: the prompt queue, the prompt gate, notifications,     *)
(* pause and abort, background tools, resets of the history and the        *)
(* messages it sends to the event store.                                   *)
(*                                                                         *)
(* XState actors run to completion: an event is taken from the mailbox,    *)
(* the transition and its `always` successors are computed, then messages  *)
(* are delivered and events emitted, in order.  A message to the turn is   *)
(* processed before the agent takes its next event, so the agent moves     *)
(* only when turnBox is empty.  Callers of the engine, listeners of its    *)
(* emitted events included, add inputs at the end of agentBox.             *)
(***************************************************************************)
EXTENDS TurnMachine, ToolMachine

CONSTANTS Prompts,            \* prompts a user may submit
          Notes,              \* notifications other components may send
          ReminderKeys,       \* keys of reminders
          HasGate,            \* is a promptGate configured?
          RestoredHistories,  \* histories the journal may hold at start
          MaxMailbox,         \* bound: inputs queued behind other events
          MaxResets           \* bound: history resets

ASSUME AgentAssumption ==
  /\ HasGate \in BOOLEAN
  /\ MaxMailbox \in Nat
  /\ MaxResets \in Nat
  /\ ToolCalls = ToolIds /\ IsFiniteSet(ToolIds)
  /\ << >> \in RestoredHistories
  /\ \A h \in RestoredHistories : IsHistory(h) /\ WellPaired(h)

Ids == Prompts \cup Notes \cup ToolIds

\* Whatever is delivered has an identity of its own, and is sent once: the
\* journal has not delivered it before, and no listener sends it again.
FreshIdentities ==
  /\ (Prompts \cup Notes) \cap ToolIds = {} /\ Prompts \cap Notes = {}
  /\ \A h \in RestoredHistories : Delivers(h) \cap Ids = {}
  /\ \A r \in Reactions : \A i \in DOMAIN r : r[i].type \notin {"input.submit", "input.notify"}

VARIABLES state,          \* state of the machine; idle has three substates
          messages,       \* its copy of the history
          queue,          \* submitted prompts that wait for a turn
          notifications,  \* entries for the next step or turn
          reminders,      \* keyed entries for the next step
          turnTools,      \* calls of the running turn
          background,     \* detached calls
          paused,
          gateHead,       \* the prompt handed to the running promptGateActor
          stored,         \* history once every dispatched store event is folded
          resetTo,        \* << >>, or <<history>> that a dispatched reset restores
          resets,         \* number of resets so far
          recovery,       \* the loop's recovery of a failed step
          overtaken,      \* history variable: did a turn overtake the last reset?
          accepted,       \* history variable: prompts and notes received so far
          dropped         \* history variable: ids removed on purpose

loopVars == <<recovery, overtaken>>
agentVars == <<state, messages, queue, notifications, reminders, turnTools, background,
               paused, gateHead, stored, resetTo, resets, loopVars, accepted, dropped>>
vars == <<agentVars, agentBox, turnVars, toolVars>>

Nobody == "nobody"
Idle == {"ready", "waiting", "gating"}
Running == {"active", "aborting"}

Init ==
  /\ state = "linking"
  /\ stored \in RestoredHistories
  /\ messages = << >> /\ queue = << >> /\ notifications = << >> /\ reminders = << >>
  /\ turnTools = {} /\ background = {} /\ paused = FALSE /\ gateHead = Nobody
  /\ resetTo = << >> /\ resets = 0 /\ accepted = {} /\ dropped = {}
  /\ recovery = "none" /\ overtaken = FALSE
  /\ agentBox = << >> /\ turnBox = << >> /\ turn = NoTurn
  /\ ToolInit

----------------------------------------------------------------------------
(* Building blocks, in terms of the context as the earlier actions of the  *)
(* same transition left it: msgs, st, notes, q, pz, bg stand for messages, *)
(* stored, notifications, queue, paused and background.                    *)

\* commitPendingToHistory and the entry of `running`: notifications and the
\* head of the queue join the history and a turn is spawned on it.
StartTurn(msgs, st, notes, q) ==
  LET committed == notes \o (IF q = << >> THEN << >> ELSE <<User({Head(q)})>>) IN
  /\ state' = "active"
  /\ messages' = msgs \o committed
  /\ stored' = st \o committed
  /\ notifications' = << >>
  /\ queue' = IF q = << >> THEN << >> ELSE Tail(q)
  /\ gateHead' = Nobody
  /\ turn' = FreshTurn

\* No transition is enabled: the context is as the actions left it.
StayAt(where, msgs, st, notes, q, head) ==
  /\ state' = where
  /\ messages' = msgs /\ stored' = st /\ notifications' = notes /\ queue' = q
  /\ gateHead' = head
  /\ turn' = NoTurn

\* The `always` transitions of idle.ready and idle.waiting.
Settle(here, msgs, st, notes, q, pz, bg) ==
  /\ \/ /\ ~pz /\ HasGate /\ q # << >>
        /\ StayAt("gating", msgs, st, notes, q, Head(q))
     \/ /\ ~pz /\ ~(HasGate /\ q # << >>) /\ (notes # << >> \/ q # << >>)
        /\ StartTurn(msgs, st, notes, q)
     \/ /\ pz \/ (notes = << >> /\ q = << >>)
        /\ StayAt(IF here = "ready" /\ bg # {} THEN "waiting" ELSE here, msgs, st, notes, q, Nobody)
  /\ paused' = pz
  /\ background' = bg

\* An assignment to the context, in whatever state the machine is.
UpdateContext(notes, q, pz, bg) ==
  \/ /\ state \in {"ready", "waiting"}
     /\ Settle(state, messages, stored, notes, q, pz, bg)
  \/ /\ state \notin {"ready", "waiting"}
     /\ notifications' = notes /\ queue' = q /\ paused' = pz /\ background' = bg
     /\ UNCHANGED <<state, messages, stored, gateHead, turn>>

\* tool.abort to the actors in ts, whose states are `tools`: those that still
\* prepare report tool.aborted.
AbortTools(ts, tools, rest) ==
  \E order \in SetToSeqs({t \in ts : tools[t] = "preparing"}) :
    /\ tool' = Aborted(ts, tools)
    /\ signalled' = signalled \cup ts
    /\ agentBox' = rest \o [i \in DOMAIN order |-> [type |-> "tool.aborted", tool |-> order[i]]]

\* stopTurnTools
StopTurnTools ==
  /\ tool' = Stopped(turnTools, tool)
  /\ signalled' = signalled \cup turnTools

\* Mutant: the turn's tools outlive it.
ExitRunningLeavesTools ==
  /\ turnTools' = {}
  /\ turnBox' = << >>
  /\ UNCHANGED toolVars

\* The exit of `running`: the turn actor and the tools of the turn are
\* stopped.  (A tool still preparing reports its abort first; the agent, with
\* turnTools emptied, drops the report.)
ExitRunning ==
  /\ StopTurnTools
  /\ turnTools' = {}
  /\ turnBox' = << >>
  /\ UNCHANGED detached

----------------------------------------------------------------------------
(* Inputs, as root handlers and handlers of single states.                 *)

Submit(p) ==
  /\ UpdateContext(notifications, Append(queue, p), paused, background)
  /\ accepted' = accepted \cup {p}
  /\ UNCHANGED <<reminders, turnTools, resetTo, resets, loopVars, dropped, turnBox, toolVars>>

\* The entry without content with which the loop asks for another request.
Retry ==
  /\ UpdateContext(Append(notifications, User({})), queue, paused, background)
  /\ UNCHANGED <<reminders, turnTools, resetTo, resets, loopVars, accepted, dropped, turnBox, toolVars>>

Notify(n) ==
  /\ UpdateContext(Append(notifications, User({n})), queue, paused, background)
  /\ accepted' = accepted \cup {n}
  /\ UNCHANGED <<reminders, turnTools, resetTo, resets, loopVars, dropped, turnBox, toolVars>>

Remind(key) ==
  /\ reminders' = Append(Without(reminders, {key}), key)
  /\ UNCHANGED <<state, messages, queue, notifications, turnTools, background, paused, gateHead,
                 stored, resetTo, resets, loopVars, accepted, dropped, turnVars, toolVars>>

\* The steered prompts leave the queue as one merged notification.
Steer(ids) ==
  LET steered == Range(queue) \cap ids
      rest == Without(queue, steered)
  IN
  /\ \/ /\ steered # {}
        /\ UpdateContext(Append(notifications, User(steered)), rest, paused, background)
     \/ /\ steered = {}
        /\ UpdateContext(notifications, queue, paused, background)
  /\ UNCHANGED <<reminders, turnTools, resetTo, resets, loopVars, accepted, dropped, turnBox, toolVars>>

Cancel(p) ==
  /\ UpdateContext(notifications, Without(queue, {p}), paused, background)
  /\ dropped' = dropped \cup ({p} \cap Range(queue))
  /\ UNCHANGED <<reminders, turnTools, resetTo, resets, loopVars, accepted, turnBox, toolVars>>

Pause ==
  /\ UpdateContext(notifications, queue, TRUE, background)
  /\ turnBox' = IF state \in Running THEN Append(turnBox, [type |-> "turn.pause"]) ELSE turnBox
  /\ UNCHANGED <<reminders, turnTools, resetTo, resets, loopVars, accepted, dropped, toolVars>>

\* Mutant: the resumption is not confined to the idle state.
ResumesChainAnywhere == notifications = << >> /\ queue = << >> /\ EndsMidToolChain(messages)

\* The guard with which idle takes input.continue.
ResumesChain ==
  state \in Idle /\ notifications = << >> /\ queue = << >> /\ EndsMidToolChain(messages)

\* input.continue: in idle, with nothing to do and a history that ends inside
\* a tool chain, it resumes the chain with a turn of its own.
Continue ==
  /\ \/ /\ ResumesChain
        /\ StartTurn(messages, stored, notifications, queue)
        /\ paused' = FALSE
        /\ UNCHANGED <<background, turnBox>>
     \/ /\ ~ResumesChain
        /\ UpdateContext(notifications, queue, FALSE, background)
        /\ turnBox' = IF state \in Running THEN Append(turnBox, [type |-> "turn.continue"]) ELSE turnBox
  /\ UNCHANGED <<reminders, turnTools, resetTo, resets, loopVars, accepted, dropped, toolVars>>

\* input.abort: the first asks the turn and its tools to stop, a second stops
\* the tools and makes the turn give up on them; without a turn it is ignored.
AbortInput(rest) ==
  /\ \/ /\ state = "active"
        /\ state' = "aborting"
        /\ turnBox' = Append(turnBox, [type |-> "turn.abort"])
        /\ AbortTools(turnTools, tool, rest)
     \/ /\ state = "aborting"
        /\ turnBox' = Append(turnBox, [type |-> "turn.abort"])
        /\ StopTurnTools
        /\ agentBox' = rest
        /\ UNCHANGED state
     \/ /\ state \notin Running
        /\ agentBox' = rest
        /\ UNCHANGED <<state, turnBox, tool, signalled>>
  /\ UNCHANGED <<messages, queue, notifications, reminders, turnTools, background, paused,
                 gateHead, stored, resetTo, resets, loopVars, accepted, dropped, turn, detached>>

\* input.close: what the running turn had produced is gone with it.  Entering
\* closing aborts the scope from which every tool's signal derives.
Close ==
  /\ state' = IF state = "linking" THEN "disposed" ELSE "closing"
  /\ dropped' = dropped \cup Delivers(turn.produced)
  /\ tool' = Stopped(turnTools, tool)
  /\ signalled' = signalled \cup LiveTools
  /\ turnTools' = {}
  /\ turnBox' = << >>
  /\ turn' = NoTurn
  /\ gateHead' = Nobody
  /\ UNCHANGED <<messages, queue, notifications, reminders, background, paused, stored, resetTo,
                 resets, loopVars, accepted, detached>>

----------------------------------------------------------------------------
(* Signals of the turn.                                                    *)

SpawnTools(calls, rest) ==
  LET ts == Range(calls) IN
  /\ \/ /\ state = "active"
        /\ turnTools' = turnTools \cup ts
        /\ tool' = Spawned(ts)
        /\ agentBox' = rest
        /\ UNCHANGED signalled
     \/ /\ state = "aborting"
        /\ turnTools' = turnTools \cup ts
        /\ AbortTools(ts, Spawned(ts), rest)
     \/ /\ state \notin Running
        /\ agentBox' = rest
        /\ UNCHANGED <<turnTools, tool, signalled>>
  /\ UNCHANGED <<state, messages, queue, notifications, reminders, background, paused, gateHead,
                 stored, resetTo, resets, loopVars, accepted, dropped, turnVars, detached>>

ReminderEntries == [i \in DOMAIN reminders |-> ReminderEntry(reminders[i])]

\* Mutant: notifications are cleared without being handed over.
PendingRemindersOnly == ReminderEntries

\* What turn.drain hands to the next step of the turn.
PendingEntries == notifications \o ReminderEntries

\* turn.drain: notifications and reminders are handed to the turn.
Drain ==
  /\ \/ /\ state \in Running
        /\ turnBox' = Append(turnBox, [type |-> "turn.notify", messages |-> PendingEntries])
        /\ notifications' = << >>
        /\ reminders' = << >>
     \/ /\ state \notin Running
        /\ UNCHANGED <<turnBox, notifications, reminders>>
  /\ UNCHANGED <<state, messages, queue, turnTools, background, paused, gateHead, stored, resetTo,
                 resets, loopVars, accepted, dropped, turn, toolVars>>

\* The last request of the turn was answered, without tool calls.
Answered ==
  turn.outcome = "none" /\ turn.produced # << >> /\ Last(turn.produced) = Assistant(<< >>)

\* The loop, whose gate is onBeforeStep, hears of the end of a turn; where a
\* step of it failed, an error handler may set about a recovery.
MayRecover ==
  \/ UNCHANGED recovery
  \/ /\ HasBeforeStep /\ recovery = "none" /\ state \in Running /\ ~Answered
     /\ recovery' = "handling"

\* xstate.done.actor.turn and xstate.error.actor.turn: the produced entries
\* are kept in the first case only.
TurnEnds(produced) ==
  /\ \/ /\ state \in Running
        /\ Settle("ready", messages \o produced, stored \o produced, notifications, queue, paused,
                  background)
        /\ ExitRunning
        /\ dropped' = dropped \cup (Delivers(turn.produced) \ Delivers(produced))
     \/ /\ state \notin Running
        /\ UNCHANGED <<state, messages, stored, notifications, queue, paused, background, gateHead,
                       turn, turnBox, turnTools, toolVars, dropped>>
  /\ MayRecover
  /\ UNCHANGED <<reminders, resetTo, resets, overtaken, accepted>>

----------------------------------------------------------------------------
(* Reports of tools.                                                       *)

\* Mutant: the failure of a background tool has no handler.
CompletesOnSuccess(ev) == ev.type = "tool.done" /\ ev.tool \in background

\* Does the report complete a background call?
Completes(ev) == ev.type \in {"tool.done", "tool.failed"} /\ ev.tool \in background

\* A report completes a background call (its completion becomes a
\* notification), detaches or answers a call of the turn, or is ignored.
ToolReport(ev) ==
  LET t == ev.tool
      detaches == ev.type = "tool.detached" /\ state \in Running /\ t \in turnTools
      answers == /\ ev.type # "tool.detached"
                 /\ state \in Running /\ t \in turnTools /\ t \notin background
  IN
  /\ \/ /\ Completes(ev)
        /\ UpdateContext(Append(notifications, User({t})), queue, paused, background \ {t})
        /\ UNCHANGED <<turnTools, turnBox>>
     \/ /\ detaches
        /\ turnTools' = turnTools \ {t}
        /\ background' = background \cup {t}
        /\ turnBox' = Append(turnBox, ev)
        /\ UNCHANGED <<state, messages, stored, notifications, queue, paused, gateHead, turn>>
     \/ /\ answers
        /\ turnBox' = Append(turnBox, ev)
        /\ UNCHANGED <<state, messages, stored, notifications, queue, paused, background, gateHead,
                       turn, turnTools>>
     \/ /\ ~Completes(ev) /\ ~detaches /\ ~answers
        /\ UNCHANGED <<state, messages, stored, notifications, queue, paused, background, gateHead,
                       turn, turnTools, turnBox>>
  /\ UNCHANGED <<reminders, resetTo, resets, loopVars, accepted, dropped>>

----------------------------------------------------------------------------
(* Linking, the event store and the prompt gate.                           *)

\* The scope factory resolves; the store actor publishes store.ready as it
\* starts.
ScopeLinked ==
  /\ Quiet /\ state = "linking"
  /\ state' = "restoring"
  /\ agentBox' = <<[type |-> "store.ready"]>>
  /\ UNCHANGED <<messages, queue, notifications, reminders, turnTools, background, paused, gateHead,
                 stored, resetTo, resets, loopVars, accepted, dropped, turnVars, toolVars>>

LinkFails ==
  /\ Quiet /\ state = "linking"
  /\ state' = "disposed"
  /\ UNCHANGED <<messages, queue, notifications, reminders, turnTools, background, paused, gateHead,
                 stored, resetTo, resets, loopVars, accepted, dropped, agentBox, turnVars, toolVars>>

\* store.ready: the history of the journal, ahead of what came in meanwhile.
StoreReady ==
  /\ \/ /\ state = "restoring"
        /\ Settle("ready", stored, stored, notifications, queue, paused, background)
     \/ /\ state # "restoring"
        /\ UNCHANGED <<state, messages, stored, notifications, queue, paused, background, gateHead, turn>>
  /\ UNCHANGED <<reminders, turnTools, resetTo, resets, loopVars, accepted, dropped, turnBox, toolVars>>

\* Mutant: the verdict is applied to whatever heads the queue by now.
VerdictIsStaleIfEmpty == paused \/ queue = << >>

VerdictIsStale == (~paused /\ queue # << >>) => Head(queue) # gateHead

\* promptGateActor resolves.  Its verdict counts only if its prompt is still
\* the head of the queue and the agent is not paused.
GateVerdict(verdict) ==
  /\ Quiet /\ state = "gating"
  /\ \/ /\ VerdictIsStale
        /\ Settle("ready", messages, stored, notifications, queue, paused, background)
        /\ UNCHANGED dropped
     \/ /\ ~VerdictIsStale /\ verdict = "allow"
        /\ StartTurn(messages, stored, notifications, queue)
        /\ UNCHANGED <<paused, background, dropped>>
     \/ /\ ~VerdictIsStale /\ verdict \in {"block", "error"}
        /\ Settle("ready", messages, stored, notifications, Tail(queue), paused, background)
        /\ dropped' = dropped \cup {Head(queue)}
  /\ UNCHANGED <<reminders, turnTools, resetTo, resets, loopVars, accepted, agentBox, turnBox, toolVars>>

\* Mutant: the machine is paused but its turn need not be over.
HoldsLeaseIfPaused == paused

\* The quiescence lease of the loop: the machine idles and is paused, and no
\* turn of the loop is under way.
HoldsLease == state \in {"ready", "waiting"} /\ paused /\ recovery = "none"

\* EventStore.reset: its fold is ahead of the machine until store.reset.
DispatchReset(history) ==
  /\ resetTo = << >> /\ resets < MaxResets
  /\ resetTo' = <<history>>
  /\ stored' = history
  /\ resets' = resets + 1
  /\ UNCHANGED <<state, messages, queue, notifications, reminders, turnTools, background, paused,
                 gateHead, overtaken, accepted, dropped, agentBox, turnVars, toolVars>>

\* resetJournal: called under the quiescence lease, and the loop does not
\* resume before the reset has been folded.
RequestReset(history) ==
  /\ Quiet /\ HoldsLease
  /\ DispatchReset(history)
  /\ UNCHANGED recovery

\* resetHistory, for a handler that asked for a retry: no lease is taken and
\* the machine is not paused, so a turn may start before store.reset.
RecoveryReset(history) ==
  /\ Quiet /\ recovery = "handling" /\ state # "disposed"
  /\ DispatchReset(history)
  /\ recovery' = "resetting"

\* resetHistory returns, and the retry is asked for.
RecoveryRetries ==
  /\ Quiet /\ recovery = "resetting" /\ resetTo = << >> /\ state # "disposed"
  /\ recovery' = "none"
  /\ agentBox' = <<[type |-> "input.retry"]>>
  /\ UNCHANGED <<state, messages, queue, notifications, reminders, turnTools, background, paused,
                 gateHead, stored, resetTo, resets, overtaken, accepted, dropped, turnVars, toolVars>>

\* The handler declines, throws, or needs no retry.
RecoveryEnds ==
  /\ Quiet /\ recovery = "handling"
  /\ recovery' = "none"
  /\ UNCHANGED <<state, messages, queue, notifications, reminders, turnTools, background, paused,
                 gateHead, stored, resetTo, resets, overtaken, accepted, dropped, agentBox, turnVars,
                 toolVars>>

\* store.reset: the machine is idle again, whatever it was doing, with the
\* store's history, notifications and reminders and its own queue.
StoreReset ==
  LET history == Head(resetTo)
      lost == Delivers(messages) \cup Delivers(notifications) \cup Delivers(turn.produced) \cup background
  IN
  /\ Quiet /\ resetTo # << >> /\ state # "disposed"
  /\ resetTo' = << >>
  /\ Settle("ready", history, stored, << >>, queue, paused, {})
  /\ reminders' = << >>
  /\ tool' = Stopped(turnTools, tool)
  /\ signalled' = signalled \cup LiveTools
  /\ turnTools' = {}
  /\ turnBox' = << >>
  /\ dropped' = dropped \cup (lost \ Delivers(history))
  /\ overtaken' = (recovery = "resetting" /\ stored # history)
  /\ UNCHANGED <<resets, recovery, accepted, agentBox, detached>>

\* disposeScopeActor settles; a final machine stops its actors.
Disposed ==
  /\ Quiet /\ state = "closing"
  /\ state' = "disposed"
  /\ tool' = Stopped(ToolCalls, tool)
  /\ UNCHANGED <<messages, queue, notifications, reminders, turnTools, background, paused, gateHead,
                 stored, resetTo, resets, loopVars, accepted, dropped, agentBox, turnVars, signalled, detached>>
----------------------------------------------------------------------------
(* Steps.                                                                  *)

\* The agent takes the next event from its mailbox.
AgentReceives ==
  /\ turnBox = << >> /\ agentBox # << >> /\ state # "disposed"
  /\ LET ev == Head(agentBox)
         rest == Tail(agentBox)
     IN \/ /\ \/ ev.type = "input.submit" /\ Submit(ev.id)
              \/ ev.type = "input.notify" /\ Notify(ev.id)
              \/ ev.type = "input.retry" /\ Retry
              \/ ev.type = "input.remind" /\ Remind(ev.id)
              \/ ev.type = "input.steer" /\ Steer(ev.ids)
              \/ ev.type = "input.cancel" /\ Cancel(ev.id)
              \/ ev.type = "input.pause" /\ Pause
              \/ ev.type = "input.continue" /\ Continue
              \/ ev.type = "input.close" /\ Close
              \/ ev.type = "turn.drain" /\ Drain
              \/ ev.type = "turn.done" /\ TurnEnds(turn.produced)
              \/ ev.type = "turn.error" /\ TurnEnds(<< >>)
              \/ ev.type = "store.ready" /\ StoreReady
              \/ ev.type = "tool.aborted" /\ ToolReport(ev) /\ UNCHANGED toolVars
           /\ agentBox' = rest
        \/ ev.type = "input.abort" /\ AbortInput(rest)
        \/ ev.type = "turn.spawn_tools" /\ SpawnTools(ev.calls, rest)

\* Whoever holds the engine sends an input.
Send(input) ==
  /\ turnBox = << >> /\ Len(agentBox) < MaxMailbox /\ state # "disposed"
  /\ agentBox' = Append(agentBox, input)
  /\ UNCHANGED <<agentVars, turnVars, toolVars>>

InBox(x) == \E i \in DOMAIN agentBox : agentBox[i].type \in {"input.submit", "input.notify"} /\ agentBox[i].id = x

SendInput ==
  \/ \E p \in Prompts \ accepted : ~InBox(p) /\ Send([type |-> "input.submit", id |-> p])
  \/ \E n \in Notes \ accepted : ~InBox(n) /\ Send([type |-> "input.notify", id |-> n])
  \/ \E k \in ReminderKeys : Send([type |-> "input.remind", id |-> k])
  \/ \E ids \in SUBSET Range(queue) \ {{}} : Send([type |-> "input.steer", ids |-> ids])
  \/ \E p \in Range(queue) : Send([type |-> "input.cancel", id |-> p])
  \/ Send([type |-> "input.abort"])
  \/ Send([type |-> "input.pause"])
  \/ (resetTo = << >> \/ recovery = "resetting") /\ Send([type |-> "input.continue"])
  \/ Send([type |-> "input.close"])

\* A tool reports while nothing else is being processed.
ToolStep(t) ==
  /\ Quiet /\ state # "disposed"
  /\ UNCHANGED agentBox
  /\ \/ (ToolPrepared(t) \/ ToolExecuted(t)) /\ UNCHANGED <<agentVars, turnVars>>
     \/ ToolDetaches(t) /\ ToolReport([type |-> "tool.detached", tool |-> t])
     \/ ToolSucceeds(t) /\ ToolReport([type |-> "tool.done", tool |-> t])
     \/ ToolRejects(t)
        /\ ToolReport([type |-> IF t \in signalled THEN "tool.aborted" ELSE "tool.failed", tool |-> t])

\* The abortTimeout of running.aborting.
AbortTimeout ==
  /\ Quiet /\ state = "aborting"
  /\ turnBox' = Append(turnBox, [type |-> "turn.abort"])
  /\ StopTurnTools
  /\ UNCHANGED <<agentVars, agentBox, turn, detached>>

\* Tool calls carry identities that are new to the conversation
\* (ToolCallIdNormalizer).
FreshCalls == UNION {SetToSeqs(ts) : ts \in SUBSET {t \in ToolIds : tool[t] = "none"} \ {{}}}

\* onBeforeStep, the loop's gate, waits for a recovery to end.
LlmStep ==
  /\ \/ \E calls \in FreshCalls, r \in Reactions : LlmCallsTools(calls, r)
     \/ \E r \in Reactions : LlmAnswers(r) \/ LlmFails(r)
     \/ LlmFailureRecovered \/ LlmFailureRetried \/ TurnThrows
     \/ recovery = "none" /\ (BeforeStepDone \/ BeforeStepFails)
  /\ UNCHANGED <<agentVars, toolVars>>

TurnTimer == (RetryDelayElapses \/ AbortGraceElapses) /\ UNCHANGED <<agentVars, toolVars>>

TurnStep == TurnReceives /\ UNCHANGED <<agentVars, toolVars>>

ResetHistories == {SubSeq(messages, 1, k) : k \in 0 .. Len(messages)}

Next ==
  \/ AgentReceives
  \/ TurnStep
  \/ SendInput
  \/ \E t \in ToolIds : ToolStep(t)
  \/ LlmStep
  \/ TurnTimer
  \/ AbortTimeout
  \/ ScopeLinked \/ LinkFails \/ StoreReset \/ Disposed
  \/ \E v \in {"allow", "block", "error"} : GateVerdict(v)
  \/ \E h \in {x \in ResetHistories : WellPaired(x)} : RequestReset(h) \/ RecoveryReset(h)
  \/ RecoveryRetries \/ RecoveryEnds

\* Mailboxes are processed, and a timer that was set fires.
Fairness ==
  /\ WF_vars(AgentReceives)
  /\ WF_vars(TurnStep)
  /\ SF_vars(TurnTimer)
  /\ SF_vars(AbortTimeout)

Spec == Init /\ [][Next]_vars /\ Fairness

----------------------------------------------------------------------------
(* Properties.                                                             *)

TypeOK ==
  /\ state \in {"linking", "restoring", "closing", "disposed"} \cup Idle \cup Running
  /\ queue \in Seq(Prompts)
  /\ turnTools \subseteq ToolIds /\ background \subseteq ToolIds
  /\ paused \in BOOLEAN
  /\ gateHead \in Prompts \cup {Nobody}
  /\ resets \in 0 .. MaxResets
  /\ recovery \in {"none", "handling", "resetting"} /\ overtaken \in BOOLEAN
  /\ TurnTypeOK
  /\ ToolTypeOK

\* Whatever the order of tool results, detachments, aborts, timeouts and
\* resets: in the history, and in what the turn has produced so far, every
\* tool call of the model is followed by exactly its result -- except for the
\* calls of the batch that is running.
EveryCallAnsweredOnce ==
  /\ WellPaired(messages)
  /\ turn.state \in {"acting", "acting.aborting"} =>
       /\ turn.produced # << >>
       /\ Last(turn.produced) = Assistant(turn.pending)
       /\ WellPaired(Front(turn.produced))
  /\ turn.state \notin {"acting", "acting.aborting"} => WellPaired(turn.produced)

\* The places where the delivery of x may be.
Places(x) ==
  [queued    |-> Cardinality({i \in DOMAIN queue : queue[i] = x}),
   notified  |-> Cardinality(Deliveries(notifications, x)),
   sent      |-> Cardinality({i \in DOMAIN turnBox : turnBox[i].type = "turn.notify"
                                 /\ x \in Delivers(turnBox[i].messages)}),
   produced  |-> Cardinality(Deliveries(turn.produced, x)),
   committed |-> Cardinality(Deliveries(messages, x)),
   dropped   |-> IF x \in dropped THEN 1 ELSE 0]

Copies(x) ==
  LET p == Places(x) IN p.queued + p.notified + p.sent + p.produced + p.committed + p.dropped

Finished == {t \in detached : tool[t] \in {"succeeded", "failed"}}

\* A prompt, a notification and the completion of a background tool reach the
\* conversation once: they are in exactly one of the queue, the pending
\* notifications, the running turn and the history, unless they were
\* cancelled, refused by the gate, or lost with a turn that threw, a reset or
\* a close.  Steering, gating, draining, aborting and pausing neither lose nor
\* repeat one.
NothingLostOrRepeated ==
  /\ \A x \in Ids : Copies(x) <= 1
  /\ \A x \in accepted \cup Finished : Copies(x) = 1

\* A tool that still runs belongs to the running turn or is in the background,
\* and outside a turn none belongs to a turn; a reset or a close may leave a
\* background tool behind, but only one that has been told to stop.
LiveToolsAreOwned ==
  /\ LiveTools \subseteq turnTools \cup background
                         \cup (IF resets > 0 THEN signalled ELSE {})
  /\ state \notin Running => turnTools = {}

\* A background entry disappears when its tool has finished -- except when the
\* tool was aborted first and detached afterwards: it then ends with
\* tool.aborted, which no handler takes for a background call.
BackgroundEntriesSettle ==
  \A t \in background : tool[t] \in {"succeeded", "failed", "aborted"} =>
     tool[t] = "aborted" /\ t \in signalled

\* The events dispatched to the store fold into the very history the machine
\* works with, in every state after the journal was read and unless a reset
\* is under way -- or was overtaken: a recovery resets the history while the
\* machine is free to start a turn, and a prompt, or a notification, that this
\* turn has committed by the time of store.reset stays in the store and is
\* gone from the machine, until another reset.
StoreFollowsMachine ==
  (/\ state \notin {"linking", "restoring", "closing", "disposed"}
   /\ resetTo = << >> /\ ~overtaken) => stored = messages

\* A prompt leaves the queue for the history only under a verdict given for
\* that prompt: a verdict that arrives after its prompt was cancelled or
\* steered away is not applied to the next one.
PromptsPassTheGate ==
  [][\A p \in Prompts :
       (HasGate /\ p \in Range(queue) /\ p \in Delivers(messages') \ Delivers(messages))
          => gateHead = p]_vars

\* A closing agent does not come back to life, unless a reset of its history
\* was under way when it was closed, or a recovery asks for one after that.
ClosingIsFinal ==
  [][(state \in {"closing", "disposed"} /\ resetTo = << >>) => state' \in {"closing", "disposed"}]_vars

\* An aborted turn ends, even if none of its tools ever settles.
AbortEndsTheTurn == state = "aborting" ~> state # "aborting"
=============================================================================
