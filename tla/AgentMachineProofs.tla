------------------------- MODULE AgentMachineProofs -------------------------
(***************************************************************************)
(* The agent machine with its turn and its tools, for any number of tool   *)
(* calls, prompts and notes, with and without gates, and for every order   *)
(* of inputs, reports, timeouts and resets.                                *)
(*                                                                         *)
(* First who owns a tool that runs (ToolsOK, inductive by itself), and     *)
(* that a closed machine stays closed.  Then the history: that the store   *)
(* folds into the machine's own copy, however resets are interleaved       *)
(* (StoreOK), and that every tool call in it is followed by its result     *)
(* (PairingOK), which rests on the turn reporting its end once.            *)
(*                                                                         *)
(* Last the deliveries: a prompt, a notification or the completion of a    *)
(* background call is in one place at a time (Accounts, in DeliveriesOK).  *)
(* That rests on the order in which agent and turn tell each other things  *)
(* (SignalsOK): what the agent drains for the turn reaches a turn that is  *)
(* still draining.  What gates a prompt follows, as a prompt that waits in *)
(* the queue is nowhere else; and type correctness, with the bounds on the *)
(* steps and attempts of a turn.                                           *)
(***************************************************************************)
EXTENDS AgentMachine, SequenceTheorems, FiniteSetTheorems, FunctionTheorems, TLAPS

ToolsOK ==
  /\ tool \in [ToolCalls -> ToolStates] /\ background \subseteq ToolCalls
  /\ resets \in Nat /\ (resetTo # << >> => resets > 0)
  /\ LiveToolsAreOwned
  /\ BackgroundEntriesSettle

Over == {"closing", "disposed"}

\* The steps of a recovery that leave the machine and the store alone.
LoopSteps == RecoveryRetries \/ RecoveryEnds

----------------------------------------------------------------------------
(* What the building blocks of the machine do.                             *)

\* The entries that StartTurn adds to the history.
Committed(notes, q) == notes \o (IF q = << >> THEN << >> ELSE <<User({Head(q)})>>)

\* An idle machine stays idle with its context as it was given, or it starts a
\* turn on the history with what was pending; paused, it does not.
Settles(msgs, st, notes, q, pz) ==
  \/ /\ state' \in Idle /\ turn' = NoTurn
     /\ messages' = msgs /\ stored' = st /\ notifications' = notes
     /\ pz => state' \in {"ready", "waiting"}
  \/ /\ state' = "active" /\ turn' = FreshTurn /\ ~pz
     /\ messages' = msgs \o Committed(notes, q) /\ stored' = st \o Committed(notes, q)
     /\ notifications' = << >>

\* The `always` transitions of the idle state.
LEMMA SettleEffect ==
  ASSUME NEW here \in {"ready", "waiting"}, NEW msgs, NEW st, NEW notes, NEW q, NEW pz, NEW bg,
         Settle(here, msgs, st, notes, q, pz, bg)
  PROVE  paused' = pz /\ background' = bg /\ Settles(msgs, st, notes, q, pz)
<1>1. paused' = pz /\ background' = bg
  BY DEF Settle
<1>2. CASE ~pz /\ HasGate /\ q # << >> /\ StayAt("gating", msgs, st, notes, q, Head(q))
  BY <1>1, <1>2 DEF StayAt, Settles, Idle
<1>3. CASE ~pz /\ StartTurn(msgs, st, notes, q)
  BY <1>1, <1>3 DEF StartTurn, Settles, Committed
<1>4. CASE StayAt(IF here = "ready" /\ bg # {} THEN "waiting" ELSE here, msgs, st, notes, q, Nobody)
  BY <1>1, <1>4 DEF StayAt, Settles, Idle
<1> QED
  BY <1>1, <1>2, <1>3, <1>4 DEF Settle

\* An assignment to the context makes an idle machine settle and is all that
\* happens in any other state.
LEMMA UpdateEffect ==
  ASSUME NEW notes, NEW q, NEW pz, NEW bg, UpdateContext(notes, q, pz, bg)
  PROVE  /\ paused' = pz /\ background' = bg
         /\ \/ state \in {"ready", "waiting"} /\ Settles(messages, stored, notes, q, pz)
            \/ /\ state \notin {"ready", "waiting"} /\ notifications' = notes
               /\ UNCHANGED <<state, messages, stored, turn>>
<1>1. CASE state \in {"ready", "waiting"}
  BY <1>1, SettleEffect DEF UpdateContext
<1>2. CASE state \notin {"ready", "waiting"}
  BY <1>2 DEF UpdateContext
<1> QED
  BY <1>1, <1>2

----------------------------------------------------------------------------
(* Tools.                                                                  *)

\* A machine that is linking has spawned no tool.
LEMMA ToolsInit == Init => ToolsOK
BY DEF Init, ToolInit, ToolsOK, ToolStates, LiveStates, LiveTools, LiveToolsAreOwned, Running,
       BackgroundEntriesSettle

\* A step that concerns no tool, and does not leave a turn.
LEMMA ToolsUntouched ==
  ASSUME ToolsOK, UNCHANGED <<tool, signalled, turnTools, background, resets, resetTo>>,
         state \in Running => state' \in Running
  PROVE  ToolsOK'
BY DEF ToolsOK, LiveToolsAreOwned, LiveTools, BackgroundEntriesSettle

\* Inputs that concern the queue and the notifications, and the end of
\* linking, gating and draining.
LEMMA ToolsFreeSteps ==
  ASSUME ToolsOK,
         \/ \E x : Submit(x) \/ Notify(x) \/ Retry \/ Remind(x) \/ Steer(x) \/ Cancel(x)
         \/ Pause \/ Continue \/ Drain \/ StoreReady
         \/ \E v \in {"allow", "block", "error"} : GateVerdict(v)
         \/ ScopeLinked \/ LinkFails \/ LlmStep \/ TurnTimer \/ TurnStep \/ SendInput \/ LoopSteps
  PROVE  ToolsOK'
<1> USE DEF toolVars, agentVars, Idle, Running
<1>1. CASE \E notes, q, pz : UpdateContext(notes, q, pz, background)
           /\ UNCHANGED <<turnTools, resetTo, resets, tool, signalled>>
  BY <1>1, UpdateEffect, ToolsUntouched DEF Settles
<1>2. CASE \E x : Submit(x) \/ Notify(x) \/ Retry \/ Remind(x) \/ Cancel(x)
  BY <1>1, <1>2, ToolsUntouched DEF Submit, Notify, Retry, Remind, Cancel
<1>3. CASE \E x : Steer(x)
  BY <1>1, <1>3 DEF Steer
<1>4. CASE Pause
  BY <1>1, <1>4 DEF Pause
<1>5. CASE Continue
  BY <1>1, <1>5, ToolsUntouched DEF Continue, StartTurn, ResumesChain
<1>6. CASE Drain
  BY <1>6, ToolsUntouched DEF Drain
<1>7. CASE StoreReady
  BY <1>7, SettleEffect, ToolsUntouched DEF StoreReady, Settles
<1>8. CASE \E v \in {"allow", "block", "error"} : GateVerdict(v)
  BY <1>8, SettleEffect, ToolsUntouched DEF GateVerdict, StartTurn, Settles
<1>9. CASE ScopeLinked \/ LinkFails
  BY <1>9, ToolsUntouched DEF ScopeLinked, LinkFails
<1>10. CASE LlmStep \/ TurnTimer \/ TurnStep
  BY <1>10, ToolsUntouched DEF LlmStep, TurnTimer, TurnStep
<1>11. CASE SendInput \/ LoopSteps
  BY <1>11, ToolsUntouched DEF SendInput, LoopSteps, RecoveryRetries, RecoveryEnds, Send
<1> QED
  BY <1>2, <1>3, <1>4, <1>5, <1>6, <1>7, <1>8, <1>9, <1>10, <1>11

\* What stopping, aborting and spawning the actors in ts makes of the actors
\* in the states `tools`.
LEMMA ActorEffects ==
  ASSUME NEW ts, NEW tools \in [ToolCalls -> ToolStates]
  PROVE  /\ Stopped(ts, tools) \in [ToolCalls -> ToolStates]
         /\ \A t \in ToolCalls :
              \/ Stopped(ts, tools)[t] = tools[t] /\ (t \in ts => tools[t] \notin LiveStates)
              \/ t \in ts /\ tools[t] \in LiveStates /\ Stopped(ts, tools)[t] = "stopped"
         /\ Aborted(ts, tools) \in [ToolCalls -> ToolStates]
         /\ \A t \in ToolCalls :
              \/ Aborted(ts, tools)[t] = tools[t]
              \/ t \in ts /\ tools[t] = "preparing" /\ Aborted(ts, tools)[t] = "aborted"
BY DEF Stopped, Aborted, ToolStates, LiveStates

\* Actors that are stopped, with or without their signal, and that the agent
\* no longer counts among the turn's: what lives on is in the background.
LEMMA TurnToolsStop ==
  ASSUME ToolsOK, tool' = Stopped(turnTools, tool), turnTools' = {},
         signalled \subseteq signalled', background' = background, UNCHANGED <<resets, resetTo>>
  PROVE  ToolsOK'
<1>1. /\ tool' \in [ToolCalls -> ToolStates]
      /\ \A t \in ToolCalls :
           \/ tool'[t] = tool[t] /\ (t \in turnTools => tool[t] \notin LiveStates)
           \/ t \in turnTools /\ tool'[t] = "stopped"
  BY ActorEffects DEF ToolsOK
<1>2. LiveToolsAreOwned'
  BY <1>1 DEF ToolsOK, LiveToolsAreOwned, LiveTools, LiveStates
<1>3. BackgroundEntriesSettle'
  BY <1>1 DEF ToolsOK, BackgroundEntriesSettle, LiveToolsAreOwned
<1> QED
  BY <1>1, <1>2, <1>3 DEF ToolsOK

\* The steps of an abort, and the spawning of tools.
LEMMA ToolsAbortSteps ==
  ASSUME ToolsOK,
         \/ \E rest : AbortInput(rest)
         \/ \E calls, rest : SpawnTools(calls, rest)
         \/ AbortTimeout
  PROVE  ToolsOK'
<1> USE DEF Running, LiveStates
<1>1. ASSUME NEW ts, NEW tools \in [ToolCalls -> ToolStates], NEW rest, AbortTools(ts, tools, rest)
      PROVE  /\ tool' \in [ToolCalls -> ToolStates]
             /\ \A t \in ToolCalls : tool'[t] = tools[t] \/ (tool'[t] = "aborted" /\ t \in signalled')
             /\ signalled \subseteq signalled'
  BY <1>1, ActorEffects DEF AbortTools
<1>2. CASE /\ tool' \in [ToolCalls -> ToolStates] /\ signalled \subseteq signalled'
           /\ \A t \in ToolCalls : \/ tool'[t] = tool[t] 
                                   \/ tool'[t] = "aborted" /\ t \in signalled'
                                   \/ tool'[t] = "stopped"
                                   \/ tool'[t] = "preparing" /\ t \in turnTools'
           /\ turnTools \subseteq turnTools' /\ (state \notin Running => turnTools' = turnTools)
           /\ state \in Running => state' \in Running
           /\ UNCHANGED <<background, resets, resetTo>>
  <2>1. LiveToolsAreOwned'
    BY <1>2 DEF ToolsOK, LiveToolsAreOwned, LiveTools
  <2>2. BackgroundEntriesSettle'
    BY <1>2 DEF ToolsOK, BackgroundEntriesSettle
  <2> QED
    BY <1>2, <2>1, <2>2 DEF ToolsOK
<1>3. CASE \E rest : AbortInput(rest)
  <2>1. PICK rest : AbortInput(rest)
    BY <1>3
  <2>2. CASE state = "active"
    BY <1>1, <1>2, <2>1, <2>2 DEF AbortInput, ToolsOK
  <2>3. CASE state = "aborting"
    BY <1>2, <2>1, <2>3, ActorEffects DEF AbortInput, StopTurnTools, ToolsOK
  <2>4. CASE state \notin Running
    BY <2>1, <2>4, ToolsUntouched DEF AbortInput
  <2> QED
    BY <2>2, <2>3, <2>4
<1>4. CASE \E calls, rest : SpawnTools(calls, rest)
  <2>1. PICK calls, rest : SpawnTools(calls, rest)
    BY <1>4
  <2> DEFINE ts == Range(calls)
  <2>2. /\ Spawned(ts) \in [ToolCalls -> ToolStates]
        /\ \A t \in ToolCalls : Spawned(ts)[t] = tool[t] \/ (Spawned(ts)[t] = "preparing" /\ t \in ts)
    BY DEF Spawned, ToolsOK, ToolStates
  <2>3. /\ UNCHANGED <<state, background, resets, resetTo>>
        /\ \/ state = "active" /\ turnTools' = turnTools \cup ts /\ tool' = Spawned(ts) /\ UNCHANGED signalled
           \/ state = "aborting" /\ turnTools' = turnTools \cup ts /\ AbortTools(ts, Spawned(ts), rest)
           \/ state \notin Running /\ UNCHANGED <<turnTools, tool, signalled>>
    BY <2>1 DEF SpawnTools
  <2> HIDE DEF ts
  <2>4. CASE state = "active"
    BY <1>2, <2>2, <2>3, <2>4
  <2>5. CASE state = "aborting"
    BY <1>1, <1>2, <2>2, <2>3, <2>5
  <2>6. CASE state \notin Running
    BY <2>3, <2>6, ToolsUntouched
  <2> QED
    BY <2>4, <2>5, <2>6
<1>5. CASE AbortTimeout
  BY <1>2, <1>5, ActorEffects DEF AbortTimeout, StopTurnTools, ToolsOK, agentVars
<1> QED
  BY <1>3, <1>4, <1>5

\* The end of a turn, a reset and the end of the machine stop the tools of the
\* turn; a reset also forgets the background, whose tools have their signal.
LEMMA ToolsEndSteps ==
  ASSUME ToolsOK,
         \/ \E produced : TurnEnds(produced)
         \/ Close \/ \E h : RequestReset(h) \/ RecoveryReset(h)
         \/ StoreReset \/ Disposed
  PROVE  ToolsOK'
<1>1. CASE \E produced : TurnEnds(produced)
  <2>1. CASE state \in Running
    BY <1>1, <2>1, TurnToolsStop, SettleEffect DEF TurnEnds, ExitRunning, StopTurnTools
  <2>2. CASE state \notin Running
    BY <1>1, <2>2, ToolsUntouched DEF TurnEnds, toolVars
  <2> QED
    BY <2>1, <2>2
<1>2. CASE Close
  BY <1>2, TurnToolsStop DEF Close
<1>3. CASE \E h : RequestReset(h) \/ RecoveryReset(h)
  <2>1. /\ resets' = resets + 1
        /\ UNCHANGED <<state, turnTools, background, tool, signalled>>
    BY <1>3 DEF RequestReset, RecoveryReset, DispatchReset, toolVars
  <2> QED
    BY <2>1 DEF ToolsOK, LiveToolsAreOwned, LiveTools, BackgroundEntriesSettle
<1>4. CASE StoreReset
  <2>1. /\ resets > 0 /\ resetTo' = << >> /\ resets' = resets /\ background' = {} /\ turnTools' = {}
        /\ tool' = Stopped(turnTools, tool) /\ signalled' = signalled \cup LiveTools
    BY <1>4, SettleEffect DEF StoreReset, ToolsOK
  <2>2. /\ tool' \in [ToolCalls -> ToolStates]
        /\ \A t \in ToolCalls : tool'[t] = tool[t] \/ tool'[t] = "stopped"
    BY <2>1, ActorEffects DEF ToolsOK
  <2> QED
    BY <2>1, <2>2 DEF ToolsOK, LiveToolsAreOwned, LiveTools, BackgroundEntriesSettle, LiveStates
<1>5. CASE Disposed
  <2>1. /\ state \notin Running /\ state' \notin Running /\ tool' = Stopped(ToolCalls, tool)
        /\ UNCHANGED <<turnTools, background, resets, resetTo, signalled>>
    BY <1>5 DEF Disposed, Running
  <2>2. /\ tool' \in [ToolCalls -> ToolStates]
        /\ \A t \in ToolCalls : (tool'[t] = tool[t] /\ tool[t] \notin LiveStates) \/ tool'[t] = "stopped"
    BY <2>1, ActorEffects DEF ToolsOK
  <2> QED
    BY <2>1, <2>2 DEF ToolsOK, LiveToolsAreOwned, LiveTools, BackgroundEntriesSettle, LiveStates
<1> QED
  BY <1>1, <1>2, <1>3, <1>4, <1>5

\* What the report of a tool does to the books: a detached call moves to the
\* background, a completed one leaves it, and nothing else is touched.
LEMMA ReportEffect ==
  ASSUME NEW ev, ToolReport(ev)
  PROVE  /\ state \in Running => state' \in Running
         /\ UNCHANGED <<resets, resetTo>>
         /\ \/ Completes(ev) /\ turnTools' = turnTools /\ background' = background \ {ev.tool}
            \/ /\ ev.type = "tool.detached" /\ ev.tool \in turnTools /\ state \in Running
               /\ turnTools' = turnTools \ {ev.tool} /\ background' = background \cup {ev.tool}
            \/ ~Completes(ev) /\ UNCHANGED <<turnTools, background>>
<1>1. CASE Completes(ev)
  BY <1>1, UpdateEffect DEF ToolReport, Completes, Running, Settles
<1>2. CASE ~Completes(ev)
  BY <1>2 DEF ToolReport
<1> QED
  BY <1>1, <1>2

\* A step of a tool, and a report of an abort that was queued.
LEMMA ToolsReportSteps ==
  ASSUME ToolsOK,
         \/ \E t \in ToolIds : ToolStep(t)
         \/ \E ev : ev.type = "tool.aborted" /\ ToolReport(ev) /\ UNCHANGED toolVars
  PROVE  ToolsOK'
<1>1. CASE \E ev : ev.type = "tool.aborted" /\ ToolReport(ev) /\ UNCHANGED toolVars
  <2>1. PICK ev : ev.type = "tool.aborted" /\ ToolReport(ev) /\ UNCHANGED toolVars
    BY <1>1
  <2>2. ~Completes(ev)
    BY <2>1 DEF Completes
  <2>3. /\ UNCHANGED <<tool, signalled, turnTools, background, resets, resetTo>>
        /\ state \in Running => state' \in Running
    BY <2>1, <2>2, ReportEffect DEF toolVars
  <2> QED
    BY <2>3, ToolsUntouched
<1>2. ASSUME NEW t \in ToolIds, ToolStep(t)
      PROVE  ToolsOK'
  <2> t \in ToolCalls
    BY AgentAssumption
  <2>1. CASE (ToolPrepared(t) \/ ToolExecuted(t)) /\ UNCHANGED <<agentVars, turnVars>>
    <3>1. /\ tool[t] \in LiveStates
          /\ tool' = [tool EXCEPT ![t] = tool'[t]] /\ tool'[t] \in LiveStates
          /\ UNCHANGED <<state, signalled, turnTools, background, resets, resetTo>>
      BY <2>1 DEF ToolPrepared, ToolExecuted, agentVars, LiveStates, ToolsOK
    <3> QED
      BY <3>1 DEF ToolsOK, LiveToolsAreOwned, LiveTools, BackgroundEntriesSettle, LiveStates, ToolStates
  <2>2. CASE ToolDetaches(t) /\ ToolReport([type |-> "tool.detached", tool |-> t])
    <3>1. ~Completes([type |-> "tool.detached", tool |-> t])
      BY DEF Completes
    <3>2. /\ state \in Running => state' \in Running
          /\ UNCHANGED <<resets, resetTo>>
          /\ \/ t \in turnTools /\ state \in Running /\ turnTools' = turnTools \ {t} /\ background' = background \cup {t}
             \/ UNCHANGED <<turnTools, background>>
      BY <2>2, <3>1, ReportEffect
    <3>3. tool[t] = "executing" /\ UNCHANGED <<tool, signalled>>
      BY <2>2 DEF ToolDetaches
    <3> QED
      BY <3>2, <3>3 DEF ToolsOK, LiveToolsAreOwned, LiveTools, BackgroundEntriesSettle
  <2>3. ASSUME NEW type, ToolReport([type |-> type, tool |-> t]), UNCHANGED signalled,
               NEW end \in {"succeeded", "failed", "aborted"}, tool' = [tool EXCEPT ![t] = end],
               \/ type \in {"tool.done", "tool.failed"}
               \/ type = "tool.aborted" /\ end = "aborted" /\ t \in signalled
        PROVE  ToolsOK'
    <3>1. /\ state \in Running => state' \in Running
          /\ UNCHANGED <<resets, resetTo, turnTools>>
          /\ background' \subseteq background /\ background \ {t} \subseteq background'
          /\ type # "tool.aborted" => t \notin background'
      BY <2>3, ReportEffect DEF Completes
    <3>2. /\ tool' \in [ToolCalls -> ToolStates]
          /\ \A u \in ToolCalls : tool'[u] = IF u = t THEN end ELSE tool[u]
      BY <2>3 DEF ToolsOK, ToolStates
    <3>3. LiveToolsAreOwned'
      BY <2>3, <3>1, <3>2 DEF ToolsOK, LiveToolsAreOwned, LiveTools, LiveStates
    <3>4. BackgroundEntriesSettle'
      BY <2>3, <3>1, <3>2 DEF ToolsOK, BackgroundEntriesSettle
    <3> QED
      BY <3>1, <3>2, <3>3, <3>4 DEF ToolsOK
  <2>4. CASE ToolSucceeds(t) /\ ToolReport([type |-> "tool.done", tool |-> t])
    BY <2>3, <2>4 DEF ToolSucceeds
  <2>5. CASE ToolRejects(t) /\ ToolReport([type |-> IF t \in signalled THEN "tool.aborted" ELSE "tool.failed", tool |-> t])
    BY <2>3, <2>5 DEF ToolRejects
  <2> QED
    BY <1>2, <2>1, <2>2, <2>4, <2>5 DEF ToolStep
<1> QED
  BY <1>1, <1>2

\* Every step of the agent, its turn and its tools.
LEMMA ToolsStep ==
  ASSUME ToolsOK, [Next]_vars
  PROVE  ToolsOK'
<1>1. CASE AgentReceives
  <2>1. CASE \E x : Submit(x) \/ Notify(x) \/ Retry \/ Remind(x) \/ Steer(x) \/ Cancel(x)
    BY <2>1, ToolsFreeSteps
  <2>2. CASE Pause \/ Continue \/ Drain \/ StoreReady
    BY <2>2, ToolsFreeSteps
  <2>3. CASE Close \/ \E produced : TurnEnds(produced)
    BY <2>3, ToolsEndSteps
  <2>4. CASE \E ev : ev.type = "tool.aborted" /\ ToolReport(ev) /\ UNCHANGED toolVars
    BY <2>4, ToolsReportSteps
  <2>5. CASE \E rest : AbortInput(rest) \/ \E calls : SpawnTools(calls, rest)
    BY <2>5, ToolsAbortSteps
  <2> QED
    BY <1>1, <2>1, <2>2, <2>3, <2>4, <2>5 DEF AgentReceives
<1>2. CASE TurnStep \/ SendInput \/ LoopSteps \/ LlmStep \/ TurnTimer \/ ScopeLinked \/ LinkFails
  BY <1>2, ToolsFreeSteps
<1>3. CASE \E v \in {"allow", "block", "error"} : GateVerdict(v)
  BY <1>3, ToolsFreeSteps
<1>4. CASE \E t \in ToolIds : ToolStep(t)
  BY <1>4, ToolsReportSteps
<1>5. CASE AbortTimeout
  BY <1>5, ToolsAbortSteps
<1>6. CASE StoreReset \/ Disposed \/ \E h : RequestReset(h) \/ RecoveryReset(h)
  BY <1>6, ToolsEndSteps
<1>7. CASE UNCHANGED vars
  BY <1>7, ToolsUntouched DEF vars, agentVars, toolVars
<1> QED
  BY <1>1, <1>2, <1>3, <1>4, <1>5, <1>6, <1>7 DEF Next, LoopSteps

\* A tool that runs belongs to the turn or to the background, whatever came of
\* the turn that called it; a reset may leave one behind, but has told it to
\* stop (stopTurnTools, store.reset and the exits of `running` in machine.ts).
THEOREM RunningToolsHaveOwners == Spec => []LiveToolsAreOwned
<1>1. ToolsOK => LiveToolsAreOwned
  BY DEF ToolsOK
<1> QED
  BY <1>1, ToolsInit, ToolsStep, PTL DEF Spec

\* No finished tool is kept as running in the background, but for the one that
\* was aborted before it was detached: every other report has a handler.
THEOREM BackgroundIsCleared == Spec => []BackgroundEntriesSettle
<1>1. ToolsOK => BackgroundEntriesSettle
  BY DEF ToolsOK
<1> QED
  BY <1>1, ToolsInit, ToolsStep, PTL DEF Spec

----------------------------------------------------------------------------
(* The end of the machine.                                                 *)

\* A machine that closes takes up no input and no report, and only a reset that
\* was requested before it closed can bring it back.
LEMMA ClosedStep ==
  ASSUME [Next]_vars, state \in Over, resetTo = << >>
  PROVE  state' \in Over
<1> USE DEF Over, Idle, Running
<1>1. ASSUME NEW notes, NEW q, NEW pz, NEW bg, UpdateContext(notes, q, pz, bg)
      PROVE  state' = state
  BY <1>1 DEF UpdateContext
<1>2. CASE AgentReceives
  <2>1. CASE Close
    BY <2>1 DEF Close
  <2>2. CASE \E x : Submit(x) \/ Notify(x) \/ Retry \/ Remind(x) \/ Steer(x) \/ Cancel(x)
    BY <1>1, <2>2 DEF Submit, Notify, Retry, Remind, Steer, Cancel
  <2>3. CASE Pause \/ Continue
    BY <1>1, <2>3 DEF Pause, Continue, ResumesChain
  <2>4. CASE Drain \/ StoreReady \/ \E produced : TurnEnds(produced)
    BY <2>4 DEF Drain, StoreReady, TurnEnds
  <2>5. CASE \E ev : ToolReport(ev)
    BY <1>1, <2>5 DEF ToolReport
  <2>6. CASE \E rest : AbortInput(rest) \/ \E calls : SpawnTools(calls, rest)
    BY <2>6 DEF AbortInput, SpawnTools
  <2> QED
    BY <1>2, <2>1, <2>2, <2>3, <2>4, <2>5, <2>6 DEF AgentReceives
<1>3. CASE TurnStep \/ SendInput \/ LoopSteps \/ LlmStep \/ TurnTimer
  BY <1>3 DEF TurnStep, SendInput, LoopSteps, RecoveryRetries, RecoveryEnds, Send, LlmStep, TurnTimer, agentVars
<1>4. CASE \E t \in ToolIds : ToolStep(t)
  BY <1>1, <1>4 DEF ToolStep, ToolReport, agentVars
<1>5. CASE AbortTimeout \/ ScopeLinked \/ LinkFails \/ StoreReset \/ Disposed
  BY <1>5 DEF AbortTimeout, ScopeLinked, LinkFails, StoreReset, Disposed
<1>6. CASE \/ \E v \in {"allow", "block", "error"} : GateVerdict(v)
           \/ \E h : RequestReset(h) \/ RecoveryReset(h)
  BY <1>6 DEF GateVerdict, RequestReset, RecoveryReset, DispatchReset
<1>7. CASE UNCHANGED vars
  BY <1>7 DEF vars, agentVars
<1> QED
  BY <1>2, <1>3, <1>4, <1>5, <1>6, <1>7 DEF Next, LoopSteps

\* input.close is final, whatever arrives afterwards.
THEOREM CloseIsFinal == Spec => ClosingIsFinal
<1>1. [Next]_vars => [(state \in Over /\ resetTo = << >>) => state' \in Over]_vars
  BY ClosedStep
<1> QED
  BY <1>1, PTL DEF Spec, ClosingIsFinal, Over

----------------------------------------------------------------------------
(* The history and the mailbox: what is inductive about them.              *)

TurnOver == {"none", "final"}

\* While a reset is under way that no recovery asked for, the store has been
\* folded to what the machine will work with; the machine is paused or
\* closing, and nothing in its mailbox makes it go on.
ResetHolds ==
  /\ recovery # "none" => state \notin {"linking", "restoring"}
  /\ resetTo # << >> =>
       /\ state \notin {"linking", "restoring"}
       /\ \/ recovery = "resetting"
          \/ /\ Head(resetTo) = stored
             /\ (state \in {"ready", "waiting"} /\ paused) \/ state \in Over

ResetIsAwaited ==
  (resetTo # << >> /\ recovery # "resetting") =>
     \A i \in DOMAIN agentBox : agentBox[i].type # "input.continue"

\* The mailbox is a sequence, and the calls in it and of the turn are known.
MailOK ==
  /\ IsSequence(agentBox)
  /\ \A i \in DOMAIN agentBox :
       agentBox[i].type = "turn.spawn_tools" => Range(agentBox[i].calls) \subseteq ToolCalls
  /\ turnTools \subseteq ToolCalls

ContextOK ==
  /\ DOMAIN turn = DOMAIN NoTurn
  /\ turn.state \notin TurnOver => state \in Running
  /\ ResetHolds
  /\ StoreFollowsMachine

StoreOK == MailOK /\ ResetIsAwaited /\ ContextOK

IsEnd(ev) == ev.type \in {"turn.done", "turn.error"}

\* A turn reports its end once, and only when it is final.
EndReportedOnce ==
  \A i \in DOMAIN agentBox : IsEnd(agentBox[i]) =>
    \/ state \in Over
    \/ /\ state \in Running /\ turn.state = "final"
       /\ \A j \in DOMAIN agentBox : IsEnd(agentBox[j]) => i = j

Acting == {"acting", "acting.aborting"}

\* Entries that neither call tools nor answer calls.
Plain(h) == IsSequence(h) /\ \A i \in DOMAIN h : h[i].role # "tool" /\ ~HasCalls(h[i])

Paired(h) == IsHistory(h) /\ WellPaired(h)

TurnPairs ==
  /\ IsSequence(turn.pending) /\ IsHistory(turn.produced)
  /\ turn.state \in Acting =>
       /\ turn.produced # << >>
       /\ Last(turn.produced) = Assistant(turn.pending)
       /\ WellPaired(Front(turn.produced))
  /\ turn.state \notin Acting => WellPaired(turn.produced)

\* What the agent has handed to the turn.
NotesPlain ==
  /\ IsSequence(turnBox)
  /\ \A i \in DOMAIN turnBox : turnBox[i].type = "turn.notify" => Plain(turnBox[i].messages)

\* What a reset under way restores.
ResetPaired == resetTo # << >> => Paired(Head(resetTo))

HistoriesOK == Paired(messages) /\ Paired(stored) /\ Plain(notifications) /\ TurnPairs

PairingOK == EndReportedOnce /\ IsSequence(reminders) /\ NotesPlain /\ HistoriesOK /\ ResetPaired

----------------------------------------------------------------------------
(* Sequences.                                                              *)

\* Whatever its elements are known to be, a sequence is one of its elements.
LEMMA SeqIsSequence ==
  ASSUME NEW S, NEW r \in Seq(S)
  PROVE  IsSequence(r)
<1>1. Len(r) \in Nat /\ DOMAIN r = 1 .. Len(r) /\ r = [i \in 1 .. Len(r) |-> r[i]]
  OBVIOUS
<1>2. r \in [1 .. Len(r) -> ToSet(r)]
  BY <1>1 DEF ToSet
<1> QED
  BY <1>1, <1>2, SeqDef DEF IsSequence

\* What the operators on sequences make of a sequence of whatever elements.
LEMMA SequenceFacts ==
  ASSUME NEW s, IsSequence(s)
  PROVE  /\ DOMAIN s = 1 .. Len(s) /\ Len(s) \in Nat
         /\ \A x : /\ IsSequence(Append(s, x)) /\ DOMAIN Append(s, x) = 1 .. Len(s) + 1
                   /\ \A i \in DOMAIN s : Append(s, x)[i] = s[i]
                   /\ Append(s, x)[Len(s) + 1] = x
         /\ s # << >> => /\ IsSequence(Tail(s)) /\ DOMAIN Tail(s) = 1 .. Len(s) - 1
                        /\ \A i \in DOMAIN Tail(s) : i + 1 \in DOMAIN s /\ Tail(s)[i] = s[i + 1]
                        /\ 1 \in DOMAIN s /\ Head(s) = s[1]
<1>1. s \in Seq(ToSet(s))
  BY DEF IsSequence
<1>2. DOMAIN s = 1 .. Len(s) /\ Len(s) \in Nat
  BY <1>1
<1>3. ASSUME NEW x
      PROVE  /\ IsSequence(Append(s, x)) /\ DOMAIN Append(s, x) = 1 .. Len(s) + 1
             /\ \A i \in DOMAIN s : Append(s, x)[i] = s[i]
             /\ Append(s, x)[Len(s) + 1] = x
  <2>1. s \in Seq(ToSet(s) \cup {x})
    BY <1>1, SeqMonotonic
  <2>2. /\ Append(s, x) \in Seq(ToSet(s) \cup {x}) /\ Len(Append(s, x)) = Len(s) + 1
        /\ \A i \in 1 .. Len(s) : Append(s, x)[i] = s[i]
        /\ Append(s, x)[Len(s) + 1] = x
    BY <2>1, AppendProperties
  <2>3. IsSequence(Append(s, x)) /\ DOMAIN Append(s, x) = 1 .. Len(Append(s, x))
    BY <2>2, SeqIsSequence, LenProperties
  <2> QED
    BY <1>2, <2>2, <2>3
<1>4. ASSUME s # << >>
      PROVE  /\ IsSequence(Tail(s)) /\ DOMAIN Tail(s) = 1 .. Len(s) - 1
             /\ \A i \in DOMAIN Tail(s) : i + 1 \in DOMAIN s /\ Tail(s)[i] = s[i + 1]
             /\ 1 \in DOMAIN s /\ Head(s) = s[1]
  <2>1. /\ Tail(s) \in Seq(ToSet(s)) /\ Len(Tail(s)) = Len(s) - 1
        /\ \A i \in 1 .. Len(Tail(s)) : Tail(s)[i] = s[i + 1]
    BY <1>1, <1>4, HeadTailProperties
  <2>2. IsSequence(Tail(s)) /\ DOMAIN Tail(s) = 1 .. Len(Tail(s))
    BY <2>1, SeqIsSequence, LenProperties
  <2>3. Len(s) # 0 /\ Head(s) = s[1]
    BY <1>1, <1>4
  <2> QED
    BY <1>2, <2>1, <2>2, <2>3
<1> QED
  BY <1>2, <1>3, <1>4

\* Concatenation, and what it leaves out.
LEMMA ConcatFacts ==
  ASSUME NEW s, NEW r, IsSequence(s), IsSequence(r)
  PROVE  /\ IsSequence(s \o r) /\ Len(s \o r) = Len(s) + Len(r)
         /\ \A i \in DOMAIN s : i \in DOMAIN (s \o r) /\ (s \o r)[i] = s[i]
         /\ \A i \in DOMAIN r : Len(s) + i \in DOMAIN (s \o r) /\ (s \o r)[Len(s) + i] = r[i]
         /\ \A i \in DOMAIN (s \o r) :
              \/ i \in DOMAIN s /\ (s \o r)[i] = s[i]
              \/ i > Len(s) /\ i - Len(s) \in DOMAIN r /\ (s \o r)[i] = r[i - Len(s)]
         /\ s \o << >> = s /\ << >> \o s = s
<1> DEFINE S == ToSet(s) \cup ToSet(r)
<1>1. s \in Seq(S) /\ r \in Seq(S)
  BY SeqMonotonic DEF IsSequence
<1>2. s \o r \in Seq(S)
  BY <1>1
<1>3. IsSequence(s \o r)
  BY <1>2, SeqIsSequence
<1> QED
  BY <1>1, <1>2, <1>3

\* A sequence of one element.
LEMMA SingletonFacts ==
  ASSUME NEW x
  PROVE  IsSequence(<<x>>) /\ DOMAIN <<x>> = 1 .. 1 /\ <<x>>[1] = x
BY DEF IsSequence, ToSet

LEMMA EmptyFacts == IsSequence(<< >>) /\ DOMAIN << >> = {} /\ Len(<< >>) = 0
BY DEF IsSequence, ToSet

----------------------------------------------------------------------------
(* The mailbox.                                                            *)

LEMMA TurnRecords ==
  /\ NoTurn.state = "none" /\ NoTurn.pending = << >> /\ NoTurn.produced = << >>
  /\ FreshTurn.state \in {"gating", "thinking"} /\ FreshTurn.pending = << >>
  /\ FreshTurn.produced = << >> /\ DOMAIN FreshTurn = DOMAIN NoTurn
BY DEF NoTurn, FreshTurn, StepState

LEMMA TurnFields ==
  DOMAIN NoTurn = {"state", "produced", "pending", "outcomes", "steps", "attempt", "recoveries",
                   "paused", "outcome"}
BY DEF NoTurn, FreshTurn

\* What a step of the turn may put into the mailbox: inputs of a listener and
\* its own signals, the last of which may be its end.
Reported(new) ==
  /\ IsSequence(new)
  /\ \A i \in DOMAIN new :
       \/ new[i].type \in Inputs \cup {"turn.drain"}
       \/ new[i].type = "turn.spawn_tools" /\ Range(new[i].calls) \subseteq ToolCalls
       \/ IsEnd(new[i]) /\ i = Len(new) /\ turn'.state = "final"

LEMMA EndTurnEffect ==
  ASSUME NEW outcome, NEW produced, NEW signals, signals = << >> \/ signals \in Reactions,
         IsSequence(agentBox), DOMAIN turn = DOMAIN NoTurn,
         EndTurn(outcome, produced, signals)
  PROVE  /\ DOMAIN turn' = DOMAIN NoTurn
         /\ turn'.state = "final" /\ turn'.produced = produced /\ turn'.pending = << >>
         /\ \E new : agentBox' = agentBox \o new /\ Reported(new)
<1>1. /\ IsSequence(signals)
      /\ \A i \in DOMAIN signals : signals[i].type \in Inputs
  BY EmptyFacts, TurnAssumption
<1> DEFINE done == [type |-> "turn.done"]
<1>2. /\ turn' = [turn EXCEPT !.state = "final", !.outcome = outcome, !.produced = produced,
                              !.pending = << >>, !.outcomes = NoOutcomes]
      /\ agentBox' = (agentBox \o signals) \o <<done>>
      /\ done.type = "turn.done"
  BY DEF EndTurn
<1> HIDE DEF done
<1>3. /\ DOMAIN turn' = DOMAIN NoTurn
      /\ turn'.state = "final" /\ turn'.produced = produced /\ turn'.pending = << >>
  BY <1>2 DEF NoTurn, FreshTurn
<1>4. agentBox' = agentBox \o (signals \o <<done>>)
  <2> DEFINE S == ToSet(agentBox) \cup ToSet(signals) \cup {done}
  <2>1. agentBox \in Seq(S) /\ signals \in Seq(S) /\ <<done>> \in Seq(S)
    BY <1>1, SeqMonotonic DEF IsSequence
  <2> QED
    BY <1>2, <2>1, ConcatAssociative
<1>5. Reported(signals \o <<done>>)
  <2>1. IsSequence(<<done>>) /\ DOMAIN <<done>> = 1 .. 1 /\ <<done>>[1] = done /\ Len(<<done>>) = 1
    BY SingletonFacts
  <2> QED
    BY <1>1, <1>2, <1>3, <2>1, ConcatFacts, SequenceFacts DEF Reported, IsEnd
<1> QED
  BY <1>3, <1>4, <1>5

\* A step of the turn leaves the agent alone, and changes the turn or the
\* mailbox only while the turn runs.
LEMMA TurnEffect ==
  ASSUME IsSequence(agentBox), DOMAIN turn = DOMAIN NoTurn, LlmStep \/ TurnTimer \/ TurnStep
  PROVE  /\ UNCHANGED agentVars /\ UNCHANGED toolVars
         /\ DOMAIN turn' = DOMAIN NoTurn
         /\ \/ UNCHANGED <<turn, agentBox>>
            \/ /\ turn.state \notin TurnOver
               /\ \E new : agentBox' = agentBox \o new /\ Reported(new)
<1> USE DEF TurnOver
<1>1. UNCHANGED agentVars /\ UNCHANGED toolVars
  BY DEF LlmStep, TurnTimer, TurnStep
<1>2. ASSUME NEW new, IsSequence(new), agentBox' = new, Quiet, Reported(new)
      PROVE  \E new1 : agentBox' = agentBox \o new1 /\ Reported(new1)
  BY <1>2, ConcatFacts DEF Quiet
<1>3. ASSUME UNCHANGED agentBox
      PROVE  \E new : agentBox' = agentBox \o new /\ Reported(new)
  BY <1>3, ConcatFacts, EmptyFacts DEF Reported
<1>4. CASE \E calls \in FreshCalls, r \in Reactions : LlmCallsTools(calls, r)
  <2>1. PICK calls \in FreshCalls, r \in Reactions : LlmCallsTools(calls, r)
    BY <1>4
  <2>2. Range(calls) \subseteq ToolCalls
    BY AgentAssumption DEF FreshCalls, SetToSeqs, Range
  <2> DEFINE spawn == [type |-> "turn.spawn_tools", calls |-> calls]
  <2>3. agentBox' = r \o <<spawn>> /\ spawn.type = "turn.spawn_tools" /\ spawn.calls = calls
    BY <2>1 DEF LlmCallsTools
  <2> HIDE DEF spawn
  <2>4. IsSequence(<<spawn>>) /\ DOMAIN <<spawn>> = 1 .. 1 /\ <<spawn>>[1] = spawn
    BY SingletonFacts
  <2>5. Reported(r \o <<spawn>>)
    BY <2>2, <2>3, <2>4, TurnAssumption, ConcatFacts, SequenceFacts DEF Reported
  <2>6. Quiet /\ turn.state \notin TurnOver /\ DOMAIN turn' = DOMAIN NoTurn
    BY <2>1 DEF LlmCallsTools
  <2> QED
    BY <1>1, <1>2, <2>3, <2>5, <2>6 DEF Reported
<1>5. CASE \E r \in Reactions : LlmAnswers(r) \/ LlmFails(r)
  BY <1>1, <1>5, EndTurnEffect DEF LlmAnswers, LlmFails
<1>6. CASE LlmFailureRecovered \/ LlmFailureRetried \/ BeforeStepDone \/ RetryDelayElapses
  BY <1>1, <1>3, <1>6 DEF LlmFailureRecovered, LlmFailureRetried, BeforeStepDone, RetryDelayElapses
<1>7. CASE TurnThrows
  <2>1. Reported(<<[type |-> "turn.error"]>>)
    <3>1. turn'.state = "final"
      BY <1>7 DEF TurnThrows, NoTurn, FreshTurn
    <3> QED
      BY <3>1, SingletonFacts DEF Reported, IsEnd
  <2> QED
    BY <1>1, <1>2, <1>7, <2>1 DEF TurnThrows, Reported
<1>8. CASE BeforeStepFails \/ AbortGraceElapses
  BY <1>1, <1>8, EndTurnEffect DEF BeforeStepFails, AbortGraceElapses
<1>9. CASE TurnPauses \/ TurnDrops
  BY <1>1, <1>3, <1>9 DEF TurnPauses, TurnDrops
<1>10. CASE TurnAborts
  BY <1>1, <1>3, <1>10, EndTurnEffect DEF TurnAborts, Abortable
<1>11. CASE TurnNotified
  BY <1>1, <1>3, <1>11, EndTurnEffect DEF TurnNotified
<1>12. CASE TurnToolEvent
  <2>1. turn.state \notin TurnOver
    BY <1>12 DEF TurnToolEvent
  <2>2. CASE \E outcomes : EndTurn("aborted", Collected(outcomes), << >>)
    BY <1>1, <2>1, <2>2, EndTurnEffect
  <2>3. CASE UNCHANGED agentBox /\ DOMAIN turn' = DOMAIN turn
    BY <1>1, <1>3, <2>1, <2>3
  <2>4. CASE agentBox' = Append(agentBox, [type |-> "turn.drain"]) /\ DOMAIN turn' = DOMAIN turn
    <3>1. Append(agentBox, [type |-> "turn.drain"]) = agentBox \o <<[type |-> "turn.drain"]>>
      BY AppendIsConcat, SequenceFacts DEF IsSequence
    <3>2. Reported(<<[type |-> "turn.drain"]>>)
      BY SingletonFacts DEF Reported
    <3> QED
      BY <1>1, <2>1, <2>4, <3>1, <3>2
  <2> QED
    BY <1>12, <2>2, <2>3, <2>4 DEF TurnToolEvent
<1> QED
  BY <1>4, <1>5, <1>6, <1>7, <1>8, <1>9, <1>10, <1>11, <1>12
     DEF LlmStep, TurnTimer, TurnStep, TurnReceives

\* The reports of the actors that an abort finds preparing.
LEMMA AbortReports ==
  ASSUME NEW ts \in SUBSET ToolCalls, NEW tools, NEW rest, AbortTools(ts, tools, rest)
  PROVE  \E new : /\ agentBox' = rest \o new /\ IsSequence(new)
                  /\ \A i \in DOMAIN new : new[i].type = "tool.aborted"
<1> DEFINE stopped == {t \in ts : tools[t] = "preparing"}
<1>1. PICK order \in SetToSeqs(stopped) :
        agentBox' = rest \o [i \in DOMAIN order |-> [type |-> "tool.aborted", tool |-> order[i]]]
  BY DEF AbortTools
<1>2. Cardinality(stopped) \in Nat
  BY AgentAssumption, FS_Subset, FS_CardinalityType
<1>3. DOMAIN order = 1 .. Cardinality(stopped)
  BY <1>1 DEF SetToSeqs
<1> DEFINE new == [i \in DOMAIN order |-> [type |-> "tool.aborted", tool |-> order[i]]]
<1>4. \A i \in DOMAIN new : new[i].type = "tool.aborted"
  OBVIOUS
<1>5. IsSequence(new)
  <2>1. new \in [1 .. Cardinality(stopped) -> {new[i] : i \in DOMAIN new}]
    BY <1>3
  <2> HIDE DEF new
  <2> QED
    BY <1>2, <2>1, SeqDef, SeqIsSequence
<1> QED
  BY <1>1, <1>4, <1>5

\* The agent takes one event and adds at most reports of aborts.
LEMMA ReceiveEffect ==
  ASSUME MailOK, AgentReceives
  PROVE  /\ agentBox # << >>
         /\ \E new : /\ agentBox' = Tail(agentBox) \o new /\ IsSequence(new)
                     /\ \A i \in DOMAIN new : new[i].type = "tool.aborted"
         /\ turnTools' \subseteq ToolCalls
<1> DEFINE ev == Head(agentBox)
           rest == Tail(agentBox)
<1>1. /\ agentBox # << >> /\ IsSequence(rest)
      /\ ev.type = "turn.spawn_tools" => Range(ev.calls) \subseteq ToolCalls
  BY SequenceFacts DEF MailOK, AgentReceives
<1>2. ASSUME agentBox' = rest
      PROVE  \E new : /\ agentBox' = rest \o new /\ IsSequence(new)
                      /\ \A i \in DOMAIN new : new[i].type = "tool.aborted"
  BY <1>1, <1>2, ConcatFacts, EmptyFacts
<1>3. CASE AbortInput(rest)
  BY <1>1, <1>2, <1>3, AbortReports DEF AbortInput, MailOK
<1>4. CASE ev.type = "turn.spawn_tools" /\ SpawnTools(ev.calls, rest)
  <2>1. Range(ev.calls) \subseteq ToolCalls
    BY <1>1, <1>4
  <2> HIDE DEF ev, rest
  <2> QED
    BY <1>1, <1>2, <1>4, <2>1, AbortReports DEF SpawnTools, MailOK, rest
<1>5. CASE agentBox' = rest
  <2> USE DEF MailOK
  <2>1. CASE \E x : Submit(x) \/ Notify(x) \/ Retry \/ Remind(x) \/ Steer(x) \/ Cancel(x)
    BY <1>1, <1>2, <1>5, <2>1 DEF Submit, Notify, Retry, Remind, Steer, Cancel
  <2>2. CASE Pause \/ Continue \/ Drain \/ StoreReady \/ Close
    BY <1>1, <1>2, <1>5, <2>2 DEF Pause, Continue, Drain, StoreReady, Close
  <2>3. CASE \E produced : TurnEnds(produced)
    BY <1>1, <1>2, <1>5, <2>3 DEF TurnEnds, ExitRunning
  <2>4. CASE \E e : ToolReport(e)
    BY <1>1, <1>2, <1>5, <2>4, ReportEffect
  <2>5. CASE AbortInput(rest) \/ (ev.type = "turn.spawn_tools" /\ SpawnTools(ev.calls, rest))
    BY <1>3, <1>4, <2>5
  <2> QED
    BY <1>5, <2>1, <2>2, <2>3, <2>4, <2>5 DEF AgentReceives
<1> QED
  BY <1>3, <1>4, <1>5 DEF AgentReceives

\* How a step leaves the mailbox: without its first event, with one input more,
\* with what the turn reports, with what the store reports, or as it was.
LEMMA MailEffect ==
  ASSUME MailOK, DOMAIN turn = DOMAIN NoTurn, [Next]_vars
  PROVE  \/ AgentReceives
         \/ SendInput \/ RecoveryRetries
         \/ LlmStep \/ TurnTimer \/ TurnStep
         \/ ScopeLinked
         \/ UNCHANGED agentBox
BY DEF Next, LoopSteps, RecoveryEnds, ToolStep, AbortTimeout, LinkFails, StoreReset, Disposed, GateVerdict,
   RequestReset, RecoveryReset, DispatchReset, vars

LEMMA MailStep ==
  ASSUME MailOK, DOMAIN turn = DOMAIN NoTurn, [Next]_vars
  PROVE  MailOK'
<1>1. CASE AgentReceives
  <2>1. PICK new : /\ agentBox' = Tail(agentBox) \o new /\ IsSequence(new)
                   /\ \A i \in DOMAIN new : new[i].type = "tool.aborted"
    BY <1>1, ReceiveEffect
  <2>2. /\ agentBox # << >> /\ IsSequence(Tail(agentBox))
        /\ \A i \in DOMAIN Tail(agentBox) : i + 1 \in DOMAIN agentBox /\ Tail(agentBox)[i] = agentBox[i + 1]
    BY <1>1, ReceiveEffect, SequenceFacts DEF MailOK
  <2>3. turnTools' \subseteq ToolCalls
    BY <1>1, ReceiveEffect
  <2> QED
    BY <2>1, <2>2, <2>3, ConcatFacts DEF MailOK
<1>2. CASE SendInput
  <2>1. turnTools' = turnTools
    BY <1>2 DEF SendInput, Send, agentVars
  <2>2. \E ev : agentBox' = Append(agentBox, ev) /\ ev.type # "turn.spawn_tools"
    <3>1. ASSUME NEW ev, Send(ev), ev.type # "turn.spawn_tools"
          PROVE  \E e : agentBox' = Append(agentBox, e) /\ e.type # "turn.spawn_tools"
      BY <3>1 DEF Send
    <3> QED
      BY <1>2, <3>1 DEF SendInput
  <2> QED
    BY <2>1, <2>2, SequenceFacts DEF MailOK
<1>3. CASE LlmStep \/ TurnTimer \/ TurnStep
  <2>1. turnTools' = turnTools
    BY <1>3 DEF LlmStep, TurnTimer, TurnStep, agentVars
  <2>2. CASE agentBox' = agentBox
    BY <2>1, <2>2 DEF MailOK
  <2>3. CASE \E new : agentBox' = agentBox \o new /\ Reported(new)
    <3>1. PICK new : agentBox' = agentBox \o new /\ Reported(new)
      BY <2>3
    <3>2. \A i \in DOMAIN new : new[i].type = "turn.spawn_tools" => Range(new[i].calls) \subseteq ToolCalls
      BY <3>1 DEF Reported, IsEnd, Inputs
    <3> QED
      BY <2>1, <3>1, <3>2, ConcatFacts DEF MailOK, Reported
  <2> QED
    BY <1>3, <2>2, <2>3, TurnEffect DEF MailOK
<1>4. CASE ScopeLinked \/ RecoveryRetries
  BY <1>4, SingletonFacts DEF ScopeLinked, RecoveryRetries, MailOK
<1>5. CASE UNCHANGED agentBox
  <2>1. CASE AgentReceives \/ SendInput \/ LlmStep \/ TurnTimer \/ TurnStep \/ ScopeLinked \/ LoopSteps
    BY <1>1, <1>2, <1>3, <1>4, <1>5, <2>1 DEF LoopSteps, RecoveryEnds, MailOK
  <2>2. CASE \E t \in ToolIds : ToolStep(t)
    BY <1>5, <2>2, ReportEffect DEF ToolStep, MailOK, agentVars
  <2>3. CASE AbortTimeout \/ LinkFails \/ StoreReset \/ Disposed
    BY <1>5, <2>3 DEF AbortTimeout, LinkFails, StoreReset, Disposed, MailOK, agentVars
  <2>4. CASE \/ \E v \in {"allow", "block", "error"} : GateVerdict(v)
             \/ \E h : RequestReset(h) \/ RecoveryReset(h)
    BY <1>5, <2>4 DEF GateVerdict, RequestReset, RecoveryReset, DispatchReset, MailOK
  <2>5. CASE UNCHANGED vars
    BY <1>5, <2>5 DEF vars, agentVars, MailOK
  <2> QED
    BY <2>1, <2>2, <2>3, <2>4, <2>5 DEF Next, LoopSteps
<1> QED
  BY <1>1, <1>2, <1>3, <1>4, <1>5, MailEffect

----------------------------------------------------------------------------
(* The store and the machine.                                              *)

LEMMA StoreInit == Init => StoreOK
BY EmptyFacts, TurnRecords DEF Init, StoreOK, MailOK, ResetIsAwaited, ContextOK, ResetHolds,
   StoreFollowsMachine, TurnOver

\* A recovery that waits for its reset goes on waiting until the reset is there.
LEMMA RecoveryWaits ==
  ASSUME [Next]_vars, resetTo # << >>, recovery = "resetting"
  PROVE  recovery' = "resetting"
<1> USE DEF loopVars
<1>1. CASE AgentReceives
  <2>1. CASE \E x : Submit(x) \/ Notify(x) \/ Retry \/ Remind(x) \/ Steer(x) \/ Cancel(x)
    BY <2>1 DEF Submit, Notify, Retry, Remind, Steer, Cancel
  <2>2. CASE Pause \/ Continue \/ Drain \/ StoreReady \/ Close
    BY <2>2 DEF Pause, Continue, Drain, StoreReady, Close
  <2>3. CASE \/ \E ev : ToolReport(ev)
             \/ \E produced : TurnEnds(produced)
    BY <2>3 DEF ToolReport, TurnEnds, MayRecover
  <2>4. CASE \E rest : AbortInput(rest) \/ \E calls : SpawnTools(calls, rest)
    BY <2>4 DEF AbortInput, SpawnTools
  <2> QED
    BY <1>1, <2>1, <2>2, <2>3, <2>4 DEF AgentReceives
<1>2. CASE TurnStep \/ SendInput \/ LoopSteps \/ LlmStep \/ TurnTimer
  BY <1>2 DEF TurnStep, SendInput, LoopSteps, RecoveryRetries, RecoveryEnds, Send, LlmStep, TurnTimer, agentVars
<1>3. CASE \E t \in ToolIds : ToolStep(t)
  BY <1>3 DEF ToolStep, ToolReport, agentVars
<1>4. CASE AbortTimeout \/ ScopeLinked \/ LinkFails \/ StoreReset \/ Disposed
  BY <1>4 DEF AbortTimeout, ScopeLinked, LinkFails, StoreReset, Disposed, agentVars
<1>5. CASE \/ \E v \in {"allow", "block", "error"} : GateVerdict(v)
           \/ \E h : RequestReset(h) \/ RecoveryReset(h)
  BY <1>5 DEF GateVerdict, RequestReset, RecoveryReset, DispatchReset
<1>6. CASE UNCHANGED vars
  BY <1>6 DEF vars, agentVars
<1> QED
  BY <1>1, <1>2, <1>3, <1>4, <1>5, <1>6 DEF Next, LoopSteps

\* Where a reset comes from: a request, that finds the mailbox empty.
LEMMA ResetsStep ==
  ASSUME [Next]_vars
  PROVE  \/ resetTo' \in {resetTo, << >>}
         \/ /\ agentBox' = << >>
            /\ \E h \in {x \in ResetHistories : WellPaired(x)} : resetTo' = <<h>>
<1>1. CASE AgentReceives
  <2>1. CASE \E x : Submit(x) \/ Notify(x) \/ Retry \/ Remind(x) \/ Steer(x) \/ Cancel(x)
    BY <2>1 DEF Submit, Notify, Retry, Remind, Steer, Cancel
  <2>2. CASE Pause \/ Continue \/ Drain \/ StoreReady \/ Close
    BY <2>2 DEF Pause, Continue, Drain, StoreReady, Close
  <2>3. CASE \/ \E ev : ToolReport(ev)
             \/ \E produced : TurnEnds(produced)
    BY <2>3 DEF ToolReport, TurnEnds
  <2>4. CASE \E rest : AbortInput(rest) \/ \E calls : SpawnTools(calls, rest)
    BY <2>4 DEF AbortInput, SpawnTools
  <2> QED
    BY <1>1, <2>1, <2>2, <2>3, <2>4 DEF AgentReceives
<1>2. CASE TurnStep \/ SendInput \/ LoopSteps \/ LlmStep \/ TurnTimer
  BY <1>2 DEF TurnStep, SendInput, LoopSteps, RecoveryRetries, RecoveryEnds, Send, LlmStep, TurnTimer, agentVars
<1>3. CASE \E t \in ToolIds : ToolStep(t)
  BY <1>3 DEF ToolStep, ToolReport, agentVars
<1>4. CASE AbortTimeout \/ ScopeLinked \/ LinkFails \/ StoreReset \/ Disposed
  BY <1>4 DEF AbortTimeout, ScopeLinked, LinkFails, StoreReset, Disposed, agentVars
<1>5. CASE \/ \E v \in {"allow", "block", "error"} : GateVerdict(v)
           \/ \E h \in {x \in ResetHistories : WellPaired(x)} : RequestReset(h) \/ RecoveryReset(h)
  BY <1>5 DEF GateVerdict, RequestReset, RecoveryReset, DispatchReset, Quiet
<1>6. CASE UNCHANGED vars
  BY <1>6 DEF vars, agentVars
<1> QED
  BY <1>1, <1>2, <1>3, <1>4, <1>5, <1>6 DEF Next, LoopSteps

\* The only step that requests a reset finds the mailbox empty; and while a
\* reset is under way neither a caller nor the turn, which is over, puts
\* input.continue into the mailbox.
LEMMA ResetIsAwaitedStep ==
  ASSUME StoreOK, [Next]_vars
  PROVE  ResetIsAwaited'
<1> USE DEF StoreOK, ResetIsAwaited
<1>1. resetTo' # << >> => resetTo' = resetTo \/ agentBox' = << >>
  BY ResetsStep
<1>2. CASE resetTo' = << >> \/ agentBox' = << >>
  BY <1>2, EmptyFacts
<1>3. CASE resetTo' = resetTo /\ resetTo # << >> /\ recovery # "resetting"
  <2>1. CASE AgentReceives
    <3>1. PICK new : /\ agentBox' = Tail(agentBox) \o new /\ IsSequence(new)
                     /\ \A i \in DOMAIN new : new[i].type = "tool.aborted"
      BY <2>1, ReceiveEffect
    <3>2. /\ IsSequence(Tail(agentBox))
          /\ \A i \in DOMAIN Tail(agentBox) : i + 1 \in DOMAIN agentBox /\ Tail(agentBox)[i] = agentBox[i + 1]
      BY <2>1, ReceiveEffect, SequenceFacts DEF MailOK
    <3> QED
      BY <1>3, <3>1, <3>2, ConcatFacts
  <2>2. CASE SendInput
    <3>1. ASSUME NEW ev, Send(ev), ev.type # "input.continue"
          PROVE  \E e : agentBox' = Append(agentBox, e) /\ e.type # "input.continue"
      BY <3>1 DEF Send
    <3>2. \E e : agentBox' = Append(agentBox, e) /\ e.type # "input.continue"
      BY <1>3, <2>2, <3>1 DEF SendInput
    <3> QED
      BY <1>3, <3>2, SequenceFacts DEF MailOK
  <2>3. CASE LlmStep \/ TurnTimer \/ TurnStep
    <3>1. turn.state \in TurnOver
      BY <1>3 DEF ContextOK, ResetHolds, Running, Over
    <3> QED
      BY <1>3, <2>3, <3>1, TurnEffect DEF MailOK, ContextOK
  <2>4. CASE ScopeLinked \/ RecoveryRetries
    BY <2>4, SingletonFacts DEF ScopeLinked, RecoveryRetries
  <2>5. CASE UNCHANGED agentBox
    BY <1>3, <2>5
  <2> QED
    BY <2>1, <2>2, <2>3, <2>4, <2>5, MailEffect DEF ContextOK
<1> QED
  BY <1>1, <1>2, <1>3, RecoveryWaits

\* A step that does not concern the history.
LEMMA ContextUntouched ==
  ASSUME ContextOK, UNCHANGED <<state, messages, stored, resetTo, turn, loopVars>>, paused' = paused \/ paused'
  PROVE  ContextOK'
BY DEF ContextOK, ResetHolds, StoreFollowsMachine, loopVars

\* An assignment to the context, unless it ends the pause of a reset.
LEMMA ContextUpdated ==
  ASSUME ContextOK, NEW notes, NEW q, NEW pz, NEW bg, UpdateContext(notes, q, pz, bg),
         UNCHANGED <<resetTo, loopVars>>,
         resetTo # << >> /\ recovery # "resetting" /\ state \in {"ready", "waiting"} => pz
  PROVE  ContextOK'
<1> USE DEF ContextOK, ResetHolds, StoreFollowsMachine, Over, TurnOver, Idle, Running, loopVars
<1>1. CASE state \in {"ready", "waiting"} /\ Settles(messages, stored, notes, q, pz)
  <2>1. resetTo # << >> /\ recovery # "resetting" => pz /\ paused'
    <3>1. paused' = pz
      BY UpdateEffect
    <3> QED
      BY <1>1, <3>1, Zenon
  <2>2. CASE /\ state' \in Idle /\ turn' = NoTurn /\ messages' = messages /\ stored' = stored
             /\ pz => state' \in {"ready", "waiting"}
    BY <1>1, <2>1, <2>2, TurnRecords
  <2>3. CASE /\ state' = "active" /\ turn' = FreshTurn /\ ~pz
             /\ messages' = messages \o Committed(notes, q) /\ stored' = stored \o Committed(notes, q)
    BY <1>1, <2>1, <2>3, TurnRecords
  <2> QED
    BY <1>1, <2>2, <2>3 DEF Settles
<1>2. CASE state \notin {"ready", "waiting"}
  BY <1>2, UpdateEffect
<1> QED
  BY <1>1, <1>2, UpdateEffect

\* The other steps: where the machine goes, and that whatever joins its copy of
\* the history joins the store's.
LEMMA ContextStep ==
  ASSUME StoreOK, [Next]_vars
  PROVE  ContextOK'
<1> USE DEF StoreOK
<1> DEFINE Same == UNCHANGED <<state, messages, stored, resetTo, turn, paused, loopVars>>
<1>1. ASSUME Same PROVE ContextOK'
  BY <1>1, ContextUntouched
<1>2. ASSUME NEW notes, NEW q, NEW bg, UpdateContext(notes, q, paused, bg), UNCHANGED <<resetTo, loopVars>>
      PROVE  ContextOK'
  <2>1. resetTo # << >> /\ recovery # "resetting" /\ state \in {"ready", "waiting"} => paused
    BY DEF ContextOK, ResetHolds, Over
  <2> QED
    BY <1>2, <2>1, ContextUpdated
<1>3. ASSUME NEW msgs, NEW st, NEW notes, NEW q, NEW pz, NEW bg, Settle("ready", msgs, st, notes, q, pz, bg),
             resetTo' # << >> => recovery' = "resetting",
             resetTo' = << >> /\ ~overtaken' => st = msgs
      PROVE  ContextOK'
  <2>1. Settles(msgs, st, notes, q, pz)
    BY <1>3, SettleEffect
  <2>2. /\ state' \in Idle \/ state' = "active"
        /\ DOMAIN turn' = DOMAIN NoTurn /\ (turn'.state \notin TurnOver => state' \in Running)
    BY <2>1, TurnRecords DEF Settles, TurnOver, Running
  <2>3. st = msgs => stored' = messages'
    BY <2>1 DEF Settles
  <2>4. state' \notin {"linking", "restoring"}
    BY <2>2 DEF Idle
  <2>5. ResetHolds'
    BY <1>3, <2>4 DEF ResetHolds
  <2>6. StoreFollowsMachine'
    BY <1>3, <2>3 DEF StoreFollowsMachine
  <2> QED
    BY <2>2, <2>5, <2>6 DEF ContextOK
<1>4. ASSUME state \notin {"ready", "waiting"} \cup Over, resetTo # << >>
      PROVE  recovery = "resetting" /\ state # "restoring"
  BY <1>4 DEF ContextOK, ResetHolds
<1>5. ASSUME state \notin {"linking", "restoring"} \cup Over, resetTo = << >>, ~overtaken
      PROVE  stored = messages
  BY <1>5 DEF ContextOK, StoreFollowsMachine, Over
<1>6. ASSUME NEW notes, NEW q, StartTurn(messages, stored, notes, q), UNCHANGED <<resetTo, loopVars>>,
             resetTo # << >> => recovery = "resetting", state \in Idle
      PROVE  ContextOK'
  BY <1>5, <1>6, TurnRecords
     DEF StartTurn, ContextOK, ResetHolds, StoreFollowsMachine, TurnOver, Idle, Running, Over, loopVars
<1>7. CASE AgentReceives
  <2>1. CASE \E x : Submit(x) \/ Notify(x) \/ Retry \/ Steer(x) \/ Cancel(x)
    BY <1>2, <2>1 DEF Submit, Notify, Retry, Steer, Cancel
  <2>2. CASE \/ \E x : Remind(x)
             \/ Drain
             \/ \E calls, rest : SpawnTools(calls, rest)
    BY <1>1, <2>2 DEF Remind, Drain, SpawnTools, turnVars
  <2>3. CASE Pause
    <3>1. UpdateContext(notifications, queue, TRUE, background) /\ UNCHANGED <<resetTo, loopVars>>
      BY <2>3 DEF Pause
    <3> QED
      BY <3>1, ContextUpdated
  <2>4. CASE Head(agentBox).type = "input.continue" /\ Continue
    <3>1. resetTo # << >> => recovery = "resetting"
      BY <1>7, <2>4, SequenceFacts DEF AgentReceives, MailOK, ResetIsAwaited
    <3>2. CASE ResumesChain /\ StartTurn(messages, stored, notifications, queue) /\ UNCHANGED <<resetTo, loopVars>>
      BY <1>6, <3>1, <3>2 DEF ResumesChain
    <3>3. CASE UpdateContext(notifications, queue, FALSE, background) /\ UNCHANGED <<resetTo, loopVars>>
      BY <3>1, <3>3, ContextUpdated
    <3> QED
      BY <2>4, <3>2, <3>3 DEF Continue
  <2>5. CASE StoreReady
    <3>1. CASE state = "restoring"
      <4>1. Settle("ready", stored, stored, notifications, queue, paused, background) /\ resetTo' = << >>
        BY <1>4, <2>5, <3>1 DEF StoreReady, Over
      <4> QED
        BY <1>3, <4>1
    <3> QED
      BY <1>1, <2>5, <3>1 DEF StoreReady
  <2>6. CASE Close
    BY <2>6, TurnRecords DEF Close, ContextOK, ResetHolds, StoreFollowsMachine, TurnOver, Over, loopVars
  <2>7. CASE \E produced : TurnEnds(produced)
    <3>1. PICK produced : TurnEnds(produced)
      BY <2>7
    <3>2. CASE state \in Running
      <4>1. /\ resetTo # << >> => recovery = "resetting"
            /\ resetTo = << >> /\ ~overtaken => stored = messages
        BY <1>4, <1>5, <3>2 DEF Running, Over
      <4>2. /\ Settle("ready", messages \o produced, stored \o produced, notifications, queue, paused, background)
            /\ UNCHANGED <<resetTo, overtaken>>
            /\ recovery = "resetting" => recovery' = "resetting"
        BY <3>1, <3>2 DEF TurnEnds, MayRecover
      <4>3. /\ resetTo' # << >> => recovery' = "resetting"
            /\ resetTo' = << >> /\ ~overtaken' => stored \o produced = messages \o produced
        BY <4>1, <4>2
      <4> QED
        BY <1>3, <4>2, <4>3
    <3> QED
      BY <1>1, <3>1, <3>2 DEF TurnEnds, MayRecover, loopVars
  <2>8. CASE \E ev : ToolReport(ev)
    BY <1>1, <1>2, <2>8 DEF ToolReport
  <2>9. CASE \E rest : AbortInput(rest)
    BY <2>9 DEF AbortInput, ContextOK, ResetHolds, StoreFollowsMachine, Running, Over, loopVars
  <2> QED
    BY <1>7, <2>1, <2>2, <2>3, <2>4, <2>5, <2>6, <2>7, <2>8, <2>9 DEF AgentReceives
<1>8. CASE LlmStep \/ TurnTimer \/ TurnStep
  <2>1. /\ UNCHANGED <<state, messages, stored, resetTo, paused, loopVars>> /\ DOMAIN turn' = DOMAIN NoTurn
        /\ turn' = turn \/ turn.state \notin TurnOver
    BY <1>8, TurnEffect DEF MailOK, ContextOK, agentVars
  <2> QED
    BY <2>1 DEF ContextOK, ResetHolds, StoreFollowsMachine, loopVars
<1>9. CASE SendInput \/ AbortTimeout
  BY <1>1, <1>9 DEF SendInput, Send, AbortTimeout, agentVars, turnVars
<1>10. CASE \E t \in ToolIds : ToolStep(t)
  BY <1>1, <1>2, <1>10 DEF ToolStep, ToolReport, agentVars, turnVars
<1>11. CASE ScopeLinked \/ LinkFails \/ Disposed
  BY <1>11 DEF ScopeLinked, LinkFails, Disposed, turnVars, ContextOK, ResetHolds, StoreFollowsMachine, Running,
               Over, loopVars
<1>12. CASE StoreReset
  <2>1. /\ Settle("ready", Head(resetTo), stored, << >>, queue, paused, {}) /\ resetTo' = << >>
        /\ overtaken' = (recovery = "resetting" /\ stored # Head(resetTo))
    BY <1>12 DEF StoreReset
  <2>2. ~overtaken' => stored = Head(resetTo)
    BY <1>12, <2>1 DEF StoreReset, ContextOK, ResetHolds
  <2> QED
    BY <1>3, <2>1, <2>2
<1>13. CASE \E v \in {"allow", "block", "error"} : GateVerdict(v)
  <2>1. /\ state = "gating" /\ UNCHANGED <<resetTo, loopVars>> /\ (resetTo # << >> => recovery = "resetting")
        /\ \/ \E q : Settle("ready", messages, stored, notifications, q, paused, background)
           \/ StartTurn(messages, stored, notifications, queue)
    BY <1>4, <1>13 DEF GateVerdict, Over
  <2>2. /\ resetTo' # << >> => recovery' = "resetting"
        /\ resetTo' = << >> /\ ~overtaken' => stored = messages
    BY <1>5, <2>1 DEF Over, loopVars
  <2> QED
    BY <1>3, <1>6, <2>1, <2>2 DEF Idle
<1>14. CASE \E h : RequestReset(h) \/ RecoveryReset(h)
  <2>1. PICK h : RequestReset(h) \/ RecoveryReset(h)
    BY <1>14
  <2> QED
    BY <2>1 DEF RequestReset, RecoveryReset, DispatchReset, HoldsLease, turnVars, ContextOK, ResetHolds,
                StoreFollowsMachine
<1>15. CASE UNCHANGED vars
  BY <1>1, <1>15 DEF vars, agentVars, turnVars
<1>16. CASE LoopSteps
  BY <1>16 DEF LoopSteps, RecoveryRetries, RecoveryEnds, turnVars, ContextOK, ResetHolds, StoreFollowsMachine
<1> QED
  BY <1>7, <1>8, <1>9, <1>10, <1>11, <1>12, <1>13, <1>14, <1>15, <1>16 DEF Next, LoopSteps

\* What was dispatched to the store folds into the history the machine works
\* with: commitPendingToHistory, turn ends, store.ready and store.reset keep
\* both in step, and nothing comes between a reset under the quiescence lease
\* and its store.reset.  Between a reset that a recovery asks for and its
\* store.reset a turn may start (loopService.ts takes no lease there).  Where it
\* did, what it had committed by then stays in the store only, and the statement
\* excepts the history from there to the next reset.
THEOREM StoreIsFollowed == Spec => []StoreFollowsMachine
<1>1. StoreOK /\ [Next]_vars => StoreOK'
  BY MailStep, ResetIsAwaitedStep, ContextStep DEF StoreOK, ContextOK
<1>2. StoreOK => StoreFollowsMachine
  BY DEF StoreOK, ContextOK
<1> QED
  BY <1>1, <1>2, StoreInit, PTL DEF Spec

----------------------------------------------------------------------------
(* Histories.                                                              *)

\* What is answered in each of two histories is answered in both together: the
\* answers of a call follow it at the same distance.
LEMMA PairedConcat ==
  ASSUME NEW h, NEW g, Paired(h), Paired(g)
  PROVE  Paired(h \o g)
<1> DEFINE c == h \o g
<1>1. /\ IsSequence(c) /\ DOMAIN h = 1 .. Len(h) /\ DOMAIN g = 1 .. Len(g)
      /\ Len(h) \in Nat /\ Len(g) \in Nat
      /\ \A i \in DOMAIN h : i \in DOMAIN c /\ c[i] = h[i]
      /\ \A i \in DOMAIN g : Len(h) + i \in DOMAIN c /\ c[Len(h) + i] = g[i]
      /\ \A i \in DOMAIN c : i \in DOMAIN h \/ (i > Len(h) /\ i - Len(h) \in DOMAIN g)
      /\ DOMAIN c \subseteq Int
      /\ \A i \in DOMAIN c : HasCalls(c[i]) => IsSequence(c[i].calls)
  BY ConcatFacts, SequenceFacts DEF Paired, IsHistory
<1> HIDE DEF c
<1>2. ASSUME NEW i \in DOMAIN c, HasCalls(c[i]), NEW j \in DOMAIN c[i].calls
      PROVE  AnsweredAt(c, i, j)
  <2>1. CASE i \in DOMAIN h
    <3>1. AnsweredAt(h, i, j) /\ c[i] = h[i]
      BY <1>1, <1>2, <2>1 DEF Paired, WellPaired
    <3> QED
      BY <1>1, <3>1 DEF AnsweredAt
  <2>2. CASE i > Len(h) /\ i - Len(h) \in DOMAIN g
    <3> DEFINE k == i - Len(h)
    <3>1. k \in DOMAIN g /\ Len(h) + k = i /\ c[i] = g[k]
      BY <1>1, <2>2
    <3>2. AnsweredAt(g, k, j)
      BY <1>2, <3>1 DEF Paired, WellPaired
    <3> HIDE DEF k
    <3>3. k + j \in DOMAIN g /\ g[k + j].role = "tool" /\ g[k + j].call = g[k].calls[j]
      BY <3>2 DEF AnsweredAt
    <3>4. Len(h) + (k + j) \in DOMAIN c /\ c[Len(h) + (k + j)] = g[k + j]
      BY <1>1, <3>3
    <3>5. j \in Int
      BY <1>1, <1>2, SequenceFacts
    <3>6. Len(h) + (k + j) = i + j
      BY <1>1, <3>1, <3>5
    <3> QED
      BY <3>1, <3>3, <3>4, <3>6 DEF AnsweredAt
  <2> QED
    BY <1>1, <2>1, <2>2
<1>3. ASSUME NEW k \in DOMAIN c, c[k].role = "tool"
      PROVE  \E i \in 1 .. k - 1 : HasCalls(c[i]) /\ k - i \in DOMAIN c[i].calls /\ AnsweredAt(c, i, k - i)
  <2>1. CASE k \in DOMAIN h
    <3>1. PICK i \in 1 .. k - 1 : HasCalls(h[i]) /\ k - i \in DOMAIN h[i].calls /\ AnsweredAt(h, i, k - i)
      BY <1>1, <1>3, <2>1 DEF Paired, WellPaired
    <3>2. i \in DOMAIN h
      BY <1>1, <2>1
    <3>3. AnsweredAt(c, i, k - i)
      BY <1>1, <3>1, <3>2 DEF AnsweredAt
    <3> QED
      BY <1>1, <3>1, <3>2, <3>3
  <2>2. CASE k > Len(h) /\ k - Len(h) \in DOMAIN g
    <3> DEFINE m == k - Len(h)
    <3>1. m \in DOMAIN g /\ Len(h) + m = k /\ c[k] = g[m] /\ m \in Nat
      BY <1>1, <2>2
    <3> HIDE DEF m
    <3>2. PICK i \in 1 .. m - 1 : HasCalls(g[i]) /\ m - i \in DOMAIN g[i].calls /\ AnsweredAt(g, i, m - i)
      BY <1>3, <3>1 DEF Paired, WellPaired
    <3>3. i \in DOMAIN g /\ i \in Nat
      BY <1>1, <3>1
    <3>4. /\ Len(h) + i \in DOMAIN c /\ c[Len(h) + i] = g[i] /\ Len(h) + i \in 1 .. k - 1
          /\ k - (Len(h) + i) = m - i
      BY <1>1, <3>1, <3>3
    <3>5. AnsweredAt(c, Len(h) + i, m - i)
      <4>1. i + (m - i) = m /\ Len(h) + i + (m - i) = k
        BY <1>1, <3>1
      <4> QED
        BY <1>3, <3>1, <3>2, <3>4, <4>1 DEF AnsweredAt
    <3> QED
      BY <3>2, <3>4, <3>5
  <2> QED
    BY <1>1, <2>1, <2>2
<1> QED
  BY <1>1, <1>2, <1>3 DEF Paired, IsHistory, WellPaired, c

\* Messages of the user, reminders and the end of an answer.
LEMMA PlainFacts ==
  /\ Plain(<< >>) /\ \A ids : Plain(<<User(ids)>>)
  /\ Plain(<<Assistant(<< >>)>>)
  /\ \A h : Plain(h) => Paired(h)
  /\ \A h, g : Plain(h) /\ Plain(g) => Plain(h \o g)
  /\ \A h, ids : Plain(h) => Plain(Append(h, User(ids)))
<1>1. Plain(<< >>)
  BY EmptyFacts DEF Plain
<1>2. ASSUME NEW ids PROVE Plain(<<User(ids)>>) /\ User(ids).role = "user"
  BY SingletonFacts DEF Plain, User, HasCalls
<1>3. Plain(<<Assistant(<< >>)>>)
  BY SingletonFacts DEF Plain, Assistant, HasCalls
<1>4. ASSUME NEW h, Plain(h) PROVE Paired(h)
  BY <1>4 DEF Plain, Paired, IsHistory, WellPaired
<1>5. ASSUME NEW h, NEW g, Plain(h), Plain(g) PROVE Plain(h \o g)
  <2>1. IsSequence(h) /\ IsSequence(g)
    BY <1>5 DEF Plain
  <2> DEFINE c == h \o g
  <2>2. IsSequence(c)
    BY <2>1, ConcatFacts
  <2>3. ASSUME NEW i \in DOMAIN c
        PROVE  (i \in DOMAIN h /\ c[i] = h[i]) \/ (i - Len(h) \in DOMAIN g /\ c[i] = g[i - Len(h)])
    BY <2>1, ConcatFacts
  <2> HIDE DEF c
  <2>4. Plain(c)
    BY <1>5, <2>2, <2>3 DEF Plain
  <2> QED
    BY <2>4 DEF c
<1>6. ASSUME NEW h, NEW ids, Plain(h) PROVE Plain(Append(h, User(ids)))
  <2> DEFINE a == Append(h, User(ids))
  <2>1. IsSequence(a) /\ \A i \in DOMAIN a : (i \in DOMAIN h /\ a[i] = h[i]) \/ a[i] = User(ids)
    BY <1>6, SequenceFacts DEF Plain
  <2> HIDE DEF a
  <2>2. Plain(a)
    BY <1>2, <1>6, <2>1 DEF Plain, HasCalls
  <2> QED
    BY <2>2 DEF a
<1> QED
  BY <1>1, <1>2, <1>3, <1>4, <1>5, <1>6

\* A batch of calls, and exactly its results in the order of the calls.
LEMMA BatchIsPaired ==
  ASSUME NEW calls, NEW outcomes, IsSequence(calls)
  PROVE  Paired(<<Assistant(calls)>> \o ToolResults(calls, outcomes))
<1> DEFINE results == ToolResults(calls, outcomes)
           batch == <<Assistant(calls)>> \o results
<1>1. DOMAIN calls = 1 .. Len(calls) /\ Len(calls) \in Nat
  BY SequenceFacts
<1>2. IsSequence(results) /\ DOMAIN results = DOMAIN calls
  <2>1. results \in [1 .. Len(calls) -> {results[i] : i \in DOMAIN calls}]
    BY <1>1 DEF ToolResults
  <2> HIDE DEF results
  <2> QED
    BY <1>1, <2>1, SeqDef, SeqIsSequence
<1>3. \A i \in DOMAIN calls : results[i].role = "tool" /\ results[i].call = calls[i]
  BY DEF ToolResults, ToolResult
<1>4. Assistant(calls).role = "assistant" /\ Assistant(calls).calls = calls
  BY DEF Assistant
<1>5. IsSequence(<<Assistant(calls)>>) /\ DOMAIN <<Assistant(calls)>> = 1 .. 1
      /\ <<Assistant(calls)>>[1] = Assistant(calls) /\ Len(<<Assistant(calls)>>) = 1
  BY SingletonFacts
<1> HIDE DEF results
<1>6. /\ IsSequence(batch) /\ 1 \in DOMAIN batch /\ batch[1] = Assistant(calls)
      /\ \A i \in DOMAIN calls : 1 + i \in DOMAIN batch /\ batch[1 + i] = results[i]
      /\ \A i \in DOMAIN batch : i = 1 \/ (i > 1 /\ i - 1 \in DOMAIN calls)
  BY <1>2, <1>5, ConcatFacts
<1>7. DOMAIN batch = 1 .. Len(batch) /\ Len(batch) \in Nat
  BY <1>6, SequenceFacts
<1> HIDE DEF batch
<1>8. \A j \in DOMAIN calls : AnsweredAt(batch, 1, j)
  BY <1>3, <1>4, <1>6 DEF AnsweredAt
<1>9. ASSUME NEW i \in DOMAIN batch, HasCalls(batch[i]) PROVE i = 1
  <2>1. CASE i > 1 /\ i - 1 \in DOMAIN calls
    <3>1. 1 + (i - 1) = i
      BY <1>7
    <3> QED
      BY <1>3, <1>6, <1>9, <2>1, <3>1 DEF HasCalls
  <2> QED
    BY <1>6, <2>1
<1>10. ASSUME NEW k \in DOMAIN batch, batch[k].role = "tool"
       PROVE  /\ k - 1 \in DOMAIN calls /\ 1 \in 1 .. k - 1 /\ HasCalls(batch[1])
  <2>1. k # 1
    BY <1>4, <1>6, <1>10
  <2>2. k > 1 /\ k - 1 \in DOMAIN calls
    BY <1>6, <2>1
  <2> QED
    BY <1>1, <1>4, <1>6, <1>7, <2>2, EmptyFacts DEF HasCalls
<1>11. IsHistory(batch)
  BY <1>4, <1>6, <1>9 DEF IsHistory
<1>12. WellPaired(batch)
  <2>1. ASSUME NEW i \in DOMAIN batch, HasCalls(batch[i]), NEW j \in DOMAIN batch[i].calls
        PROVE  AnsweredAt(batch, i, j)
    BY <1>4, <1>6, <1>8, <1>9, <2>1
  <2>2. ASSUME NEW k \in DOMAIN batch, batch[k].role = "tool"
        PROVE  \E i \in 1 .. k - 1 : /\ HasCalls(batch[i]) /\ k - i \in DOMAIN batch[i].calls
                                    /\ AnsweredAt(batch, i, k - i)
    BY <1>4, <1>6, <1>8, <1>10, <2>2
  <2> QED
    BY <2>1, <2>2 DEF WellPaired
<1> QED
  BY <1>11, <1>12 DEF Paired, batch, results

\* The calls of the model's message join what the turn has produced, ...
LEMMA CallsAppended ==
  ASSUME NEW h, Paired(h), NEW calls, IsSequence(calls)
  PROVE  LET p == Append(h, Assistant(calls)) IN
         /\ IsHistory(p) /\ p # << >> /\ Last(p) = Assistant(calls) /\ Front(p) = h
<1> DEFINE p == Append(h, Assistant(calls))
           S == ToSet(h) \cup {Assistant(calls)}
<1>1. h \in Seq(S)
  BY SeqMonotonic DEF Paired, IsHistory, IsSequence
<1>2. p \in Seq(S) /\ Len(p) = Len(h) + 1 /\ p # << >> /\ p[Len(h) + 1] = Assistant(calls)
      /\ \A i \in 1 .. Len(h) : p[i] = h[i]
  BY <1>1, AppendProperties
<1>3. Last(p) = Assistant(calls)
  BY <1>2 DEF Last
<1>4. Front(p) = h
  <2> HIDE DEF p, S
  <2>1. /\ Front(p) \in Seq(S) /\ Len(Front(p)) = Len(h)
        /\ \A i \in 1 .. Len(h) : Front(p)[i] = h[i]
    BY <1>1, <1>2 DEF Front
  <2> QED
    BY <1>1, <2>1, SeqEqual
<1>5. IsHistory(p)
  <2>1. IsSequence(p)
    BY <1>2, SeqIsSequence
  <2>2. ASSUME NEW i \in DOMAIN p, HasCalls(p[i]) PROVE IsSequence(p[i].calls)
    <3>1. i \in 1 .. Len(h) + 1 /\ Len(h) \in Nat /\ DOMAIN h = 1 .. Len(h)
      BY <1>1, <1>2, <2>2
    <3>2. CASE i \in 1 .. Len(h)
      BY <1>2, <2>2, <3>1, <3>2 DEF Paired, IsHistory
    <3>3. CASE i = Len(h) + 1
      BY <1>2, <3>3 DEF Assistant
    <3> QED
      BY <3>1, <3>2, <3>3
  <2> QED
    BY <2>1, <2>2 DEF IsHistory
<1> QED
  BY <1>2, <1>3, <1>4, <1>5

\* ... and the results follow them when the turn leaves acting.
LEMMA CallsAnswered ==
  ASSUME TurnPairs, turn.state \in Acting, NEW outcomes
  PROVE  Paired(Collected(outcomes))
<1> DEFINE p == turn.produced
           results == ToolResults(turn.pending, outcomes)
           batch == <<Assistant(turn.pending)>> \o results
<1>1. /\ IsSequence(turn.pending) /\ IsHistory(p) /\ p # << >>
      /\ Last(p) = Assistant(turn.pending) /\ WellPaired(Front(p))
  BY DEF TurnPairs
<1>2. p \in Seq(ToSet(p)) /\ Len(p) \in Nat \ {0}
  <2>1. p \in Seq(ToSet(p))
    BY <1>1 DEF IsHistory, IsSequence
  <2> QED
    BY <1>1, <2>1, EmptySeq
<1> HIDE DEF p
<1>3. Front(p) \in Seq(ToSet(p)) /\ Len(Front(p)) = Len(p) - 1 /\ \A i \in 1 .. Len(p) - 1 : Front(p)[i] = p[i]
  <2> DEFINE n == Len(p) - 1
  <2>1. n \in Nat /\ \A i \in 1 .. n : p[i] \in ToSet(p)
    BY <1>2
  <2> HIDE DEF n
  <2>2. /\ SubSeq(p, 1, n) \in Seq(ToSet(p))
        /\ Len(SubSeq(p, 1, n)) = IF 1 <= n THEN n - 1 + 1 ELSE 0
        /\ \A i \in 1 .. n - 1 + 1 : SubSeq(p, 1, n)[i] = p[1 + i - 1]
    BY <2>1, SubSeqProperties
  <2>3. Len(SubSeq(p, 1, n)) = n /\ \A i \in 1 .. n : SubSeq(p, 1, n)[i] = p[i]
    BY <2>1, <2>2
  <2> QED
    BY <2>2, <2>3 DEF Front, n
<1>4. p = Front(p) \o <<p[Len(p)]>>
  <2>1. <<p[Len(p)]>> \in Seq(ToSet(p)) /\ Len(<<p[Len(p)]>>) = 1 /\ <<p[Len(p)]>>[1] = p[Len(p)]
    BY <1>2
  <2> DEFINE q == Front(p) \o <<p[Len(p)]>>
  <2>2. q \in Seq(ToSet(p)) /\ Len(q) = Len(p)
        /\ \A i \in 1 .. Len(p) : q[i] = IF i <= Len(p) - 1 THEN Front(p)[i] ELSE <<p[Len(p)]>>[i - (Len(p) - 1)]
    BY <1>2, <1>3, <2>1, ConcatProperties
  <2> HIDE DEF q
  <2>3. \A i \in 1 .. Len(p) : q[i] = p[i]
    BY <1>2, <1>3, <2>1, <2>2
  <2>4. q = p
    BY <1>2, <2>2, <2>3, SeqEqual
  <2> QED
    BY <2>4 DEF q
<1>5. Paired(Front(p))
  <2>1. DOMAIN Front(p) = 1 .. Len(p) - 1 /\ DOMAIN p = 1 .. Len(p) /\ IsSequence(Front(p))
    BY <1>2, <1>3, SeqIsSequence
  <2>2. \A i \in DOMAIN Front(p) : i \in DOMAIN p /\ Front(p)[i] = p[i]
    BY <1>2, <1>3, <2>1
  <2> QED
    BY <1>1, <2>1, <2>2 DEF Paired, IsHistory
<1>6. Paired(Front(p) \o batch)
  BY <1>1, <1>5, BatchIsPaired, PairedConcat
<1>7. IsSequence(results)
  <2>1. DOMAIN turn.pending = 1 .. Len(turn.pending) /\ Len(turn.pending) \in Nat
    BY <1>1, SequenceFacts
  <2>2. results \in [1 .. Len(turn.pending) -> {results[i] : i \in DOMAIN turn.pending}]
    BY <2>1 DEF ToolResults
  <2> HIDE DEF results
  <2> QED
    BY <2>1, <2>2, SeqDef, SeqIsSequence
<1> HIDE DEF results
<1>8. Front(p) \o batch = p \o results
  <2> DEFINE a == <<Assistant(turn.pending)>>
             S == ToSet(p) \cup ToSet(a) \cup ToSet(results)
  <2>1. Front(p) \in Seq(S) /\ results \in Seq(S) /\ a \in Seq(S)
    BY <1>3, <1>7, SeqMonotonic, SingletonFacts DEF IsSequence
  <2>2. p = Front(p) \o a
    BY <1>1, <1>4 DEF Last
  <2> HIDE DEF a, S
  <2>3. (Front(p) \o a) \o results = Front(p) \o (a \o results)
    BY <2>1, ConcatAssociative, SMTT(60)
  <2>4. batch = a \o results
    BY DEF a
  <2> QED
    BY <2>2, <2>3, <2>4
<1> QED
  BY <1>6, <1>8 DEF Collected, p, results

----------------------------------------------------------------------------
(* Calls and results.                                                      *)

\* The turn: calls enter what it has produced with a batch, and leave acting
\* only with all their results.
LEMMA TurnPairsStep ==
  ASSUME TurnPairs, NotesPlain, IsSequence(agentBox), DOMAIN turn = DOMAIN NoTurn,
         LlmStep \/ TurnTimer \/ TurnStep
  PROVE  TurnPairs'
<1> USE TurnFields DEF Acting
<1>1. ASSUME NEW outcome, NEW produced, NEW signals, signals = << >> \/ signals \in Reactions,
             EndTurn(outcome, produced, signals), Paired(produced)
      PROVE  TurnPairs'
  BY <1>1, EndTurnEffect, EmptyFacts DEF TurnPairs, Paired
<1>2. ASSUME turn'.produced = turn.produced, turn'.pending = turn.pending,
             turn'.state \in Acting <=> turn.state \in Acting
      PROVE  TurnPairs'
  BY <1>2 DEF TurnPairs
<1>3. turn.state \notin Acting => Paired(turn.produced)
  BY DEF TurnPairs, Paired
<1>4. CASE \E calls \in FreshCalls, r \in Reactions : LlmCallsTools(calls, r)
  <2>1. PICK calls \in FreshCalls, r \in Reactions : LlmCallsTools(calls, r)
    BY <1>4
  <2>2. IsSequence(calls)
    <3>1. PICK ts \in SUBSET {t \in ToolIds : tool[t] = "none"} : calls \in SetToSeqs(ts)
      BY <2>1 DEF FreshCalls
    <3>2. Cardinality(ts) \in Nat
      BY AgentAssumption, FS_Subset, FS_CardinalityType
    <3> QED
      BY <3>1, <3>2, SeqDef, SeqIsSequence, ZenonT(60) DEF SetToSeqs
  <2>3. /\ turn'.state = "acting" /\ turn'.pending = calls
        /\ turn'.produced = Append(turn.produced, Assistant(calls))
    BY <2>1 DEF LlmCallsTools
  <2>4. Paired(turn.produced)
    BY <1>3, <2>1 DEF LlmCallsTools
  <2> QED
    BY <2>2, <2>3, <2>4, CallsAppended DEF TurnPairs, Paired
<1>5. CASE \E r \in Reactions : LlmAnswers(r)
  <2>1. Paired(turn.produced)
    BY <1>3, <1>5 DEF LlmAnswers
  <2>2. Paired(Append(turn.produced, Assistant(<< >>)))
    <3>1. Append(turn.produced, Assistant(<< >>)) = turn.produced \o <<Assistant(<< >>)>>
      BY <2>1, AppendIsConcat DEF Paired, IsHistory, IsSequence
    <3> QED
      BY <2>1, <3>1, PlainFacts, PairedConcat
  <2> QED
    BY <1>1, <1>5, <2>2 DEF LlmAnswers
<1>6. CASE BeforeStepFails \/ \E r \in Reactions : LlmFails(r)
  BY <1>1, <1>3, <1>6 DEF BeforeStepFails, LlmFails
<1>7. CASE LlmFailureRecovered \/ LlmFailureRetried \/ BeforeStepDone \/ RetryDelayElapses \/ TurnThrows
  BY <1>2, <1>7 DEF LlmFailureRecovered, LlmFailureRetried, BeforeStepDone, RetryDelayElapses, TurnThrows
<1>8. CASE AbortGraceElapses
  BY <1>1, <1>8, CallsAnswered DEF AbortGraceElapses
<1>9. CASE TurnPauses \/ TurnDrops
  BY <1>2, <1>9 DEF TurnPauses, TurnDrops
<1>10. CASE TurnAborts
  <2>1. CASE turn.state \in {"gating", "retrying", "draining"} /\ EndTurn("aborted", turn.produced, << >>)
    BY <1>1, <1>3, <2>1
  <2>2. CASE /\ turn.state = "thinking"
             /\ \E salvaged \in {<< >>, <<Assistant(<< >>)>>} :
                  EndTurn("aborted", turn.produced \o salvaged, << >>)
    <3>1. \A salvaged \in {<< >>, <<Assistant(<< >>)>>} : Paired(turn.produced \o salvaged)
      BY <1>3, <2>2, PlainFacts, PairedConcat
    <3> QED
      BY <1>1, <2>2, <3>1
  <2>3. CASE turn.state = "acting" /\ turn' = [turn EXCEPT !.state = "acting.aborting", !.outcome = "aborted"]
    BY <1>2, <2>3
  <2>4. CASE turn.state = "acting.aborting" /\ EndTurn("aborted", Collected(AbortOutcomes), << >>)
    BY <1>1, <2>4, CallsAnswered
  <2> QED
    BY <1>10, <2>1, <2>2, <2>3, <2>4 DEF TurnAborts
<1>11. CASE TurnNotified
  <2> DEFINE drained == Head(turnBox).messages
  <2>1. Plain(drained)
    BY <1>11, SequenceFacts DEF TurnNotified, Receive, NotesPlain
  <2>2. Paired(turn.produced) /\ Paired(turn.produced \o drained) /\ turn.state \notin Acting
    BY <1>3, <1>11, <2>1, PlainFacts, PairedConcat DEF TurnNotified
  <2>3. CASE \E outcome : EndTurn(outcome, turn.produced \o drained, << >>)
    BY <1>1, <2>2, <2>3
  <2>4. CASE EndTurn("failed", turn.produced, << >>)
    BY <1>1, <2>2, <2>4
  <2>5. CASE turn' = [turn EXCEPT !.state = StepState, !.produced = turn.produced \o drained, !.attempt = 1,
                                   !.recoveries = 0,
                                   !.steps = IF drained # << >> THEN 1 ELSE @ + 1]
    <3>1. turn'.state \notin Acting /\ turn'.produced = turn.produced \o drained /\ turn'.pending = turn.pending
      BY <2>5 DEF StepState
    <3> QED
      BY <2>2, <3>1 DEF TurnPairs, Paired
  <2> QED
    BY <1>11, <2>3, <2>4, <2>5 DEF TurnNotified
<1>12. CASE TurnToolEvent
  <2>1. turn.state \in Acting
    BY <1>12 DEF TurnToolEvent
  <2>2. CASE \E outcomes : EndTurn("aborted", Collected(outcomes), << >>)
    BY <1>1, <2>1, <2>2, CallsAnswered
  <2>3. CASE \E outcomes : turn' = [turn EXCEPT !.outcomes = outcomes]
    BY <1>2, <2>3
  <2>4. CASE \E outcomes : turn' = [turn EXCEPT !.state = "draining", !.produced = Collected(outcomes),
                                              !.pending = << >>, !.outcomes = NoOutcomes]
    BY <2>1, <2>4, CallsAnswered, EmptyFacts DEF TurnPairs, Paired
  <2> QED
    BY <1>12, <2>2, <2>3, <2>4 DEF TurnToolEvent
<1> QED
  BY <1>4, <1>5, <1>6, <1>7, <1>8, <1>9, <1>10, <1>11, <1>12
     DEF LlmStep, TurnTimer, TurnStep, TurnReceives

\* What the agent does with an event: a closed machine stays closed, and a turn
\* goes on unless the event is its end or closes the machine.
LEMMA ReceiveKeeps ==
  ASSUME AgentReceives
  PROVE  /\ state \in Over => state' \in Over
         /\ state \in Running /\ ~IsEnd(Head(agentBox)) =>
              state' \in Over \/ (state' \in Running /\ turn' = turn)
<1> USE DEF Over, Running, Idle
<1>1. ASSUME NEW notes, NEW q, NEW pz, NEW bg, UpdateContext(notes, q, pz, bg),
             state \in Over \cup Running
      PROVE  state' = state /\ turn' = turn
  BY <1>1, UpdateEffect
<1>2. CASE \E x : Submit(x) \/ Notify(x) \/ Retry \/ Remind(x) \/ Steer(x) \/ Cancel(x)
  BY <1>1, <1>2 DEF Submit, Notify, Retry, Remind, Steer, Cancel, turnVars
<1>3. CASE Pause \/ Continue
  BY <1>1, <1>3 DEF Pause, Continue, ResumesChain
<1>4. CASE Drain \/ StoreReady \/ Close
  BY <1>4 DEF Drain, StoreReady, Close, turnVars
<1>5. CASE IsEnd(Head(agentBox)) /\ \E produced : TurnEnds(produced)
  BY <1>5 DEF TurnEnds
<1>6. CASE \E ev : ToolReport(ev)
  BY <1>1, <1>6 DEF ToolReport
<1>7. CASE \E rest : AbortInput(rest) \/ \E calls : SpawnTools(calls, rest)
  BY <1>7 DEF AbortInput, SpawnTools, turnVars
<1> QED
  BY <1>2, <1>3, <1>4, <1>5, <1>6, <1>7 DEF AgentReceives, IsEnd

LEMMA EndReportedOnceStep ==
  ASSUME StoreOK, EndReportedOnce, [Next]_vars
  PROVE  EndReportedOnce'
<1> USE DEF EndReportedOnce
<1>1. CASE AgentReceives
  <2>1. PICK new : /\ agentBox' = Tail(agentBox) \o new /\ IsSequence(new)
                   /\ \A i \in DOMAIN new : new[i].type = "tool.aborted"
    BY <1>1, ReceiveEffect DEF StoreOK
  <2>2. /\ IsSequence(Tail(agentBox)) /\ DOMAIN Tail(agentBox) \subseteq Nat \ {0}
        /\ 1 \in DOMAIN agentBox /\ Head(agentBox) = agentBox[1]
        /\ \A i \in DOMAIN Tail(agentBox) : i + 1 \in DOMAIN agentBox /\ Tail(agentBox)[i] = agentBox[i + 1]
    BY <1>1, ReceiveEffect, SequenceFacts DEF StoreOK, MailOK
  <2>3. ASSUME NEW i \in DOMAIN agentBox', IsEnd(agentBox'[i])
        PROVE  i \in Nat \ {0} /\ i + 1 \in DOMAIN agentBox /\ IsEnd(agentBox[i + 1])
    <3>1. i \in DOMAIN Tail(agentBox) /\ agentBox'[i] = Tail(agentBox)[i]
      BY <2>1, <2>2, <2>3, ConcatFacts DEF IsEnd
    <3> QED
      BY <2>2, <2>3, <3>1
  <2>4. ASSUME NEW i \in DOMAIN agentBox', IsEnd(agentBox'[i]), state \notin Over
        PROVE  /\ state \in Running /\ turn.state = "final" /\ ~IsEnd(Head(agentBox))
               /\ \A j \in DOMAIN agentBox' : IsEnd(agentBox'[j]) => i = j
    <3>1. /\ i \in Nat \ {0} /\ i + 1 \in DOMAIN agentBox /\ IsEnd(agentBox[i + 1])
      BY <2>3, <2>4
    <3>2. /\ state \in Running /\ turn.state = "final"
          /\ \A j \in DOMAIN agentBox : IsEnd(agentBox[j]) => i + 1 = j
      BY <2>4, <3>1
    <3>3. ~IsEnd(Head(agentBox))
      BY <2>2, <3>1, <3>2
    <3>4. \A j \in DOMAIN agentBox' : IsEnd(agentBox'[j]) => i = j
      BY <2>3, <3>1, <3>2
    <3> QED
      BY <3>2, <3>3, <3>4
  <2> QED
    BY <1>1, <2>4, ReceiveKeeps
<1>2. CASE SendInput
  <2>1. ASSUME NEW ev, Send(ev), ~IsEnd(ev)
        PROVE  \E e : agentBox' = Append(agentBox, e) /\ ~IsEnd(e)
    BY <2>1 DEF Send
  <2>2. PICK ev : agentBox' = Append(agentBox, ev) /\ ~IsEnd(ev)
    BY <1>2, <2>1 DEF SendInput, IsEnd
  <2>3. UNCHANGED <<state, turn>>
    BY <1>2 DEF SendInput, Send, agentVars, turnVars
  <2>4. \A i \in DOMAIN agentBox' : (i \in DOMAIN agentBox /\ agentBox'[i] = agentBox[i]) \/ ~IsEnd(agentBox'[i])
    BY <2>2, SequenceFacts DEF StoreOK, MailOK
  <2> QED
    BY <2>3, <2>4
<1>3. CASE LlmStep \/ TurnTimer \/ TurnStep
  <2>1. state' = state
    BY <1>3, TurnEffect DEF StoreOK, MailOK, ContextOK, agentVars
  <2>2. CASE UNCHANGED <<turn, agentBox>>
    BY <2>1, <2>2
  <2>3. CASE turn.state \notin TurnOver /\ \E new : agentBox' = agentBox \o new /\ Reported(new)
    <3>1. PICK new : agentBox' = agentBox \o new /\ Reported(new)
      BY <2>3
    <3>2. state \in Running /\ \A i \in DOMAIN agentBox : ~IsEnd(agentBox[i])
      BY <2>3 DEF StoreOK, ContextOK, TurnOver, Over, Running
    <3>3. ASSUME NEW i \in DOMAIN agentBox', IsEnd(agentBox'[i])
          PROVE  turn'.state = "final" /\ i - Len(agentBox) = Len(new) /\ i \in Nat /\ Len(agentBox) \in Nat
      <4>1. IsSequence(agentBox) /\ IsSequence(new)
        BY <3>1 DEF StoreOK, MailOK, Reported
      <4>2. i - Len(agentBox) \in DOMAIN new /\ agentBox'[i] = new[i - Len(agentBox)]
        BY <3>1, <3>2, <3>3, <4>1, ConcatFacts
      <4>3. IsSequence(agentBox') /\ DOMAIN agentBox' \subseteq Nat /\ Len(agentBox) \in Nat
        BY <3>1, <4>1, ConcatFacts, SequenceFacts
      <4> QED
        BY <3>1, <3>3, <4>2, <4>3 DEF Reported, IsEnd, Inputs
    <3>4. \A i, j \in DOMAIN agentBox' : IsEnd(agentBox'[i]) /\ IsEnd(agentBox'[j]) => i = j
      BY <3>3
    <3> QED
      BY <2>1, <3>2, <3>3, <3>4
  <2> QED
    BY <1>3, <2>2, <2>3, TurnEffect DEF StoreOK, MailOK, ContextOK
<1>4. CASE ScopeLinked \/ RecoveryRetries
  BY <1>4, SingletonFacts DEF ScopeLinked, RecoveryRetries, IsEnd
<1>5. CASE agentBox' = << >>
  BY <1>5, EmptyFacts
<1>6. CASE UNCHANGED vars
  BY <1>6 DEF vars, agentVars, turnVars
<1>7. CASE \/ \E t \in ToolIds : ToolStep(t)
           \/ AbortTimeout \/ LinkFails \/ StoreReset \/ Disposed \/ RecoveryEnds
           \/ \E v \in {"allow", "block", "error"} : GateVerdict(v)
           \/ \E h : RequestReset(h) \/ RecoveryReset(h)
  BY <1>5, <1>7 DEF RecoveryEnds, ToolStep, AbortTimeout, LinkFails, StoreReset, Disposed, GateVerdict,
     RequestReset, RecoveryReset, DispatchReset, Quiet
<1> QED
  BY <1>1, <1>2, <1>3, <1>4, <1>6, <1>7 DEF Next, LoopSteps

LEMMA WithoutIsSequence ==
  ASSUME NEW s, IsSequence(s), NEW gone
  PROVE  IsSequence(Without(s, gone))
<1> DEFINE kept == {i \in DOMAIN s : s[i] \notin gone}
<1>1. Cardinality(kept) \in Nat
  <2>1. IsFiniteSet(DOMAIN s)
    BY SequenceFacts, FS_Interval
  <2>2. kept \subseteq DOMAIN s
    OBVIOUS
  <2> QED
    BY <2>1, <2>2, FS_Subset, FS_CardinalityType
<1> DEFINE w == Without(s, gone)
           n == Cardinality(kept)
<1>2. w \in [1 .. n -> {w[i] : i \in 1 .. n}]
  BY DEF Without
<1> HIDE DEF w, kept
<1> QED
  BY <1>1, <1>2, SeqDef, SeqIsSequence DEF w, n

LEMMA PairingInit == Init => PairingOK
BY AgentAssumption, EmptyFacts, PlainFacts, TurnRecords
   DEF Init, PairingOK, EndReportedOnce, NotesPlain, ResetPaired, HistoriesOK, TurnPairs, Acting, Paired, IsHistory

\* What the agent sends to its turn: of these events only turn.notify carries
\* entries, the notifications and reminders that were pending.
LEMMA NotesPlainStep ==
  ASSUME StoreOK, PairingOK, [Next]_vars
  PROVE  NotesPlain' /\ IsSequence(reminders)'
<1> USE DEF PairingOK
<1>1. ASSUME turnBox' = turnBox \/ turnBox' = << >> \/ (turnBox # << >> /\ turnBox' = Tail(turnBox))
      PROVE  NotesPlain'
  <2>1. CASE turnBox # << >> /\ turnBox' = Tail(turnBox)
    <3>1. IsSequence(turnBox') /\ \A i \in DOMAIN turnBox' : i + 1 \in DOMAIN turnBox /\ turnBox'[i] = turnBox[i + 1]
      BY <2>1, SequenceFacts DEF NotesPlain
    <3> QED
      BY <3>1 DEF NotesPlain
  <2> QED
    BY <1>1, <2>1, EmptyFacts DEF NotesPlain
<1>2. ASSUME NEW ev, turnBox' = Append(turnBox, ev), ev.type = "turn.notify" => Plain(ev.messages)
      PROVE  NotesPlain'
  BY <1>2, SequenceFacts DEF NotesPlain
<1>3. ASSUME reminders' = reminders \/ reminders' = << >> PROVE IsSequence(reminders)'
  BY <1>3, EmptyFacts
<1>4. CASE AgentReceives
  <2>1. CASE \E x : Submit(x) \/ Notify(x) \/ Retry \/ Steer(x) \/ Cancel(x)
    BY <1>1, <1>3, <2>1 DEF Submit, Notify, Retry, Steer, Cancel
  <2>2. CASE \E x : Remind(x)
    <3>1. PICK x : reminders' = Append(Without(reminders, {x}), x) /\ turnBox' = turnBox
      BY <2>2 DEF Remind, turnVars
    <3> QED
      BY <1>1, <3>1, WithoutIsSequence, SequenceFacts
  <2>3. CASE Pause \/ Continue
    <3>1. /\ reminders' = reminders
          /\ \/ turnBox' = turnBox
             \/ \E ev : turnBox' = Append(turnBox, ev) /\ ev.type # "turn.notify"
      <4>1. [type |-> "turn.pause"].type # "turn.notify" /\ [type |-> "turn.continue"].type # "turn.notify"
        OBVIOUS
      <4>2. CASE Pause
        BY <4>1, <4>2 DEF Pause
      <4>3. CASE Continue
        BY <4>1, <4>3 DEF Continue
      <4> QED
        BY <2>3, <4>2, <4>3
    <3> QED
      BY <1>1, <1>2, <1>3, <3>1
  <2>4. CASE Drain
    <3>1. CASE state \in Running
      <4>1. Plain(PendingEntries)
        <5>1. /\ DOMAIN reminders = 1 .. Len(reminders) /\ Len(reminders) \in Nat
              /\ DOMAIN ReminderEntries = DOMAIN reminders
          BY SequenceFacts DEF ReminderEntries
        <5>2. ReminderEntries \in [1 .. Len(reminders) -> {ReminderEntries[i] : i \in DOMAIN reminders}]
          BY <5>1 DEF ReminderEntries
        <5>3. IsSequence(ReminderEntries)
          BY <5>1, <5>2, SeqDef, SeqIsSequence
        <5>4. \A i \in DOMAIN ReminderEntries : ReminderEntries[i].role = "reminder"
          BY DEF ReminderEntries, ReminderEntry
        <5> QED
          BY <5>3, <5>4, PlainFacts DEF Plain, HasCalls, PendingEntries, HistoriesOK
      <4>2. turnBox' = Append(turnBox, [type |-> "turn.notify", messages |-> PendingEntries])
        BY <2>4, <3>1 DEF Drain
      <4>3. reminders' = << >>
        BY <2>4, <3>1 DEF Drain
      <4> HIDE DEF PendingEntries
      <4> QED
        BY <1>2, <1>3, <4>1, <4>2, <4>3
    <3>2. CASE state \notin Running
      BY <1>1, <1>3, <2>4, <3>2 DEF Drain
    <3> QED
      BY <3>1, <3>2
  <2>5. CASE StoreReady \/ Close \/ \E produced : TurnEnds(produced)
    BY <1>1, <1>3, <2>5 DEF StoreReady, Close, TurnEnds, ExitRunning
  <2>6. CASE \E ev : ev.type = "tool.aborted" /\ ToolReport(ev)
    BY <1>1, <1>2, <1>3, <2>6 DEF ToolReport
  <2>7. CASE \E rest : AbortInput(rest) \/ \E calls : SpawnTools(calls, rest)
    <3>1. /\ reminders' = reminders
          /\ \/ turnBox' = turnBox
             \/ \E ev : turnBox' = Append(turnBox, ev) /\ ev.type # "turn.notify"
      BY <2>7 DEF AbortInput, SpawnTools, turnVars
    <3> QED
      BY <1>1, <1>2, <1>3, <3>1
  <2> QED
    BY <1>4, <2>1, <2>2, <2>3, <2>4, <2>5, <2>6, <2>7 DEF AgentReceives
<1>5. CASE LlmStep \/ TurnTimer
  BY <1>1, <1>3, <1>5 DEF LlmStep, TurnTimer, agentVars, LlmCallsTools, LlmAnswers, LlmFails,
     LlmFailureRecovered, LlmFailureRetried, TurnThrows, BeforeStepDone, BeforeStepFails,
     RetryDelayElapses, AbortGraceElapses
<1>6. CASE TurnStep
  BY <1>1, <1>3, <1>6 DEF TurnStep, agentVars, TurnReceives, TurnPauses, TurnAborts, TurnToolEvent,
     TurnNotified, TurnDrops, Receive
<1>7. CASE SendInput \/ LoopSteps
  BY <1>1, <1>3, <1>7 DEF SendInput, LoopSteps, RecoveryRetries, RecoveryEnds, Send, agentVars, turnVars
<1>8. CASE \E t \in ToolIds : ToolStep(t)
  <2>1. PICK t \in ToolIds : ToolStep(t)
    BY <1>8
  <2>2. CASE \E ev : ev.type # "turn.notify" /\ ToolReport(ev)
    BY <1>1, <1>2, <1>3, <2>2 DEF ToolReport
  <2>3. CASE UNCHANGED agentVars /\ UNCHANGED turnVars
    BY <1>1, <1>3, <2>3 DEF agentVars, turnVars
  <2> QED
    BY <2>1, <2>2, <2>3 DEF ToolStep
<1>9. CASE AbortTimeout
  <2>1. reminders' = reminders /\ \E ev : turnBox' = Append(turnBox, ev) /\ ev.type # "turn.notify"
    BY <1>9 DEF AbortTimeout, agentVars
  <2> QED
    BY <1>2, <1>3, <2>1
<1>10. CASE ScopeLinked \/ LinkFails \/ StoreReset \/ Disposed
  BY <1>1, <1>3, <1>10 DEF ScopeLinked, LinkFails, StoreReset, Disposed, turnVars
<1>11. CASE \/ \E v \in {"allow", "block", "error"} : GateVerdict(v)
            \/ \E h : RequestReset(h) \/ RecoveryReset(h)
  BY <1>1, <1>3, <1>11 DEF GateVerdict, RequestReset, RecoveryReset, DispatchReset, turnVars
<1>12. CASE UNCHANGED vars
  BY <1>1, <1>3, <1>12 DEF vars, agentVars, turnVars
<1> QED
  BY <1>4, <1>5, <1>6, <1>7, <1>8, <1>9, <1>10, <1>11, <1>12 DEF Next, LoopSteps

\* An idle machine that settles, or starts a turn on what was pending.
LEMMA HistoriesSettle ==
  ASSUME NEW msgs, NEW st, NEW notes, NEW q, NEW pz, Settles(msgs, st, notes, q, pz),
         Paired(msgs), Paired(st), Plain(notes)
  PROVE  HistoriesOK'
<1> USE TurnRecords, PlainFacts
<1>1. turn' \in {NoTurn, FreshTurn} => TurnPairs'
  BY EmptyFacts DEF TurnPairs, Acting, Paired, IsHistory
<1>2. Plain(Committed(notes, q))
  BY DEF Committed
<1>3. Paired(msgs \o Committed(notes, q)) /\ Paired(st \o Committed(notes, q))
  BY <1>2, PairedConcat
<1> QED
  BY <1>1, <1>3 DEF Settles, HistoriesOK

\* A reset restores a prefix of the history that is well paired.
LEMMA PrefixPaired ==
  ASSUME Paired(messages), NEW h \in {x \in ResetHistories : WellPaired(x)}
  PROVE  Paired(h)
<1>1. PICK k \in 0 .. Len(messages) : h = SubSeq(messages, 1, k)
  BY DEF ResetHistories
<1>2. messages \in Seq(ToSet(messages)) /\ Len(messages) \in Nat /\ DOMAIN messages = 1 .. Len(messages)
  BY DEF Paired, IsHistory, IsSequence
<1>3. /\ h \in Seq(ToSet(messages)) /\ Len(h) = k
      /\ \A i \in 1 .. k : h[i] = messages[i]
  BY <1>1, <1>2
<1>4. IsSequence(h) /\ DOMAIN h = 1 .. k
  BY <1>3, SeqIsSequence, LenProperties
<1>5. IsHistory(h)
  BY <1>1, <1>2, <1>3, <1>4 DEF Paired, IsHistory
<1> QED
  BY <1>5 DEF Paired

\* What a reset restores is well paired when the reset is requested.
LEMMA ResetPairedStep ==
  ASSUME PairingOK, [Next]_vars
  PROVE  ResetPaired'
<1>1. CASE resetTo' \in {resetTo, << >>}
  BY <1>1 DEF PairingOK, ResetPaired
<1>2. CASE \E h \in {x \in ResetHistories : WellPaired(x)} : resetTo' = <<h>>
  <2>1. PICK h \in {x \in ResetHistories : WellPaired(x)} : resetTo' = <<h>>
    BY <1>2
  <2>2. Paired(h)
    BY <2>1, PrefixPaired DEF PairingOK, HistoriesOK
  <2>3. Head(resetTo') = h
    BY <2>1
  <2> QED
    BY <2>2, <2>3 DEF ResetPaired
<1> QED
  BY <1>1, <1>2, ResetsStep

\* The history: entries join it plain, or with what a turn has produced once it
\* is final, when no call of it is without its result.
LEMMA HistoriesStep ==
  ASSUME StoreOK, PairingOK, [Next]_vars
  PROVE  HistoriesOK'
<1> USE DEF PairingOK
<1>1. ASSUME UNCHANGED <<messages, stored, turn>>, notifications' = notifications \/ notifications' = << >>
      PROVE  HistoriesOK'
  BY <1>1, PlainFacts DEF HistoriesOK, TurnPairs
<1>2. ASSUME NEW notes, NEW q, NEW pz, NEW bg, UpdateContext(notes, q, pz, bg), Plain(notes)
      PROVE  HistoriesOK'
  <2>1. CASE Settles(messages, stored, notes, q, pz)
    BY <1>2, <2>1, HistoriesSettle DEF HistoriesOK
  <2>2. CASE notifications' = notes /\ UNCHANGED <<messages, stored, turn>>
    BY <1>2, <2>2 DEF HistoriesOK, TurnPairs
  <2> QED
    BY <1>2, <2>1, <2>2, UpdateEffect
<1>3. ASSUME NEW msgs, NEW st, NEW notes, NEW q, NEW pz, NEW bg, Settle("ready", msgs, st, notes, q, pz, bg),
             Paired(msgs), Paired(st), Plain(notes)
      PROVE  HistoriesOK'
  BY <1>3, SettleEffect, HistoriesSettle
<1>4. ASSUME NEW q, StartTurn(messages, stored, notifications, q)
      PROVE  HistoriesOK'
  <2>1. Settles(messages, stored, notifications, q, FALSE)
    BY <1>4 DEF StartTurn, Settles, Committed
  <2> QED
    BY <2>1, HistoriesSettle DEF HistoriesOK
<1>5. /\ Plain(notifications) /\ \A ids : Plain(Append(notifications, User(ids)))
      /\ Plain(<< >>) /\ Paired(<< >>) /\ Paired(messages) /\ Paired(stored)
  BY PlainFacts DEF HistoriesOK
<1>6. CASE AgentReceives
  <2>1. CASE \E x : Submit(x) \/ Notify(x) \/ Retry \/ Cancel(x) \/ Steer(x)
    BY <1>2, <1>5, <2>1 DEF Submit, Notify, Retry, Cancel, Steer
  <2>2. CASE \/ \E x : Remind(x)
             \/ Drain
             \/ \E rest : AbortInput(rest) \/ \E calls : SpawnTools(calls, rest)
    BY <1>1, <2>2 DEF Remind, Drain, AbortInput, SpawnTools, turnVars
  <2>3. CASE Pause \/ Continue
    BY <1>2, <1>4, <1>5, <2>3 DEF Pause, Continue
  <2>4. CASE StoreReady
    BY <1>1, <1>3, <1>5, <2>4 DEF StoreReady
  <2>5. CASE Close
    BY <2>5, EmptyFacts, PlainFacts, TurnRecords
       DEF Close, HistoriesOK, TurnPairs, Acting, Paired, IsHistory
  <2>6. ASSUME NEW produced, TurnEnds(produced), IsEnd(Head(agentBox)),
               produced \in {turn.produced, << >>}
        PROVE  HistoriesOK'
    <3>1. CASE state \in Running
      <4>1. turn.state = "final"
        BY <1>6, <2>6, <3>1, SequenceFacts DEF AgentReceives, StoreOK, MailOK, EndReportedOnce, Over, Running
      <4>2. Paired(produced)
        BY <1>5, <2>6, <4>1 DEF HistoriesOK, TurnPairs, Acting, Paired
      <4>3. Paired(messages \o produced) /\ Paired(stored \o produced)
        BY <1>5, <4>2, PairedConcat
      <4> QED
        BY <1>3, <1>5, <2>6, <3>1, <4>3 DEF TurnEnds
    <3> QED
      BY <1>1, <2>6, <3>1 DEF TurnEnds
  <2>7. CASE \E ev : ToolReport(ev)
    BY <1>1, <1>2, <1>5, <2>7 DEF ToolReport
  <2> QED
    BY <1>6, <2>1, <2>2, <2>3, <2>4, <2>5, <2>6, <2>7 DEF AgentReceives, IsEnd
<1>7. CASE LlmStep \/ TurnTimer \/ TurnStep
  <2>1. UNCHANGED <<messages, stored, notifications>>
    BY <1>7, TurnEffect DEF StoreOK, MailOK, ContextOK, agentVars
  <2>2. TurnPairs'
    BY <1>7, TurnPairsStep DEF StoreOK, MailOK, ContextOK, HistoriesOK
  <2> QED
    BY <2>1, <2>2 DEF HistoriesOK
<1>8. CASE SendInput \/ LoopSteps \/ AbortTimeout
  BY <1>1, <1>8 DEF SendInput, LoopSteps, RecoveryRetries, RecoveryEnds, Send, AbortTimeout, agentVars, turnVars
<1>9. CASE \E t \in ToolIds : ToolStep(t)
  BY <1>1, <1>2, <1>5, <1>9 DEF ToolStep, ToolReport, agentVars, turnVars
<1>10. CASE ScopeLinked \/ LinkFails \/ Disposed
  BY <1>1, <1>10 DEF ScopeLinked, LinkFails, Disposed, turnVars
<1>11. CASE StoreReset
  <2>1. Settle("ready", Head(resetTo), stored, << >>, queue, paused, {}) /\ Paired(Head(resetTo))
    BY <1>11 DEF StoreReset, ResetPaired
  <2> QED
    BY <1>3, <1>5, <2>1
<1>12. CASE \E v \in {"allow", "block", "error"} : GateVerdict(v)
  BY <1>3, <1>4, <1>5, <1>12 DEF GateVerdict
<1>13. CASE \E h \in {x \in ResetHistories : WellPaired(x)} : RequestReset(h) \/ RecoveryReset(h)
  <2>1. PICK h \in {x \in ResetHistories : WellPaired(x)} : RequestReset(h) \/ RecoveryReset(h)
    BY <1>13
  <2>2. stored' = h /\ UNCHANGED <<messages, notifications, turn>>
    BY <2>1 DEF RequestReset, RecoveryReset, DispatchReset, turnVars
  <2>3. Paired(h)
    BY <1>5, <2>1, PrefixPaired
  <2> QED
    BY <2>2, <2>3 DEF HistoriesOK, TurnPairs
<1>14. CASE UNCHANGED vars
  BY <1>1, <1>14 DEF vars, agentVars, turnVars
<1> QED
  BY <1>6, <1>7, <1>8, <1>9, <1>10, <1>11, <1>12, <1>13, <1>14 DEF Next, LoopSteps

\* Whatever the order of results, detachments, aborts, timeouts, ends of turns
\* and resets, the history holds exactly one result for each of its calls,
\* where it belongs, and so does what the running turn has produced, but for
\* the batch it is acting on.
THEOREM CallsAreAnsweredOnce == Spec => []EveryCallAnsweredOnce
<1>1. StoreOK /\ PairingOK /\ [Next]_vars => StoreOK' /\ PairingOK'
  <2> SUFFICES ASSUME StoreOK, PairingOK, [Next]_vars PROVE StoreOK' /\ PairingOK'
    OBVIOUS
  <2>1. StoreOK'
    BY MailStep, ResetIsAwaitedStep, ContextStep DEF StoreOK, ContextOK
  <2>2. EndReportedOnce'
    BY EndReportedOnceStep DEF PairingOK
  <2> QED
    BY <2>1, <2>2, NotesPlainStep, HistoriesStep, ResetPairedStep DEF PairingOK
<1>2. PairingOK => EveryCallAnsweredOnce
  BY DEF PairingOK, HistoriesOK, Paired, TurnPairs, Acting, EveryCallAnsweredOnce
<1> QED
  BY <1>1, <1>2, StoreInit, PairingInit, PTL DEF Spec

----------------------------------------------------------------------------
(* Counting.                                                               *)

\* How often x is delivered by a history, and how often it is in a queue.
Count(s, x) == Cardinality(Deliveries(s, x))
At(q, x) == {i \in DOMAIN q : q[i] = x}
Queued(q, x) == Cardinality(At(q, x))

\* A set of indices of s and one of r, moved behind it, are as many together.
Joined(s, r, A, B, C) ==
  /\ IsSequence(s) /\ IsSequence(r) /\ A \subseteq DOMAIN s /\ B \subseteq DOMAIN r
  /\ \A i : i \in C <=> i \in A \/ (i \in DOMAIN (s \o r) /\ i > Len(s) /\ i - Len(s) \in B)

LEMMA IndicesConcat ==
  ASSUME NEW s, NEW r, NEW A, NEW B, NEW C, Joined(s, r, A, B, C)
  PROVE  /\ Cardinality(C) = Cardinality(A) + Cardinality(B)
         /\ Cardinality(A) \in Nat /\ Cardinality(B) \in Nat
<1> DEFINE D == {i \in DOMAIN (s \o r) : i > Len(s) /\ i - Len(s) \in B}
<1> USE DEF Joined
<1>1. /\ DOMAIN s = 1 .. Len(s) /\ DOMAIN r = 1 .. Len(r) /\ Len(s) \in Nat /\ Len(r) \in Nat
      /\ DOMAIN (s \o r) = 1 .. Len(s) + Len(r)
  BY SequenceFacts, ConcatFacts
<1>2. IsFiniteSet(A) /\ IsFiniteSet(B)
  <2>1. IsFiniteSet(DOMAIN s) /\ IsFiniteSet(DOMAIN r)
    BY <1>1, FS_Interval
  <2> QED
    BY <2>1, FS_Subset
<1>3. IsFiniteSet(D) /\ Cardinality(D) = Cardinality(B)
  <2> DEFINE f == [j \in B |-> Len(s) + j]
  <2>1. f \in [B -> D] /\ \A j \in B : f[j] = Len(s) + j
    BY <1>1
  <2>2. \A i, j \in B : f[i] = f[j] => i = j
    BY <1>1
  <2>3. \A d \in D : \E j \in B : f[j] = d
    <3> SUFFICES ASSUME NEW d \in D PROVE \E j \in B : f[j] = d
      OBVIOUS
    <3>1. d - Len(s) \in B /\ Len(s) + (d - Len(s)) = d
      BY <1>1
    <3> QED
      BY <3>1
  <2> HIDE DEF f, D
  <2>4. f \in Bijection(B, D)
    BY <2>1, <2>2, <2>3, Fun_IsBij
  <2> QED
    BY <1>2, <2>4, FS_Bijection, Fun_ExistsBij
<1>4. A \cap D = {}
  BY <1>1
<1>5. Cardinality(A) \in Nat /\ Cardinality(B) \in Nat
  BY <1>2, FS_CardinalityType
<1>6. \A i : i \in C <=> i \in A \/ i \in D
  OBVIOUS
<1> HIDE DEF D
<1>7. C = A \cup D
  BY <1>6
<1>8. Cardinality(A \cup D) = Cardinality(A) + Cardinality(D) - Cardinality(A \cap D)
  BY <1>2, <1>3, FS_Union
<1>9. Cardinality(A \cap D) = 0
  BY <1>4, FS_EmptySet
<1> QED
  BY <1>3, <1>5, <1>7, <1>8, <1>9

LEMMA CountConcat ==
  ASSUME NEW s, NEW r, IsSequence(s), IsSequence(r), NEW x
  PROVE  /\ Count(s \o r, x) = Count(s, x) + Count(r, x)
         /\ Count(s, x) \in Nat /\ Count(r, x) \in Nat
<1> DEFINE A == Deliveries(s, x)
           B == Deliveries(r, x)
           C == Deliveries(s \o r, x)
<1>1. A \subseteq DOMAIN s /\ B \subseteq DOMAIN r
  BY DEF Deliveries
<1>2. Joined(s, r, A, B, C)
  <2>1. /\ DOMAIN s = 1 .. Len(s) /\ Len(s) \in Nat
        /\ \A i \in DOMAIN s : i \in DOMAIN (s \o r) /\ (s \o r)[i] = s[i]
        /\ \A i \in DOMAIN (s \o r) :
              \/ i \in DOMAIN s /\ (s \o r)[i] = s[i]
              \/ i > Len(s) /\ i - Len(s) \in DOMAIN r /\ (s \o r)[i] = r[i - Len(s)]
    BY SequenceFacts, ConcatFacts
  <2> QED
    BY <1>1, <2>1 DEF Deliveries, Joined
<1> HIDE DEF A, B, C
<1>3. Cardinality(C) = Cardinality(A) + Cardinality(B) /\ Cardinality(A) \in Nat /\ Cardinality(B) \in Nat
  BY <1>2, IndicesConcat
<1> QED
  BY <1>3 DEF Count, A, B, C

LEMMA QueuedConcat ==
  ASSUME NEW s, NEW r, IsSequence(s), IsSequence(r), NEW x
  PROVE  /\ Queued(s \o r, x) = Queued(s, x) + Queued(r, x)
         /\ Queued(s, x) \in Nat /\ Queued(r, x) \in Nat
<1> DEFINE A == At(s, x)
           B == At(r, x)
           C == At(s \o r, x)
<1>1. A \subseteq DOMAIN s /\ B \subseteq DOMAIN r
  BY DEF At
<1>2. Joined(s, r, A, B, C)
  <2>1. /\ DOMAIN s = 1 .. Len(s) /\ Len(s) \in Nat
        /\ \A i \in DOMAIN s : i \in DOMAIN (s \o r) /\ (s \o r)[i] = s[i]
        /\ \A i \in DOMAIN (s \o r) :
              \/ i \in DOMAIN s /\ (s \o r)[i] = s[i]
              \/ i > Len(s) /\ i - Len(s) \in DOMAIN r /\ (s \o r)[i] = r[i - Len(s)]
    BY SequenceFacts, ConcatFacts
  <2> QED
    BY <1>1, <2>1 DEF At, Joined
<1> HIDE DEF A, B, C
<1>3. Cardinality(C) = Cardinality(A) + Cardinality(B) /\ Cardinality(A) \in Nat /\ Cardinality(B) \in Nat
  BY <1>2, IndicesConcat
<1> QED
  BY <1>3 DEF Queued, A, B, C

LEMMA CountSmall ==
  ASSUME NEW x
  PROVE  /\ Count(<< >>, x) = 0 /\ Queued(<< >>, x) = 0
         /\ \A e : Count(<<e>>, x) = IF e.role = "user" /\ x \in e.ids THEN 1 ELSE 0
         /\ \A ids : Count(<<User(ids)>>, x) = IF x \in ids THEN 1 ELSE 0
         /\ \A y : Queued(<<y>>, x) = IF x = y THEN 1 ELSE 0
<1>1. Count(<< >>, x) = 0 /\ Queued(<< >>, x) = 0
  <2>1. Deliveries(<< >>, x) = {} /\ At(<< >>, x) = {}
    BY EmptyFacts DEF Deliveries, At
  <2> QED
    BY <2>1, FS_EmptySet DEF Count, Queued
<1>2. ASSUME NEW e PROVE Count(<<e>>, x) = IF e.role = "user" /\ x \in e.ids THEN 1 ELSE 0
  <2>1. DOMAIN <<e>> = {1} /\ <<e>>[1] = e
    BY SingletonFacts
  <2>2. Deliveries(<<e>>, x) = IF e.role = "user" /\ x \in e.ids THEN {1} ELSE {}
    BY <2>1 DEF Deliveries
  <2> QED
    BY <2>2, FS_EmptySet, FS_Singleton DEF Count
<1>3. ASSUME NEW y PROVE Queued(<<y>>, x) = IF x = y THEN 1 ELSE 0
  <2>1. DOMAIN <<y>> = {1} /\ <<y>>[1] = y
    BY SingletonFacts
  <2>2. At(<<y>>, x) = IF x = y THEN {1} ELSE {}
    BY <2>1 DEF At
  <2> QED
    BY <2>2, FS_EmptySet, FS_Singleton DEF Queued
<1>4. \A ids : User(ids).role = "user" /\ User(ids).ids = ids
  BY DEF User
<1> QED
  BY <1>1, <1>2, <1>3, <1>4

\* What is counted is there.
LEMMA CountPositive ==
  ASSUME NEW s, IsSequence(s), NEW x
  PROVE  /\ Count(s, x) \in Nat /\ (Count(s, x) > 0 <=> x \in Delivers(s))
         /\ Queued(s, x) \in Nat /\ (Queued(s, x) > 0 <=> x \in Range(s))
<1>1. IsFiniteSet(DOMAIN s)
  BY SequenceFacts, FS_Interval
<1>2. IsFiniteSet(Deliveries(s, x)) /\ IsFiniteSet(At(s, x))
  BY <1>1, FS_Subset DEF Deliveries, At
<1>3. Count(s, x) \in Nat /\ Queued(s, x) \in Nat
  BY <1>2, FS_CardinalityType DEF Count, Queued
<1>4. (Count(s, x) = 0 <=> Deliveries(s, x) = {}) /\ (Queued(s, x) = 0 <=> At(s, x) = {})
  BY <1>2, FS_EmptySet DEF Count, Queued
<1>5. Deliveries(s, x) # {} <=> x \in Delivers(s)
  BY DEF Deliveries, Delivers
<1>6. At(s, x) # {} <=> x \in Range(s)
  BY DEF At, Range
<1> QED
  BY <1>3, <1>4, <1>5, <1>6

\* An element more, at either end.
LEMMA CountStep ==
  ASSUME NEW s, IsSequence(s), NEW x
  PROVE  /\ \A e : Count(Append(s, e), x) = Count(s, x) + Count(<<e>>, x)
         /\ \A y : Queued(Append(s, y), x) = Queued(s, x) + (IF x = y THEN 1 ELSE 0)
         /\ s # << >> => Queued(s, x) = (IF x = Head(s) THEN 1 ELSE 0) + Queued(Tail(s), x)
<1>1. \A e : Append(s, e) = s \o <<e>>
  BY AppendIsConcat DEF IsSequence
<1>2. ASSUME s # << >> PROVE s = <<Head(s)>> \o Tail(s) /\ IsSequence(Tail(s))
  <2>1. s = <<Head(s)>> \o Tail(s)
    BY <1>2 DEF IsSequence
  <2> QED
    BY <1>2, <2>1, SequenceFacts
<1>3. ASSUME NEW e PROVE Count(Append(s, e), x) = Count(s, x) + Count(<<e>>, x)
  <2>1. Count(s \o <<e>>, x) = Count(s, x) + Count(<<e>>, x)
    BY CountConcat, SingletonFacts
  <2> QED
    BY <1>1, <2>1
<1>4. ASSUME NEW y PROVE Queued(Append(s, y), x) = Queued(s, x) + (IF x = y THEN 1 ELSE 0)
  <2>1. Queued(s \o <<y>>, x) = Queued(s, x) + Queued(<<y>>, x)
    BY QueuedConcat, SingletonFacts
  <2> QED
    BY <1>1, <2>1, CountSmall
<1>5. ASSUME s # << >>
      PROVE  Queued(s, x) = (IF x = Head(s) THEN 1 ELSE 0) + Queued(Tail(s), x)
  <2>1. Queued(<<Head(s)>> \o Tail(s), x) = Queued(<<Head(s)>>, x) + Queued(Tail(s), x)
    BY <1>2, <1>5, QueuedConcat, SingletonFacts
  <2> QED
    BY <1>2, <1>5, <2>1, CountSmall
<1> QED
  BY <1>3, <1>4, <1>5

\* One entry of the user more.
LEMMA CountUser ==
  ASSUME NEW s, IsSequence(s), NEW ids, NEW x
  PROVE  Count(Append(s, User(ids)), x) = Count(s, x) + (IF x \in ids THEN 1 ELSE 0)
<1>1. Append(s, User(ids)) = s \o <<User(ids)>>
  BY AppendIsConcat DEF IsSequence
<1>2. Count(s \o <<User(ids)>>, x) = Count(s, x) + Count(<<User(ids)>>, x)
  BY CountConcat, SingletonFacts
<1>3. Count(<<User(ids)>>, x) = IF x \in ids THEN 1 ELSE 0
  BY CountSmall
<1> QED
  BY <1>1, <1>2, <1>3

\* A filter keeps what it does not drop, as often as it was there: the kept
\* indices and their ranks are in bijection.
LEMMA WithoutCounts ==
  ASSUME NEW s, IsSequence(s), NEW gone, NEW x
  PROVE  /\ Queued(Without(s, gone), x) = IF x \in gone THEN 0 ELSE Queued(s, x)
         /\ Range(Without(s, gone)) \subseteq Range(s)
<1> DEFINE kept == {i \in DOMAIN s : s[i] \notin gone}
           Upto(i) == {j \in kept : j <= i}
           n == Cardinality(kept)
           Nth(k) == CHOOSE i \in kept : Cardinality(Upto(i)) = k
           w == Without(s, gone)
<1>1. DOMAIN s = 1 .. Len(s) /\ Len(s) \in Nat
  BY SequenceFacts
<1>2. IsFiniteSet(kept) /\ n \in Nat /\ \A i \in kept : i \in Nat /\ i \in DOMAIN s /\ s[i] \notin gone
  <2>1. IsFiniteSet(DOMAIN s) /\ kept \subseteq DOMAIN s
    BY <1>1, FS_Interval
  <2> QED
    BY <1>1, <2>1, FS_Subset, FS_CardinalityType
<1>3. w = [k \in 1 .. n |-> s[Nth(k)]]
  BY DEF Without
<1> HIDE DEF w
<1>4. ASSUME NEW i \in kept
      PROVE  IsFiniteSet(Upto(i)) /\ Cardinality(Upto(i)) \in 1 .. n
  <2>1. Upto(i) \subseteq kept /\ i \in Upto(i)
    BY <1>2
  <2> HIDE DEF Upto, kept
  <2>2. IsFiniteSet(Upto(i)) /\ Cardinality(Upto(i)) <= n
    BY <1>2, <2>1, FS_Subset
  <2>3. Cardinality(Upto(i)) \in Nat /\ Cardinality(Upto(i)) # 0
    BY <2>1, <2>2, FS_CardinalityType, FS_EmptySet
  <2> QED
    BY <1>2, <2>2, <2>3
<1>5. ASSUME NEW i \in kept, NEW k \in kept, Cardinality(Upto(i)) = Cardinality(Upto(k))
      PROVE  i = k
  <2>1. ASSUME NEW a \in kept, NEW b \in kept, a <= b, Cardinality(Upto(a)) = Cardinality(Upto(b))
        PROVE  a = b
    <3>1. Upto(a) \subseteq Upto(b) /\ b \in Upto(b)
      BY <1>2, <2>1
    <3>2. IsFiniteSet(Upto(b))
      BY <1>4
    <3>3. Upto(a) = Upto(b)
      <4> HIDE DEF Upto, kept
      <4> QED
        BY <2>1, <3>1, <3>2, FS_Subset
    <3> QED
      BY <1>2, <2>1, <3>1, <3>3
  <2>2. i <= k \/ k <= i
    BY <1>2
  <2> QED
    BY <1>5, <2>1, <2>2
<1> HIDE DEF Upto
<1>6. \A k \in 1 .. n : \E i \in kept : Cardinality(Upto(i)) = k
  <2> DEFINE rank == [i \in kept |-> Cardinality(Upto(i))]
  <2>1. rank \in [kept -> 1 .. n] /\ \A i, k \in kept : rank[i] = rank[k] => i = k
    BY <1>4, <1>5
  <2>2. \A i \in kept : rank[i] = Cardinality(Upto(i))
    OBVIOUS
  <2> HIDE DEF rank, kept
  <2>3. rank \in Injection(kept, 1 .. n)
    BY <2>1, Fun_IsInj
  <2>4. IsFiniteSet(1 .. n) /\ Cardinality(1 .. n) = n
    BY <1>2, FS_Interval
  <2>5. rank \in Surjection(kept, 1 .. n)
    BY <2>3, <2>4, FS_Injection
  <2> QED
    BY <2>2, <2>5 DEF Surjection
<1>7. \A k \in 1 .. n : Nth(k) \in kept /\ Cardinality(Upto(Nth(k))) = k
  <2> HIDE DEF kept
  <2> QED
    BY <1>6
<1>8. \A i \in kept : Nth(Cardinality(Upto(i))) = i
  <2> HIDE DEF kept, Nth
  <2> QED
    BY <1>4, <1>5, <1>7
<1> HIDE DEF Nth
<1>9. DOMAIN w = 1 .. n /\ \A k \in 1 .. n : w[k] = s[Nth(k)]
  BY <1>3
<1>10. Range(w) \subseteq Range(s)
  BY <1>2, <1>7, <1>9 DEF Range
<1>11. CASE x \in gone
  <2>1. At(w, x) = {}
    BY <1>2, <1>7, <1>9, <1>11 DEF At
  <2> QED
    BY <1>10, <1>11, <2>1, FS_EmptySet DEF Queued, w
<1>12. CASE x \notin gone
  <2> DEFINE g == [i \in At(s, x) |-> Cardinality(Upto(i))]
  <2>1. At(s, x) \subseteq kept
    BY <1>12 DEF At
  <2>2. g \in [At(s, x) -> At(w, x)]
    <3> SUFFICES ASSUME NEW i \in At(s, x) PROVE Cardinality(Upto(i)) \in At(w, x)
      OBVIOUS
    <3>1. i \in kept /\ s[i] = x
      BY <2>1 DEF At
    <3>2. Cardinality(Upto(i)) \in 1 .. n /\ w[Cardinality(Upto(i))] = x
      BY <1>4, <1>8, <1>9, <3>1
    <3> QED
      BY <1>9, <3>2 DEF At
  <2>3. \A i, k \in At(s, x) : g[i] = g[k] => i = k
    BY <1>5, <2>1
  <2>4. \A k \in At(w, x) : \E i \in At(s, x) : g[i] = k
    <3> SUFFICES ASSUME NEW k \in At(w, x) PROVE \E i \in At(s, x) : g[i] = k
      OBVIOUS
    <3>1. k \in 1 .. n /\ s[Nth(k)] = x
      BY <1>9 DEF At
    <3>2. Nth(k) \in At(s, x) /\ Cardinality(Upto(Nth(k))) = k
      BY <1>2, <1>7, <3>1 DEF At
    <3> QED
      BY <3>2
  <2> HIDE DEF g
  <2>5. ExistsBijection(At(s, x), At(w, x))
    BY <2>2, <2>3, <2>4, Fun_IsBij, Fun_ExistsBij
  <2>6. IsFiniteSet(At(s, x))
    BY <1>2, <2>1, FS_Subset
  <2>7. Cardinality(At(w, x)) = Cardinality(At(s, x))
    BY <2>5, <2>6, FS_Bijection
  <2> QED
    BY <1>10, <1>12, <2>7 DEF Queued, w
<1> QED
  BY <1>11, <1>12

----------------------------------------------------------------------------
(* The order of signals.                                                   *)

ToolEvents == {"tool.done", "tool.failed", "tool.aborted", "tool.detached"}
TurnStates == {"none", "gating", "thinking", "retrying", "acting", "acting.aborting", "draining", "final"}

AbortSent == turnBox # << >> /\ Head(turnBox).type = "turn.abort"
Waits(type) == \E i \in DOMAIN agentBox : agentBox[i].type = type

\* One signal at a time is under way to the turn.  The turn drains when its
\* notifications arrive: nothing was waiting when it asked for them, because an
\* abort that leaves reports in the mailbox has reached the turn before.
SignalsOK ==
  /\ turn.state \in TurnStates /\ (state \in Running => turn.state # "none")
  /\ turnBox # << >> => turnBox = <<Head(turnBox)>>
  /\ turnBox # << >> /\ Head(turnBox).type = "turn.notify" => turn.state = "draining"
  /\ turnBox # << >> /\ Head(turnBox).type \in ToolEvents /\ turn.state = "acting" => agentBox = << >>
  /\ state = "aborting" => turn.state \in {"acting.aborting", "final"} \/ AbortSent
  /\ turn.state = "acting.aborting" => turn.outcome = "aborted"
  /\ Waits("tool.aborted") => turn.state # "acting" \/ AbortSent
  /\ \A i \in DOMAIN agentBox : agentBox[i].type = "turn.drain" =>
       i = 1 /\ turnBox = << >> /\ (state \in Running => turn.state = "draining")

\* One request to spawn tools waits at a time, for calls that have no actor.
SpawnsAreFresh ==
  \A i \in DOMAIN agentBox : agentBox[i].type = "turn.spawn_tools" =>
    /\ \A j \in DOMAIN agentBox : agentBox[j].type = "turn.spawn_tools" => i = j
    /\ \A t \in Range(agentBox[i].calls) : tool[t] = "none"

IsSending(ev) == ev.type \in {"input.submit", "input.notify"}

\* What is submitted was not submitted before.
InputsAreNew ==
  /\ accepted \subseteq Prompts \cup Notes
  /\ \A i \in DOMAIN agentBox :
       /\ agentBox[i].type = "input.submit" => agentBox[i].id \in Prompts \ accepted
       /\ agentBox[i].type = "input.notify" => agentBox[i].id \in Notes \ accepted
       /\ IsSending(agentBox[i]) =>
            \A j \in DOMAIN agentBox : IsSending(agentBox[j]) /\ agentBox[i].id = agentBox[j].id => i = j

Harmless == (Inputs \ {"input.submit", "input.notify"}) \cup {"turn.done", "turn.error", "store.ready"}

\* The mailbox grows by events that neither spawn nor deliver.
LEMMA BoxGrows ==
  ASSUME MailOK, NEW new, IsSequence(new), agentBox' = agentBox \o new,
         \A i \in DOMAIN new : new[i].type \in Harmless
  PROVE  /\ SpawnsAreFresh /\ (\A t \in ToolCalls : tool[t] = "none" => tool'[t] = "none") => SpawnsAreFresh'
         /\ InputsAreNew /\ accepted' = accepted => InputsAreNew'
         /\ \A i \in DOMAIN agentBox' : agentBox'[i].type \in {"turn.drain", "tool.aborted"} =>
              i \in DOMAIN agentBox /\ agentBox'[i] = agentBox[i]
<1>1. ASSUME NEW i \in DOMAIN agentBox'
      PROVE  (i \in DOMAIN agentBox /\ agentBox'[i] = agentBox[i]) \/ agentBox'[i].type \in Harmless
  BY <1>1, ConcatFacts DEF MailOK
<1>2. Harmless \cap {"turn.drain", "tool.aborted", "turn.spawn_tools", "input.submit", "input.notify"} = {}
  BY DEF Harmless, Inputs
<1> HIDE DEF Harmless
<1> QED
  BY <1>1, <1>2 DEF SpawnsAreFresh, InputsAreNew, IsSending, MailOK

\* The agent takes the first event; reports of aborts are added.
LEMMA BoxShrinks ==
  ASSUME IsSequence(agentBox), agentBox # << >>, NEW new, IsSequence(new), agentBox' = Tail(agentBox) \o new,
         \A i \in DOMAIN new : new[i].type = "tool.aborted"
  PROVE  /\ \A i \in DOMAIN agentBox' : \/ i + 1 \in DOMAIN agentBox /\ i >= 1 /\ agentBox'[i] = agentBox[i + 1]
                                        \/ agentBox'[i].type = "tool.aborted" /\ i - (Len(agentBox) - 1) \in DOMAIN new
         /\ 1 \in DOMAIN agentBox /\ Head(agentBox) = agentBox[1]
         /\ \A i \in DOMAIN agentBox : i \in Nat
<1>1. /\ IsSequence(Tail(agentBox)) /\ DOMAIN Tail(agentBox) = 1 .. Len(agentBox) - 1
      /\ \A i \in DOMAIN Tail(agentBox) : i + 1 \in DOMAIN agentBox /\ Tail(agentBox)[i] = agentBox[i + 1]
      /\ 1 \in DOMAIN agentBox /\ Head(agentBox) = agentBox[1]
      /\ DOMAIN agentBox = 1 .. Len(agentBox) /\ Len(agentBox) \in Nat
  BY SequenceFacts
<1>2. Len(Tail(agentBox)) = Len(agentBox) - 1
  BY <1>1, SequenceFacts
<1> QED
  BY <1>1, <1>2, ConcatFacts

\* A turn that ends adds harmless events.
LEMMA EndIsHarmless ==
  ASSUME FreshIdentities, StoreOK, SpawnsAreFresh, InputsAreNew, UNCHANGED tool, UNCHANGED accepted,
         NEW outcome, NEW produced, NEW signals, signals = << >> \/ signals \in Reactions,
         EndTurn(outcome, produced, signals)
  PROVE  /\ turn'.state = "final" /\ SpawnsAreFresh' /\ InputsAreNew'
         /\ \A i \in DOMAIN agentBox' : agentBox'[i].type \in {"turn.drain", "tool.aborted"} =>
              i \in DOMAIN agentBox /\ agentBox'[i] = agentBox[i]
<1> DEFINE done == [type |-> "turn.done"]
           new == signals \o <<done>>
<1>1. IsSequence(signals) /\ \A i \in DOMAIN signals : signals[i].type \in Harmless
  BY EmptyFacts, TurnAssumption DEF FreshIdentities, Harmless
<1>2. agentBox' = (agentBox \o signals) \o <<done>> /\ done.type = "turn.done" /\ turn'.state = "final"
  BY TurnFields DEF EndTurn, StoreOK, ContextOK
<1> HIDE DEF done
<1>3. agentBox' = agentBox \o new
  <2> DEFINE S == ToSet(agentBox) \cup ToSet(signals) \cup {done}
  <2>1. agentBox \in Seq(S) /\ signals \in Seq(S) /\ <<done>> \in Seq(S)
    BY <1>1, SeqMonotonic DEF IsSequence, StoreOK, MailOK
  <2> QED
    BY <1>2, <2>1, ConcatAssociative, SMTT(30)
<1>4. IsSequence(new) /\ \A i \in DOMAIN new : new[i].type \in Harmless
  <2>1. done.type \in Harmless
    BY <1>2 DEF Harmless
  <2> HIDE DEF Harmless
  <2> QED
    BY <1>1, <2>1, SingletonFacts, ConcatFacts
<1> HIDE DEF new
<1> QED
  BY <1>2, <1>3, <1>4, BoxGrows DEF StoreOK

\* While nothing waits, the model, the timers and the hooks move the turn; it
\* may ask for tools, or end.
LEMMA QuietTurnSteps ==
  ASSUME FreshIdentities, StoreOK, SignalsOK, SpawnsAreFresh, InputsAreNew, Quiet,
         LlmStep \/ TurnTimer
  PROVE  SignalsOK' /\ SpawnsAreFresh' /\ InputsAreNew'
<1> USE TurnFields
<1>1. /\ turnBox' = << >> /\ state' = state /\ UNCHANGED tool /\ UNCHANGED accepted
      /\ DOMAIN turn = DOMAIN NoTurn /\ agentBox = << >> /\ turnBox = << >>
      /\ state = "aborting" => turn.state \in {"acting.aborting", "final"}
      /\ state \in Running => turn.state # "none"
  BY DEF LlmStep, TurnTimer, Quiet, agentVars, toolVars, StoreOK, ContextOK, SignalsOK, AbortSent,
         LlmCallsTools, LlmAnswers, LlmFails, LlmFailureRecovered, LlmFailureRetried, TurnThrows,
         BeforeStepDone, BeforeStepFails, RetryDelayElapses, AbortGraceElapses
<1>2. ASSUME NEW outcome, NEW produced, NEW signals, signals = << >> \/ signals \in Reactions,
             EndTurn(outcome, produced, signals)
      PROVE  SignalsOK' /\ SpawnsAreFresh' /\ InputsAreNew'
  <2>1. turn'.state = "final" /\ SpawnsAreFresh' /\ InputsAreNew' /\ \A i \in DOMAIN agentBox' : agentBox'[i].type \notin {"turn.drain", "tool.aborted"}
    BY <1>1, <1>2, EndIsHarmless, EmptyFacts
  <2> QED
    BY <1>1, <2>1 DEF SignalsOK, Waits, TurnStates, AbortSent
<1>3. CASE \E r \in Reactions : LlmAnswers(r) \/ LlmFails(r)
  BY <1>2, <1>3 DEF LlmAnswers, LlmFails
<1>4. CASE BeforeStepFails \/ AbortGraceElapses
  BY <1>2, <1>4 DEF BeforeStepFails, AbortGraceElapses
<1>5. CASE LlmFailureRecovered \/ LlmFailureRetried \/ BeforeStepDone \/ RetryDelayElapses
  <2>1. turn'.state \in {"thinking", "retrying"} /\ agentBox' = agentBox /\ state # "aborting"
    BY <1>1, <1>5 DEF LlmFailureRecovered, LlmFailureRetried, BeforeStepDone, RetryDelayElapses
  <2> QED
    BY <1>1, <2>1, EmptyFacts DEF SignalsOK, Waits, TurnStates, SpawnsAreFresh, InputsAreNew
<1>6. CASE TurnThrows
  <2>1. turn'.state = "final" /\ agentBox' = << >> \o <<[type |-> "turn.error"]>>
    BY <1>1, <1>6, SingletonFacts, ConcatFacts DEF TurnThrows
  <2>2. [type |-> "turn.error"].type \in Harmless
    BY DEF Harmless
  <2>3. \A i \in DOMAIN agentBox' : agentBox'[i].type \notin {"turn.drain", "tool.aborted"}
    BY <2>1, SingletonFacts, ConcatFacts
  <2>4. SpawnsAreFresh' /\ InputsAreNew'
    <3> HIDE DEF Harmless
    <3> QED
      BY <1>1, <2>1, <2>2, BoxGrows, SingletonFacts DEF StoreOK
  <2> QED
    BY <1>1, <2>1, <2>3, <2>4 DEF SignalsOK, Waits, TurnStates
<1>7. CASE \E calls \in FreshCalls, r \in Reactions : LlmCallsTools(calls, r)
  <2>1. PICK calls \in FreshCalls, r \in Reactions : LlmCallsTools(calls, r)
    BY <1>7
  <2> DEFINE spawn == [type |-> "turn.spawn_tools", calls |-> calls]
  <2>2. /\ agentBox' = r \o <<spawn>> /\ turn'.state = "acting"
        /\ spawn.type = "turn.spawn_tools" /\ spawn.calls = calls /\ turn.state = "thinking"
    BY <1>1, <2>1 DEF LlmCallsTools
  <2>3. \A t \in Range(calls) : tool[t] = "none"
    <3>1. PICK ts \in SUBSET {t \in ToolIds : tool[t] = "none"} : calls \in SetToSeqs(ts)
      BY DEF FreshCalls
    <3>2. \A t \in Range(calls) : t \in ts
      BY <3>1 DEF SetToSeqs, Range
    <3> QED
      BY <3>1, <3>2
  <2> HIDE DEF spawn
  <2>4. IsSequence(r) /\ \A i \in DOMAIN r : r[i].type \in Harmless
    BY TurnAssumption DEF FreshIdentities, Harmless
  <2>5. ASSUME NEW i \in DOMAIN agentBox'
        PROVE  agentBox'[i].type \in Harmless \/ (i = Len(r) + 1 /\ agentBox'[i] = spawn)
    <3>1. DOMAIN <<spawn>> = 1 .. 1 /\ <<spawn>>[1] = spawn /\ IsSequence(<<spawn>>) /\ Len(r) \in Nat
      BY <2>4, SingletonFacts, SequenceFacts
    <3>2. \/ i \in DOMAIN r /\ agentBox'[i] = r[i]
          \/ i > Len(r) /\ i - Len(r) \in 1 .. 1 /\ agentBox'[i] = <<spawn>>[i - Len(r)]
      BY <2>2, <2>4, <3>1, ConcatFacts
    <3>3. i \in Nat
      BY <2>2, <2>4, <3>1, ConcatFacts, SequenceFacts
    <3> QED
      BY <2>4, <3>1, <3>2, <3>3
  <2>6. Harmless \cap {"turn.drain", "tool.aborted", "turn.spawn_tools", "input.submit", "input.notify"} = {}
    BY DEF Harmless, Inputs
  <2> HIDE DEF Harmless
  <2>7. SpawnsAreFresh'
    BY <1>1, <2>2, <2>3, <2>5, <2>6 DEF SpawnsAreFresh
  <2>8. InputsAreNew'
    BY <1>1, <2>2, <2>5, <2>6 DEF InputsAreNew, IsSending
  <2> QED
    BY <1>1, <2>2, <2>5, <2>6, <2>7, <2>8 DEF SignalsOK, Waits, TurnStates
<1> QED
  BY <1>3, <1>4, <1>5, <1>6, <1>7 DEF LlmStep, TurnTimer

\* The turn takes its signal.
LEMMA TurnTakesSignal ==
  ASSUME FreshIdentities, StoreOK, SignalsOK, SpawnsAreFresh, InputsAreNew, IsSequence(turnBox), TurnStep
  PROVE  SignalsOK' /\ SpawnsAreFresh' /\ InputsAreNew'
<1> USE TurnFields
<1>1. /\ state' = state /\ UNCHANGED tool /\ UNCHANGED accepted /\ turnBox # << >>
      /\ turnBox' = Tail(turnBox) /\ DOMAIN turn = DOMAIN NoTurn
      /\ \A i \in DOMAIN agentBox : agentBox[i].type # "turn.drain"
      /\ state \in Running => turn.state # "none"
      /\ turn.state \in TurnStates
      /\ IsSequence(agentBox)
  BY DEF TurnStep, agentVars, toolVars, StoreOK, ContextOK, SignalsOK, TurnReceives, TurnPauses, Receive, MailOK,
         TurnAborts, TurnToolEvent, TurnNotified, TurnDrops
<1>2. turnBox' = << >>
  <2>1. turnBox = <<Head(turnBox)>>
    BY <1>1 DEF SignalsOK
  <2>2. Tail(<<Head(turnBox)>>) = << >>
    OBVIOUS
  <2> QED
    BY <1>1, <2>1, <2>2
<1>3. ASSUME NEW outcome, NEW produced, EndTurn(outcome, produced, << >>)
      PROVE  SignalsOK' /\ SpawnsAreFresh' /\ InputsAreNew'
  <2>1. turn'.state = "final" /\ SpawnsAreFresh' /\ InputsAreNew'
        /\ \A i \in DOMAIN agentBox' : agentBox'[i].type # "turn.drain"
    BY <1>1, <1>3, EndIsHarmless
  <2> QED
    BY <1>1, <1>2, <2>1 DEF SignalsOK, TurnStates
<1>4. ASSUME agentBox' = agentBox PROVE SpawnsAreFresh' /\ InputsAreNew'
  BY <1>1, <1>4 DEF SpawnsAreFresh, InputsAreNew
<1>5. CASE TurnPauses
  <2>1. turn'.state = turn.state /\ turn'.outcome = turn.outcome /\ agentBox' = agentBox /\ ~AbortSent
    BY <1>1, <1>5 DEF TurnPauses, Receive, AbortSent
  <2> QED
    BY <1>1, <1>2, <1>4, <2>1 DEF SignalsOK, Waits
<1>6. CASE TurnAborts
  <2>1. CASE turn' = [turn EXCEPT !.state = "acting.aborting", !.outcome = "aborted"] /\ UNCHANGED agentBox
    <3>1. turn'.state = "acting.aborting" /\ turn'.outcome = "aborted"
      BY <1>1, <2>1
    <3> QED
      BY <1>1, <1>2, <1>4, <2>1, <3>1 DEF SignalsOK, Waits, TurnStates
  <2> QED
    BY <1>3, <1>6, <2>1 DEF TurnAborts
<1>7. CASE TurnToolEvent
  <2>1. /\ turn.state \in {"acting", "acting.aborting"} /\ Head(turnBox).type \in ToolEvents /\ ~AbortSent
        /\ turn.state = "acting.aborting" => turn.outcome = "aborted"
    BY <1>7 DEF TurnToolEvent, Receive, ToolOutcomes, ToolEvents, AbortSent, SignalsOK
  <2>2. CASE \E outcomes : turn' = [turn EXCEPT !.outcomes = outcomes] /\ UNCHANGED agentBox
    <3>1. turn'.state = turn.state /\ turn'.outcome = turn.outcome
      BY <1>1, <2>2
    <3> QED
      BY <1>1, <1>2, <1>4, <2>1, <2>2, <3>1 DEF SignalsOK, Waits
  <2>3. CASE /\ turn.outcome # "aborted" /\ agentBox' = Append(agentBox, [type |-> "turn.drain"])
             /\ \E p : turn' = [turn EXCEPT !.state = "draining", !.produced = p,
                                            !.pending = << >>, !.outcomes = NoOutcomes]
    <3> DEFINE drain == [type |-> "turn.drain"]
    <3>1. turn.state = "acting" /\ agentBox = << >> /\ turn'.state = "draining" /\ drain.type = "turn.drain"
      BY <1>1, <2>1, <2>3 DEF SignalsOK
    <3>2. agentBox' = <<drain>>
      BY <2>3, <3>1
    <3> HIDE DEF drain
    <3>3. DOMAIN agentBox' = 1 .. 1 /\ agentBox'[1] = drain
      BY <3>2, SingletonFacts
    <3>4. SpawnsAreFresh' /\ InputsAreNew'
      BY <1>1, <3>1, <3>3 DEF SpawnsAreFresh, InputsAreNew, IsSending
    <3>5. state # "aborting"
      BY <2>1, <3>1 DEF SignalsOK
    <3> QED
      BY <1>1, <1>2, <3>1, <3>3, <3>4, <3>5 DEF SignalsOK, Waits, TurnStates
  <2> QED
    BY <1>3, <1>7, <2>2, <2>3 DEF TurnToolEvent
<1>8. CASE TurnNotified
  <2>1. turn.state = "draining" /\ ~AbortSent /\ state # "aborting"
    BY <1>8 DEF TurnNotified, Receive, AbortSent, SignalsOK
  <2>2. CASE agentBox' = agentBox /\ turn'.state \in {"gating", "thinking"}
    BY <1>1, <1>2, <1>4, <2>1, <2>2 DEF SignalsOK, Waits, TurnStates
  <2>3. CASE \E p, n : /\ turn' = [turn EXCEPT !.state = StepState, !.produced = p, !.attempt = 1,
                                               !.recoveries = 0, !.steps = n]
                       /\ UNCHANGED agentBox
    <3>1. turn'.state = StepState
      BY <1>1, <2>3
    <3> QED
      BY <2>2, <2>3, <3>1 DEF StepState
  <2> QED
    BY <1>3, <1>8, <2>3 DEF TurnNotified
<1>9. CASE TurnDrops
  <2>1. turn' = turn /\ agentBox' = agentBox /\ (AbortSent => turn.state \in {"none", "final"})
    BY <1>1, <1>9 DEF TurnDrops, Handles, AbortSent, Abortable, TurnStates
  <2>2. state = "aborting" => turn.state \in {"acting.aborting", "final"}
    BY <1>1, <2>1 DEF SignalsOK, Running
  <2>3. Waits("tool.aborted") => turn.state # "acting"
    BY <2>1 DEF SignalsOK
  <2> QED
    BY <1>1, <1>2, <1>4, <2>1, <2>2, <2>3 DEF SignalsOK, Waits
<1> QED
  BY <1>5, <1>6, <1>7, <1>8, <1>9 DEF TurnStep, TurnReceives

\* What the agent passes on to its turn when it takes an event.
Passed(ev) ==
  \/ ev.type \in {"turn.pause", "turn.continue", "turn.abort"}
  \/ ev.type = "turn.notify" /\ Head(agentBox).type = "turn.drain" /\ state \in Running
  \/ ev.type \in ToolEvents /\ Head(agentBox).type = "tool.aborted"

\* What becomes of the turn and its mailbox when the agent takes an event.
TurnIsTold ==
  /\ turn' \in {turn, NoTurn, FreshTurn}
  /\ state' \in Running => turn' = FreshTurn \/ (turn' = turn /\ state \in Running)
  /\ state' = "aborting" => turn' = turn /\ state \in Running /\ (state = "aborting" \/ AbortSent')
  /\ turnBox' = << >> \/ \E ev : turnBox' = <<ev>> /\ turn' = turn /\ Passed(ev)
  /\ agentBox' = Tail(agentBox) \/ (turn' = turn /\ (state = "aborting" \/ AbortSent'))

LEMMA ReceiveTells ==
  ASSUME AgentReceives
  PROVE  TurnIsTold
<1> DEFINE head == Head(agentBox)
           rest == Tail(agentBox)
<1>1. turnBox = << >> /\ \A ev : Append(turnBox, ev) = <<ev>>
  BY DEF AgentReceives
<1>2. \A type : [type |-> type].type = type
  OBVIOUS
<1>3. ASSUME NEW notes, NEW q, NEW pz, NEW bg, UpdateContext(notes, q, pz, bg)
      PROVE  /\ turn' \in {turn, NoTurn, FreshTurn}
             /\ state' \in Running => turn' = FreshTurn \/ (turn' = turn /\ state \in Running)
             /\ state' = "aborting" => turn' = turn /\ state = "aborting"
             /\ state \in Running => turn' = turn
  <2>1. CASE state \in {"ready", "waiting"} /\ Settles(messages, stored, notes, q, pz)
    BY <2>1 DEF Settles, Idle, Running
  <2> QED
    BY <1>3, <2>1, UpdateEffect
<1>14. ASSUME UNCHANGED <<turn, state>>, agentBox' = rest,
              turnBox' = << >> \/ \E ev : turnBox' = <<ev>> /\ Passed(ev)
       PROVE  TurnIsTold
  BY <1>14, Zenon DEF TurnIsTold, Running
<1>15. ASSUME NEW pz, UpdateContext(notifications, queue, pz, background), agentBox' = rest,
              NEW ev, Passed(ev), turnBox' = << >> \/ (turnBox' = <<ev>> /\ state \in Running)
       PROVE  TurnIsTold
  <2>1. turnBox' = << >> \/ (\E e : turnBox' = <<e>> /\ turn' = turn /\ Passed(e))
    BY <1>3, <1>15, Zenon
  <2> QED
    BY <1>3, <1>15, <2>1, Zenon DEF TurnIsTold, Running
<1>4. CASE \E x : (Submit(x) \/ Notify(x) \/ Retry \/ Steer(x) \/ Cancel(x)) /\ agentBox' = rest
  BY <1>1, <1>3, <1>4 DEF Submit, Notify, Retry, Steer, Cancel, TurnIsTold, Running
<1>5. CASE (\E x : Remind(x)) /\ agentBox' = rest
  BY <1>1, <1>5 DEF Remind, TurnIsTold, Running, turnVars
<1>6. CASE Pause /\ agentBox' = rest
  <2>1. UpdateContext(notifications, queue, TRUE, background)
        /\ (turnBox' = << >> \/ (turnBox' = <<[type |-> "turn.pause"]>> /\ state \in Running))
    BY <1>1, <1>6 DEF Pause
  <2> QED
    BY <1>2, <1>6, <1>15, <2>1 DEF Passed
<1>7. CASE Continue /\ agentBox' = rest
  <2>1. CASE StartTurn(messages, stored, notifications, queue) /\ turnBox' = turnBox
    BY <1>1, <1>7, <2>1 DEF StartTurn, TurnIsTold, Running
  <2>2. CASE /\ UpdateContext(notifications, queue, FALSE, background)
             /\ (turnBox' = << >> \/ (turnBox' = <<[type |-> "turn.continue"]>> /\ state \in Running))
    BY <1>2, <1>7, <1>15, <2>2 DEF Passed
  <2> QED
    BY <1>1, <1>7, <2>1, <2>2 DEF Continue
<1>8. CASE Close /\ agentBox' = rest
  BY <1>8 DEF Close, TurnIsTold, Running
<1>9. CASE head.type = "turn.drain" /\ Drain /\ agentBox' = rest
  <2>1. /\ turn' = turn /\ state' = state
        /\ \/ turnBox' = << >>
           \/ state \in Running /\ turnBox' = <<[type |-> "turn.notify", messages |-> PendingEntries]>>
    BY <1>1, <1>9 DEF Drain
  <2>2. [type |-> "turn.notify", messages |-> PendingEntries].type = "turn.notify"
    OBVIOUS
  <2> QED
    BY <1>9, <1>14, <2>1, <2>2 DEF Passed
<1>10. CASE (StoreReady \/ \E produced : TurnEnds(produced)) /\ agentBox' = rest
  <2>1. ASSUME NEW msgs, NEW st, NEW bg, Settle("ready", msgs, st, notifications, queue, paused, bg)
        PROVE  turn' \in {NoTurn, FreshTurn} /\ (state' \in Running => turn' = FreshTurn /\ state' = "active")
    BY <2>1, SettleEffect DEF Settles, Idle, Running
  <2> QED
    BY <1>1, <1>10, <2>1 DEF StoreReady, TurnEnds, ExitRunning, TurnIsTold, Running
<1>11. CASE head.type = "tool.aborted" /\ ToolReport(head) /\ agentBox' = rest
  <2> HIDE DEF head
  <2>1. head.type \in ToolEvents /\ ~Completes(head) /\ head.type # "tool.detached"
    BY <1>11 DEF ToolEvents, Completes
  <2>2. /\ turn' = turn /\ state' = state
        /\ turnBox' = << >> \/ turnBox' = <<head>>
    BY <1>1, <1>11, <2>1 DEF ToolReport
  <2>3. Passed(head)
    BY <1>11, <2>1 DEF Passed, head
  <2> QED
    BY <1>11, <1>14, <2>2, <2>3
<1>12. CASE AbortInput(rest)
  <2> DEFINE abort == [type |-> "turn.abort"]
  <2>1. /\ turn' = turn /\ abort.type = "turn.abort" /\ Head(<<abort>>) = abort /\ <<abort>> # << >>
        /\ \/ state \in Running /\ state' = "aborting" /\ turnBox' = <<abort>>
           \/ state \notin Running /\ state' = state /\ turnBox' = << >> /\ agentBox' = rest
    BY <1>1, <1>12 DEF AbortInput, Running
  <2> HIDE DEF abort
  <2> QED
    BY <2>1 DEF TurnIsTold, Passed, AbortSent, Running
<1>13. CASE \E calls : SpawnTools(calls, rest)
  <2>1. UNCHANGED <<turn, turnBox, state>> /\ (agentBox' = rest \/ state = "aborting")
    BY <1>13 DEF SpawnTools, turnVars
  <2> QED
    BY <1>1, <2>1 DEF TurnIsTold, Running
<1> QED
  BY <1>4, <1>5, <1>6, <1>7, <1>8, <1>9, <1>10, <1>11, <1>12, <1>13 DEF AgentReceives

\* What becomes of the tools and of the inputs received so far.
LEMMA ReceiveTakes ==
  ASSUME AgentReceives, tool \in [ToolCalls -> ToolStates]
  PROVE  /\ \/ Head(agentBox).type = "turn.spawn_tools"
            \/ \A t \in ToolCalls : tool[t] = "none" => tool'[t] = "none"
         /\ accepted' = accepted \cup (IF IsSending(Head(agentBox)) THEN {Head(agentBox).id} ELSE {})
<1> DEFINE head == Head(agentBox)
<1>1. ASSUME NEW ts, NEW tools \in [ToolCalls -> ToolStates], NEW t \in ToolCalls, tools[t] = "none"
      PROVE  Stopped(ts, tools)[t] = "none" /\ Aborted(ts, tools)[t] = "none"
  <2>1. tools[t] \notin LiveStates
    BY <1>1 DEF LiveStates
  <2> QED
    BY <1>1, <2>1, ActorEffects DEF LiveStates
<1>2. CASE \/ head.type = "input.submit" /\ Submit(head.id)
           \/ head.type = "input.notify" /\ Notify(head.id)
  <2> HIDE DEF head
  <2>1. IsSending(head) /\ accepted' = accepted \cup {head.id} /\ tool' = tool
    BY <1>2 DEF Submit, Notify, toolVars, IsSending
  <2> QED
    BY <2>1 DEF head
<1>3. CASE ~IsSending(head) /\ accepted' = accepted /\ \A t \in ToolCalls : tool[t] = "none" => tool'[t] = "none"
  BY <1>3
<1>4. CASE ~IsSending(head) /\ \/ \E x : Remind(x) \/ Retry \/ Steer(x) \/ Cancel(x)
                               \/ Pause \/ Continue \/ Drain \/ StoreReady
                               \/ ToolReport(head) /\ UNCHANGED toolVars
  BY <1>3, <1>4 DEF Remind, Retry, Steer, Cancel, Pause, Continue, Drain, StoreReady, ToolReport, toolVars
<1>5. CASE ~IsSending(head) /\ (Close \/ \E produced : TurnEnds(produced))
  BY <1>1, <1>3, <1>5 DEF Close, TurnEnds, ExitRunning, StopTurnTools, toolVars
<1>6. CASE ~IsSending(head) /\ \E rest : AbortInput(rest)
  BY <1>1, <1>3, <1>6 DEF AbortInput, AbortTools, StopTurnTools
<1>7. CASE head.type = "turn.spawn_tools" /\ \E rest : SpawnTools(head.calls, rest)
  BY <1>7 DEF SpawnTools, IsSending
<1> QED
  BY <1>2, <1>4, <1>5, <1>6, <1>7 DEF AgentReceives, IsSending

LEMMA ReceiveKeepsSignals ==
  ASSUME StoreOK, SignalsOK, SpawnsAreFresh, InputsAreNew, tool \in [ToolCalls -> ToolStates], AgentReceives
  PROVE  SignalsOK' /\ SpawnsAreFresh' /\ InputsAreNew'
<1> DEFINE head == Head(agentBox)
<1>1. /\ turnBox = << >> /\ 1 \in DOMAIN agentBox /\ head = agentBox[1] /\ ~AbortSent
      /\ \A i \in DOMAIN agentBox' : \/ i + 1 \in DOMAIN agentBox /\ i >= 1 /\ agentBox'[i] = agentBox[i + 1]
                                     \/ agentBox'[i].type = "tool.aborted"
      /\ \A i \in DOMAIN agentBox : i \in Nat
      /\ \A i \in DOMAIN agentBox' : i \in Nat
      /\ agentBox' = Tail(agentBox) => \A i \in DOMAIN agentBox' : 
            i + 1 \in DOMAIN agentBox /\ i >= 1 /\ agentBox'[i] = agentBox[i + 1]
  <2>1. PICK new : /\ agentBox' = Tail(agentBox) \o new /\ IsSequence(new)
                   /\ \A i \in DOMAIN new : new[i].type = "tool.aborted"
    BY ReceiveEffect DEF StoreOK
  <2>2. agentBox # << >> /\ IsSequence(agentBox) /\ IsSequence(Tail(agentBox)) /\ turnBox = << >>
    BY SequenceFacts DEF AgentReceives, StoreOK, MailOK
  <2>3. IsSequence(agentBox')
    BY <2>1, <2>2, ConcatFacts
  <2>4. \A i \in DOMAIN agentBox' : i \in Nat
    BY <2>3, SequenceFacts
  <2>5. agentBox' = Tail(agentBox) => \A i \in DOMAIN agentBox' : 
            i + 1 \in DOMAIN agentBox /\ i >= 1 /\ agentBox'[i] = agentBox[i + 1]
    BY <2>2, SequenceFacts
  <2> QED
    BY <2>1, <2>2, <2>4, <2>5, BoxShrinks DEF AbortSent
<1>2. TurnIsTold
  BY ReceiveTells
<1>3. /\ \/ head.type = "turn.spawn_tools"
         \/ \A t \in ToolCalls : tool[t] = "none" => tool'[t] = "none"
      /\ accepted' = accepted \cup (IF IsSending(head) THEN {head.id} ELSE {})
  BY ReceiveTakes
<1> HIDE DEF head
<1>4. SpawnsAreFresh'
  <2> SUFFICES ASSUME NEW i \in DOMAIN agentBox', agentBox'[i].type = "turn.spawn_tools"
               PROVE  /\ \A j \in DOMAIN agentBox' : agentBox'[j].type = "turn.spawn_tools" => i = j
                      /\ \A t \in Range(agentBox'[i].calls) : tool'[t] = "none"
    BY DEF SpawnsAreFresh
  <2>1. i + 1 \in DOMAIN agentBox /\ i >= 1 /\ agentBox'[i] = agentBox[i + 1] /\ i \in Nat
    BY <1>1
  <2>2. head.type # "turn.spawn_tools"
    BY <1>1, <2>1 DEF SpawnsAreFresh
  <2>3. \A j \in DOMAIN agentBox' : agentBox'[j].type = "turn.spawn_tools" => i = j
    BY <1>1, <2>1 DEF SpawnsAreFresh
  <2>4. Range(agentBox[i + 1].calls) \subseteq ToolCalls
    BY <2>1 DEF StoreOK, MailOK
  <2> QED
    BY <1>3, <2>1, <2>2, <2>3, <2>4 DEF SpawnsAreFresh
<1>5. InputsAreNew'
  <2>1. accepted' \subseteq Prompts \cup Notes
    BY <1>1, <1>3 DEF InputsAreNew, IsSending
  <2>2. ASSUME NEW i \in DOMAIN agentBox', IsSending(agentBox'[i])
        PROVE  /\ agentBox'[i].id \notin accepted' \ accepted
               /\ i + 1 \in DOMAIN agentBox /\ agentBox'[i] = agentBox[i + 1]
               /\ \A j \in DOMAIN agentBox' : IsSending(agentBox'[j]) /\ agentBox'[i].id = agentBox'[j].id => i = j
    <3>1. i + 1 \in DOMAIN agentBox /\ i >= 1 /\ agentBox'[i] = agentBox[i + 1] /\ i \in Nat
      BY <1>1, <2>2 DEF IsSending
    <3>2. \A j \in DOMAIN agentBox' : IsSending(agentBox'[j]) /\ agentBox'[i].id = agentBox'[j].id => i = j
      BY <1>1, <2>2, <3>1 DEF InputsAreNew, IsSending
    <3>3. IsSending(head) => head.id # agentBox'[i].id
      BY <1>1, <2>2, <3>1 DEF InputsAreNew
    <3> QED
      BY <1>3, <3>1, <3>2, <3>3
  <2> QED
    BY <2>1, <2>2 DEF InputsAreNew, IsSending
<1>6. \A i \in DOMAIN agentBox' : agentBox'[i].type # "turn.drain"
  BY <1>1 DEF SignalsOK
<1>7. /\ turn.state \in TurnStates /\ (state \in Running => turn.state # "none")
      /\ state = "aborting" => turn.state \in {"acting.aborting", "final"}
      /\ turn.state = "acting.aborting" => turn.outcome = "aborted"
      /\ Waits("tool.aborted") => turn.state # "acting"
  BY <1>1 DEF SignalsOK
<1>8. turn' = turn \/ (turn'.state \in {"none", "gating", "thinking"} /\ (turn' = FreshTurn => turn'.state # "none"))
  BY <1>2, TurnRecords DEF TurnIsTold
<1>9. /\ turn'.state \in TurnStates
      /\ turn'.state = "acting.aborting" => turn'.outcome = "aborted"
      /\ state' \in Running => turn'.state # "none"
  BY <1>2, <1>7, <1>8, TurnRecords DEF TurnIsTold, TurnStates
<1>10. state' = "aborting" => turn'.state \in {"acting.aborting", "final"} \/ AbortSent'
  BY <1>2, <1>7 DEF TurnIsTold
<1>11. Waits("tool.aborted")' => turn'.state # "acting" \/ AbortSent'
  <2>1. CASE agentBox' = Tail(agentBox)
    <3>1. Waits("tool.aborted")' => Waits("tool.aborted")
      BY <1>1, <2>1 DEF Waits
    <3> QED
      BY <1>7, <1>8, <3>1
  <2>2. CASE turn' = turn /\ (state = "aborting" \/ AbortSent')
    BY <1>7, <2>2
  <2> QED
    BY <1>2, <2>1, <2>2 DEF TurnIsTold
<1>12. ASSUME turnBox' # << >>
       PROVE  /\ turnBox' = <<Head(turnBox')>>
              /\ Head(turnBox').type = "turn.notify" => turn'.state = "draining"
              /\ Head(turnBox').type \in ToolEvents => turn'.state # "acting"
  <2>1. PICK ev : turnBox' = <<ev>> /\ turn' = turn /\ Passed(ev)
    BY <1>2, <1>12 DEF TurnIsTold
  <2>2. Head(turnBox') = ev
    BY <2>1
  <2>3. ev.type = "turn.notify" => turn.state = "draining"
    BY <1>1, <2>1 DEF Passed, SignalsOK, head, ToolEvents
  <2>4. ev.type \in ToolEvents => turn.state # "acting"
    BY <1>1, <1>7, <2>1 DEF Passed, head, ToolEvents, Waits
  <2> QED
    BY <2>1, <2>2, <2>3, <2>4
<1> QED
  BY <1>4, <1>5, <1>6, <1>9, <1>10, <1>11, <1>12 DEF SignalsOK

\* The other steps find the mailbox of the agent empty and leave it so, but for
\* store.ready; what they send to the turn is an abort or the report of a tool.
LEMMA QuietKeepsSignals ==
  ASSUME SignalsOK, InputsAreNew, Quiet, accepted' = accepted, turn' = turn \/ turn' \in {NoTurn, FreshTurn},
         agentBox' = << >> \/ \E type \in {"store.ready", "input.retry"} : agentBox' = <<[type |-> type]>>,
         turnBox' = << >> \/ \E ev : turnBox' = <<ev>> /\ (ev.type = "turn.abort" \/ (ev.type \in ToolEvents /\ agentBox' = << >>)),
         state' \in Running => turn' = FreshTurn \/ (turn' = turn /\ state \in Running),
         state' = "aborting" => turn' = turn /\ state = "aborting"
  PROVE  SignalsOK' /\ SpawnsAreFresh' /\ InputsAreNew'
<1>1. \A i \in DOMAIN agentBox' : agentBox'[i].type \in {"store.ready", "input.retry"}
  BY EmptyFacts, SingletonFacts
<1>2. SpawnsAreFresh' /\ InputsAreNew' /\ ~Waits("tool.aborted")'
  BY <1>1 DEF SpawnsAreFresh, InputsAreNew, IsSending, Waits
<1>3. /\ turn.state \in TurnStates /\ (state \in Running => turn.state # "none")
      /\ state = "aborting" => turn.state \in {"acting.aborting", "final"}
      /\ turn.state = "acting.aborting" => turn.outcome = "aborted"
  BY DEF SignalsOK, AbortSent, Quiet
<1>4. turn' = turn \/ (turn'.state \in {"none", "gating", "thinking"} /\ (turn' = FreshTurn => turn'.state # "none"))
  BY TurnRecords
<1>5. /\ turn'.state \in TurnStates /\ (state' \in Running => turn'.state # "none")
      /\ state' = "aborting" => turn'.state \in {"acting.aborting", "final"}
      /\ turn'.state = "acting.aborting" => turn'.outcome = "aborted"
  <2>1. CASE turn' = turn
    BY <1>3, <2>1, TurnRecords DEF Running
  <2>2. CASE turn'.state \in {"none", "gating", "thinking"} /\ (turn' = FreshTurn => turn'.state # "none") /\ turn' # turn
    BY <2>2 DEF TurnStates
  <2> QED
    BY <1>4, <2>1, <2>2
<1>6. ASSUME turnBox' # << >>
      PROVE  /\ turnBox' = <<Head(turnBox')>> /\ Head(turnBox').type # "turn.notify"
             /\ Head(turnBox').type \in ToolEvents => agentBox' = << >>
  BY <1>6 DEF ToolEvents
<1> QED
  BY <1>1, <1>2, <1>5, <1>6 DEF SignalsOK

LEMMA SignalsStep ==
  ASSUME FreshIdentities, StoreOK, ToolsOK, IsSequence(turnBox), SignalsOK, SpawnsAreFresh, InputsAreNew, [Next]_vars
  PROVE  SignalsOK' /\ SpawnsAreFresh' /\ InputsAreNew'
<1>1. CASE AgentReceives
  BY <1>1, ReceiveKeepsSignals DEF ToolsOK
<1>2. CASE TurnStep
  BY <1>2, TurnTakesSignal
<1>3. CASE LlmStep \/ TurnTimer
  <2>1. Quiet
    BY <1>3 DEF LlmStep, TurnTimer, LlmCallsTools, LlmAnswers, LlmFails, LlmFailureRecovered,
                LlmFailureRetried, TurnThrows, BeforeStepDone, BeforeStepFails, RetryDelayElapses,
                AbortGraceElapses
  <2> QED
    BY <1>3, <2>1, QuietTurnSteps
<1>4. CASE SendInput
  <2>1. /\ UNCHANGED <<state, accepted, turn, turnBox, tool>> /\ turnBox = << >>
        /\ \E ev : /\ agentBox' = Append(agentBox, ev) /\ ev.type \in Inputs
                   /\ ev.type = "input.submit" => ev.id \in Prompts \ accepted /\ ~InBox(ev.id)
                   /\ ev.type = "input.notify" => ev.id \in Notes \ accepted /\ ~InBox(ev.id)
    <3>1. ASSUME NEW ev, Send(ev), ev.type \in Inputs,
                 ev.type = "input.submit" => ev.id \in Prompts \ accepted /\ ~InBox(ev.id),
                 ev.type = "input.notify" => ev.id \in Notes \ accepted /\ ~InBox(ev.id)
          PROVE  /\ UNCHANGED <<state, accepted, turn, turnBox, tool>> /\ turnBox = << >>
                 /\ \E e : /\ agentBox' = Append(agentBox, e) /\ e.type \in Inputs
                           /\ e.type = "input.submit" => e.id \in Prompts \ accepted /\ ~InBox(e.id)
                           /\ e.type = "input.notify" => e.id \in Notes \ accepted /\ ~InBox(e.id)
      BY <3>1 DEF Send, agentVars, turnVars, toolVars
    <3>2. CASE \E p \in Prompts \ accepted : ~InBox(p) /\ Send([type |-> "input.submit", id |-> p])
      <4>1. PICK p \in Prompts \ accepted : ~InBox(p) /\ Send([type |-> "input.submit", id |-> p])
        BY <3>2
      <4> DEFINE ev == [type |-> "input.submit", id |-> p]
      <4>2. ev.type = "input.submit" /\ ev.id = p /\ "input.submit" \in Inputs /\ Send(ev)
        BY <4>1 DEF Inputs
      <4> HIDE DEF ev
      <4> QED
        BY <3>1, <4>1, <4>2
    <3>3. CASE \E n \in Notes \ accepted : ~InBox(n) /\ Send([type |-> "input.notify", id |-> n])
      <4>1. PICK p \in Notes \ accepted : ~InBox(p) /\ Send([type |-> "input.notify", id |-> p])
        BY <3>3
      <4> DEFINE ev == [type |-> "input.notify", id |-> p]
      <4>2. ev.type = "input.notify" /\ ev.id = p /\ "input.notify" \in Inputs /\ Send(ev)
        BY <4>1 DEF Inputs
      <4> HIDE DEF ev
      <4> QED
        BY <3>1, <4>1, <4>2
    <3>4. CASE \E ev : Send(ev) /\ ev.type \in Inputs \ {"input.submit", "input.notify"}
      BY <3>1, <3>4
    <3>5. CASE \/ \E k \in ReminderKeys : Send([type |-> "input.remind", id |-> k])
               \/ \E ids \in SUBSET Range(queue) \ {{}} : Send([type |-> "input.steer", ids |-> ids])
               \/ \E p \in Range(queue) : Send([type |-> "input.cancel", id |-> p])
               \/ Send([type |-> "input.abort"])
               \/ Send([type |-> "input.pause"])
               \/ Send([type |-> "input.continue"])
               \/ Send([type |-> "input.close"])
      <4>1. \E ev : Send(ev) /\ ev.type \in {"input.remind", "input.steer", "input.cancel", "input.abort",
                                             "input.pause", "input.continue", "input.close"}
        <5>1. \A k, ids, p :
                /\ [type |-> "input.remind", id |-> k].type = "input.remind"
                /\ [type |-> "input.steer", ids |-> ids].type = "input.steer"
                /\ [type |-> "input.cancel", id |-> p].type = "input.cancel"
          OBVIOUS
        <5>2. \A type : [type |-> type].type = type
          OBVIOUS
        <5> QED
          BY <3>5, <5>1, <5>2
      <4> QED
        BY <3>4, <4>1 DEF Inputs
    <3> QED
      BY <1>4, <3>2, <3>3, <3>5 DEF SendInput
  <2>2. PICK ev : /\ agentBox' = Append(agentBox, ev) /\ ev.type \in Inputs
                  /\ ev.type = "input.submit" => ev.id \in Prompts \ accepted /\ ~InBox(ev.id)
                  /\ ev.type = "input.notify" => ev.id \in Notes \ accepted /\ ~InBox(ev.id)
    BY <2>1
  <2>3. /\ ev.type \notin {"turn.drain", "tool.aborted", "turn.spawn_tools"}
        /\ Len(agentBox) \in Nat /\ DOMAIN agentBox = 1 .. Len(agentBox)
        /\ DOMAIN agentBox' = 1 .. Len(agentBox) + 1
        /\ \A i \in DOMAIN agentBox : agentBox'[i] = agentBox[i]
        /\ agentBox'[Len(agentBox) + 1] = ev
    BY <2>2, SequenceFacts DEF Inputs, StoreOK, MailOK
  <2>4. \A i \in DOMAIN agentBox' : (i \in DOMAIN agentBox /\ agentBox'[i] = agentBox[i]) \/ (i = Len(agentBox) + 1 /\ agentBox'[i] = ev)
    BY <2>3
  <2>5. \A i \in DOMAIN agentBox : i # Len(agentBox) + 1
    BY <2>3
  <2>6. SpawnsAreFresh'
    BY <2>1, <2>3, <2>4 DEF SpawnsAreFresh
  <2>7. InputsAreNew'
    <3>1. IsSending(ev) => \A i \in DOMAIN agentBox : IsSending(agentBox[i]) => agentBox[i].id # ev.id
      BY <2>2 DEF InBox, IsSending
    <3>2. \A i, j \in DOMAIN agentBox' : IsSending(agentBox'[i]) /\ IsSending(agentBox'[j])
             /\ agentBox'[i].id = agentBox'[j].id => i = j
      BY <2>4, <3>1 DEF InputsAreNew
    <3>3. \A i \in DOMAIN agentBox' :
       /\ agentBox'[i].type = "input.submit" => agentBox'[i].id \in Prompts \ accepted
       /\ agentBox'[i].type = "input.notify" => agentBox'[i].id \in Notes \ accepted
      BY <2>2, <2>4 DEF InputsAreNew
    <3> QED
      BY <2>1, <3>2, <3>3 DEF InputsAreNew
  <2>8. Waits("tool.aborted")' => Waits("tool.aborted")
    BY <2>3, <2>4 DEF Waits
  <2>9. \A i \in DOMAIN agentBox' : agentBox'[i].type = "turn.drain" => i \in DOMAIN agentBox /\ agentBox[i].type = "turn.drain"
    BY <2>3, <2>4
  <2> QED
    BY <2>1, <2>6, <2>7, <2>8, <2>9 DEF SignalsOK, AbortSent
<1>5. CASE \E t \in ToolIds : ToolStep(t)
  <2>1. PICK t \in ToolIds : ToolStep(t)
    BY <1>5
  <2>2. Quiet /\ agentBox' = << >>
    BY <2>1 DEF ToolStep, Quiet
  <2>3. CASE \E ev : ev.type \in ToolEvents /\ ToolReport(ev)
    <3>1. PICK ev : ev.type \in ToolEvents /\ ToolReport(ev)
      BY <2>3
    <3>2. \A e : Append(turnBox, e) = <<e>>
      BY <2>2 DEF Quiet
    <3>3. accepted' = accepted /\ (turnBox' = << >> \/ turnBox' = <<ev>>)
      BY <2>2, <3>1, <3>2 DEF ToolReport, Quiet
    <3>4. /\ turn' \in {turn, NoTurn, FreshTurn}
          /\ state' \in Running => turn' = FreshTurn \/ (turn' = turn /\ state \in Running)
          /\ state' = "aborting" => turn' = turn /\ state = "aborting"
      <4>1. CASE UNCHANGED <<state, turn>>
        BY <4>1 DEF Running
      <4>2. CASE \E notes, bg : UpdateContext(notes, queue, paused, bg)
        <5>1. CASE Settles(messages, stored, notifications', queue, paused) \/ \E notes : Settles(messages, stored, notes, queue, paused)
          BY <5>1 DEF Settles, Idle, Running
        <5> QED
          BY <4>1, <4>2, <5>1, UpdateEffect
      <4> QED
        BY <3>1, <4>1, <4>2 DEF ToolReport
    <3> QED
      BY <2>2, <3>1, <3>3, <3>4, QuietKeepsSignals
  <2>4. CASE UNCHANGED agentVars /\ UNCHANGED turnVars
    BY <2>2, <2>4, QuietKeepsSignals DEF agentVars, turnVars, Quiet, Running
  <2>5. \A x : [type |-> "tool.detached", tool |-> x].type \in ToolEvents
               /\ [type |-> "tool.done", tool |-> x].type \in ToolEvents
               /\ [type |-> IF x \in signalled THEN "tool.aborted" ELSE "tool.failed", tool |-> x].type \in ToolEvents
    BY DEF ToolEvents
  <2> QED
    BY <2>1, <2>3, <2>4, <2>5 DEF ToolStep
<1>6. CASE AbortTimeout
  <2>1. turnBox' = <<[type |-> "turn.abort"]>>
    BY <1>6 DEF AbortTimeout, Quiet
  <2>2. [type |-> "turn.abort"].type = "turn.abort"
    OBVIOUS
  <2>3. /\ Quiet /\ UNCHANGED <<turn, state, accepted>> /\ agentBox' = << >>
    BY <1>6 DEF AbortTimeout, Quiet, agentVars
  <2> QED
    BY <2>1, <2>2, <2>3, QuietKeepsSignals DEF Running
<1>7. CASE ScopeLinked \/ LinkFails \/ Disposed \/ \E h : RequestReset(h) \/ RecoveryReset(h)
  BY <1>7, QuietKeepsSignals DEF ScopeLinked, LinkFails, Disposed, RequestReset, RecoveryReset, DispatchReset,
     turnVars, Quiet, Running, HoldsLease
<1>8. CASE StoreReset \/ \E v \in {"allow", "block", "error"} : GateVerdict(v)
  <2>1. ASSUME NEW msgs, NEW notes, NEW q, NEW bg, Settle("ready", msgs, stored, notes, q, paused, bg)
        PROVE  turn' \in {NoTurn, FreshTurn} /\ (state' \in Running => turn' = FreshTurn /\ state' = "active")
    BY <2>1, SettleEffect DEF Settles, Idle, Running
  <2>2. turn' \in {NoTurn, FreshTurn} /\ (state' \in Running => turn' = FreshTurn /\ state' = "active")
    BY <1>8, <2>1 DEF StoreReset, GateVerdict, StartTurn, Running
  <2>3. Quiet /\ agentBox' = << >> /\ turnBox' = << >> /\ accepted' = accepted
    BY <1>8 DEF StoreReset, GateVerdict, Quiet
  <2> QED
    BY <2>2, <2>3, QuietKeepsSignals DEF Running
<1>9. CASE UNCHANGED vars
  BY <1>9 DEF vars, agentVars, turnVars, toolVars, SignalsOK, SpawnsAreFresh, InputsAreNew, Waits, AbortSent
<1>10. CASE LoopSteps
  BY <1>10, QuietKeepsSignals DEF LoopSteps, RecoveryRetries, RecoveryEnds, turnVars, Quiet, Running
<1> QED
  BY <1>1, <1>2, <1>3, <1>4, <1>5, <1>6, <1>7, <1>8, <1>9, <1>10 DEF Next, LoopSteps

----------------------------------------------------------------------------
(* The accounts.                                                           *)

\* Where a delivery can be: with the agent, on its way to the turn, or dropped.
Held(x) == Queued(queue, x) + Count(notifications, x) + Count(turn.produced, x) + Count(messages, x)
Under(x) == IF turnBox # << >> /\ Head(turnBox).type = "turn.notify" THEN Count(Head(turnBox).messages, x) ELSE 0
Lost(x) == IF x \in dropped THEN 1 ELSE 0

Settled == accepted \cup Finished \cup dropped

Accounts == \A x \in Ids : Held(x) + Under(x) + Lost(x) = IF x \in Settled THEN 1 ELSE 0

Sequences == /\ queue \in Seq(Prompts) /\ IsSequence(queue) /\ IsSequence(notifications)
             /\ IsSequence(messages) /\ IsSequence(stored) /\ IsSequence(turn.produced)
             /\ resetTo # << >> => IsSequence(Head(resetTo))

\* Outside a turn nothing is produced; before the journal is read nothing is
\* known, and a journal delivers nothing new; a reset is to a prefix of a history
\* that has only grown since; and an idle machine that is not paused has nothing to do.
ContextKept ==
  /\ queue \in Seq(Prompts)
  /\ state \notin Running => turn.produced = << >>
  /\ state \in {"linking", "restoring"} => messages = << >> /\ \A x \in Ids : Count(stored, x) = 0
  /\ resetTo # << >> => \A x \in Ids : Count(Head(resetTo), x) <= Count(messages, x)
  /\ state \in {"ready", "waiting"} /\ ~paused => queue = << >> /\ notifications = << >>

LEMMA SequencesAre ==
  ASSUME PairingOK, ContextKept
  PROVE  Sequences
BY SeqIsSequence DEF PairingOK, HistoriesOK, ResetPaired, Paired, Plain, IsHistory, TurnPairs, ContextKept, Sequences

LEMMA HeldFacts ==
  ASSUME Sequences, NEW x
  PROVE  /\ Queued(queue, x) \in Nat /\ (Queued(queue, x) > 0 <=> x \in Range(queue))
         /\ Count(notifications, x) \in Nat /\ (Count(notifications, x) > 0 <=> x \in Delivers(notifications))
         /\ Count(turn.produced, x) \in Nat /\ (Count(turn.produced, x) > 0 <=> x \in Delivers(turn.produced))
         /\ Count(messages, x) \in Nat /\ (Count(messages, x) > 0 <=> x \in Delivers(messages))
         /\ Count(stored, x) \in Nat /\ (Count(stored, x) > 0 <=> x \in Delivers(stored))
         /\ resetTo # << >> => /\ Count(Head(resetTo), x) \in Nat
                               /\ Count(Head(resetTo), x) > 0 <=> x \in Delivers(Head(resetTo))
         /\ Held(x) = Queued(queue, x) + Count(notifications, x) + Count(turn.produced, x) + Count(messages, x)
         /\ Held(x) \in Nat
<1>1. Held(x) = Queued(queue, x) + Count(notifications, x) + Count(turn.produced, x) + Count(messages, x)
  BY DEF Held
<1>2. /\ Queued(queue, x) \in Nat /\ (Queued(queue, x) > 0 <=> x \in Range(queue))
      /\ Count(notifications, x) \in Nat /\ (Count(notifications, x) > 0 <=> x \in Delivers(notifications))
      /\ Count(turn.produced, x) \in Nat /\ (Count(turn.produced, x) > 0 <=> x \in Delivers(turn.produced))
      /\ Count(messages, x) \in Nat /\ (Count(messages, x) > 0 <=> x \in Delivers(messages))
      /\ Count(stored, x) \in Nat /\ (Count(stored, x) > 0 <=> x \in Delivers(stored))
  BY CountPositive DEF Sequences
<1>3. resetTo # << >> => /\ Count(Head(resetTo), x) \in Nat
                         /\ Count(Head(resetTo), x) > 0 <=> x \in Delivers(Head(resetTo))
  BY CountPositive DEF Sequences
<1> QED
  BY <1>1, <1>2, <1>3

\* x is delivered as often as before, or more often.
Grows(old, new, x) == Count(old, x) \in Nat /\ Count(new, x) \in Nat /\ Count(old, x) <= Count(new, x)

\* A turn that is started takes what is pending into the history.
LEMMA StartTurnCounts ==
  ASSUME NEW msgs, NEW st, NEW notes, NEW q, IsSequence(msgs), IsSequence(notes), q \in Seq(Prompts),
         StartTurn(msgs, st, notes, q), NEW x
  PROVE  /\ Held(x)' = Queued(q, x) + Count(notes, x) + Count(msgs, x)
         /\ Count(messages', x) = Count(msgs, x) + Count(notes, x) + (IF q # << >> /\ x = Head(q) THEN 1 ELSE 0)
         /\ Grows(msgs, messages', x)
         /\ queue' \in Seq(Prompts)
<1> DEFINE first == IF q = << >> THEN << >> ELSE <<User({Head(q)})>>
<1>1. /\ messages' = msgs \o (notes \o first) /\ notifications' = << >> /\ turn' = FreshTurn
      /\ queue' = IF q = << >> THEN << >> ELSE Tail(q)
  BY DEF StartTurn
<1>2. IsSequence(q)
  BY SeqIsSequence
<1>3. IsSequence(first) /\ Count(first, x) = IF q # << >> /\ x = Head(q) THEN 1 ELSE 0
  <2>1. Count(<<User({Head(q)})>>, x) = IF x \in {Head(q)} THEN 1 ELSE 0
    BY CountSmall
  <2>2. Count(<< >>, x) = 0
    BY CountSmall
  <2> QED
    BY <2>1, <2>2, EmptyFacts, SingletonFacts
<1> HIDE DEF first
<1>4. /\ Count(messages', x) = Count(msgs, x) + (Count(notes, x) + Count(first, x))
      /\ Count(msgs, x) \in Nat /\ Count(notes, x) \in Nat /\ Count(first, x) \in Nat
  <2>1. /\ Count(notes \o first, x) = Count(notes, x) + Count(first, x) /\ IsSequence(notes \o first)
        /\ Count(notes, x) \in Nat /\ Count(first, x) \in Nat
    <3>1. IsSequence(notes \o first)
      BY <1>3, ConcatFacts
    <3> QED
      BY <1>3, <3>1, CountConcat
  <2>2. Count(msgs \o (notes \o first), x) = Count(msgs, x) + Count(notes \o first, x) /\ Count(msgs, x) \in Nat
    BY <2>1, CountConcat
  <2> QED
    BY <1>1, <2>1, <2>2
<1>5. /\ Queued(q, x) = Queued(queue', x) + (IF q # << >> /\ x = Head(q) THEN 1 ELSE 0)
      /\ Queued(queue', x) \in Nat /\ queue' \in Seq(Prompts)
  <2>1. CASE q = << >>
    BY <1>1, <2>1, CountSmall
  <2>2. CASE q # << >>
    <3>1. queue' = Tail(q) /\ queue' \in Seq(Prompts)
      BY <1>1, <2>2
    <3>2. Queued(queue', x) \in Nat
      BY <3>1, SeqIsSequence, CountPositive
    <3>3. Queued(q, x) = (IF x = Head(q) THEN 1 ELSE 0) + Queued(Tail(q), x)
      BY <1>2, <2>2, CountStep
    <3> QED
      BY <2>2, <3>1, <3>2, <3>3
  <2> QED
    BY <2>1, <2>2
<1>6. Count(notifications', x) = 0 /\ Count(turn'.produced, x) = 0
  BY <1>1, CountSmall, TurnRecords
<1>7. Held(x)' = Queued(queue', x) + Count(notifications', x) + Count(turn'.produced, x) + Count(messages', x)
  BY DEF Held
<1> QED
  BY <1>3, <1>4, <1>5, <1>6, <1>7 DEF Grows

\* An idle machine that settles keeps what it has.
LEMMA SettleCounts ==
  ASSUME NEW here, NEW msgs, NEW st, NEW notes, NEW q, NEW pz, NEW bg,
         IsSequence(msgs), IsSequence(notes), q \in Seq(Prompts), Settle(here, msgs, st, notes, q, pz, bg)
  PROVE  /\ \A x : Held(x)' = Queued(q, x) + Count(notes, x) + Count(msgs, x)
         /\ queue' \in Seq(Prompts) /\ turn'.produced = << >>
         /\ state' \in {"ready", "waiting"} /\ ~pz /\ here \in {"ready", "waiting"} => queue' = << >> /\ notifications' = << >>
         /\ (messages' = msgs /\ stored' = st) \/ ~pz
         /\ \A x : Grows(msgs, messages', x)
<1>1. CASE StartTurn(msgs, st, notes, q) /\ ~pz
  <2>1. state' = "active" /\ turn' = FreshTurn
    BY <1>1 DEF StartTurn
  <2>2. \A x : /\ Held(x)' = Queued(q, x) + Count(notes, x) + Count(msgs, x) /\ queue' \in Seq(Prompts)
               /\ Grows(msgs, messages', x)
    BY <1>1, StartTurnCounts
  <2> QED
    BY <1>1, <2>1, <2>2, TurnRecords
<1>2. ASSUME NEW where, NEW head, StayAt(where, msgs, st, notes, q, head)
      PROVE  /\ \A x : Held(x)' = Queued(q, x) + Count(notes, x) + Count(msgs, x)
             /\ queue' \in Seq(Prompts) /\ turn'.produced = << >>
             /\ messages' = msgs /\ stored' = st /\ state' = where
  <2>1. /\ messages' = msgs /\ notifications' = notes /\ queue' = q /\ turn'.produced = << >> /\ stored' = st
        /\ state' = where
    BY <1>2, TurnRecords DEF StayAt
  <2>2. ASSUME NEW x PROVE Held(x)' = Queued(q, x) + Count(notes, x) + Count(msgs, x)
    <3>1. Held(x)' = Queued(q, x) + Count(notes, x) + Count(<< >>, x) + Count(msgs, x)
      BY <2>1 DEF Held
    <3>2. Queued(q, x) \in Nat /\ Count(notes, x) \in Nat /\ Count(msgs, x) \in Nat /\ Count(<< >>, x) = 0
      BY CountPositive, SeqIsSequence, CountSmall
    <3> QED
      BY <3>1, <3>2
  <2> QED
    BY <2>1, <2>2
<1>0. \A x : Grows(msgs, msgs, x)
  BY CountPositive DEF Grows
<1>3. CASE StayAt("gating", msgs, st, notes, q, Head(q))
  BY <1>0, <1>2, <1>3
<1>4. CASE /\ pz \/ (notes = << >> /\ q = << >>)
           /\ StayAt(IF here = "ready" /\ bg # {} THEN "waiting" ELSE here, msgs, st, notes, q, Nobody)
  BY <1>0, <1>2, <1>4 DEF StayAt
<1> QED
  BY <1>1, <1>3, <1>4 DEF Settle

\* So does a machine in any state whose context is assigned.
LEMMA UpdateCounts ==
  ASSUME Sequences, ContextKept, NEW notes, NEW q, NEW pz, NEW bg, IsSequence(notes), q \in Seq(Prompts),
         UpdateContext(notes, q, pz, bg)
  PROVE  /\ \A x : Held(x)' = Queued(q, x) + Count(notes, x) + Count(turn.produced, x) + Count(messages, x)
         /\ queue' \in Seq(Prompts)
         /\ state' \notin Running => turn'.produced = << >>
         /\ state' \in {"ready", "waiting"} /\ ~pz => queue' = << >> /\ notifications' = << >>
         /\ UNCHANGED <<messages, stored>> \/ (~pz /\ state \in {"ready", "waiting"} /\ state' \notin {"linking", "restoring"})
         /\ state' \in {"linking", "restoring"} => state' = state
         /\ \A x : Grows(messages, messages', x)
<1>1. CASE state \in {"ready", "waiting"} /\ Settle(state, messages, stored, notes, q, pz, bg)
  <2>1. /\ \A x : Held(x)' = Queued(q, x) + Count(notes, x) + Count(messages, x)
        /\ queue' \in Seq(Prompts) /\ turn'.produced = << >>
        /\ state' \in {"ready", "waiting"} /\ ~pz => queue' = << >> /\ notifications' = << >>
        /\ (messages' = messages /\ stored' = stored) \/ ~pz
        /\ \A x : Grows(messages, messages', x)
    BY <1>1, SettleCounts DEF Sequences
  <2>2. \A x : Count(turn.produced, x) = 0 /\ Queued(q, x) \in Nat /\ Count(notes, x) \in Nat /\ Count(messages, x) \in Nat
    BY <1>1, CountSmall, CountPositive, SeqIsSequence DEF ContextKept, Running, Sequences
  <2>3. state' \in Idle \cup Running
    BY <1>1 DEF Settle, StartTurn, StayAt, Idle, Running
  <2> QED
    BY <1>1, <2>1, <2>2, <2>3 DEF Idle, Running
<1>2. CASE /\ state \notin {"ready", "waiting"} /\ notifications' = notes /\ queue' = q
           /\ UNCHANGED <<state, messages, stored, turn>>
  BY <1>2, CountPositive DEF Held, ContextKept, Sequences, Grows
<1> QED
  BY <1>1, <1>2 DEF UpdateContext

\* What has left the tools of the turn is in the background or was given up, and
\* only what was handed over leaves them alive.
ToolsKept ==
  /\ background \subseteq detached /\ detached \subseteq ToolIds
  /\ \A t \in ToolIds :
       /\ tool[t] = "none" => t \notin detached
       /\ tool[t] \in LiveStates => t \in turnTools \/ t \in detached
       /\ tool[t] \in LiveStates /\ t \in detached => t \in background \/ t \in dropped
       /\ t \in dropped => t \in detached /\ t \notin background
  /\ dropped \cap (Prompts \cup Notes) \subseteq accepted

\* What is held is settled.
LEMMA HeldIsSettled ==
  ASSUME Sequences, Accounts, turnBox = << >>
  PROVE  \A x \in Ids : /\ Held(x) \in Nat
                        /\ Held(x) = IF x \in Settled /\ x \notin dropped THEN 1 ELSE 0
<1> SUFFICES ASSUME NEW x \in Ids
             PROVE  Held(x) \in Nat /\ Held(x) = IF x \in Settled /\ x \notin dropped THEN 1 ELSE 0
  OBVIOUS
<1>1. Held(x) + Under(x) + Lost(x) = IF x \in Settled THEN 1 ELSE 0
  BY DEF Accounts
<1>2. Under(x) = 0 /\ Lost(x) = IF x \in dropped THEN 1 ELSE 0
  BY DEF Under, Lost
<1>3. Held(x) \in Nat
  BY HeldFacts
<1>4. x \in dropped => x \in Settled
  BY DEF Settled
<1> QED
  BY <1>1, <1>2, <1>3, <1>4

\* What is dropped was delivered, or runs in the background of a machine whose
\* history is reset.
LEMMA DropsAreKnown ==
  ASSUME Sequences, Accounts, [Next]_vars
  PROVE  /\ dropped \subseteq dropped' /\ accepted \subseteq accepted'
         /\ \A x \in Ids : x \in dropped' => x \in Settled \/ (x \in background /\ background' = {})
<1>1. CASE UNCHANGED <<dropped, accepted>>
  BY <1>1 DEF Settled
<1>2. ASSUME turnBox = << >>
      PROVE  \A x \in Ids : x \in Range(queue) \cup Delivers(turn.produced) \cup Delivers(messages) \cup Delivers(notifications)
                => x \in Settled
  <2> SUFFICES ASSUME NEW x \in Ids, x \in Range(queue) \cup Delivers(turn.produced) \cup Delivers(messages) \cup Delivers(notifications)
               PROVE  x \in Settled
    OBVIOUS
  <2>1. Held(x) = IF x \in Settled /\ x \notin dropped THEN 1 ELSE 0
    BY <1>2, HeldIsSettled
  <2>2. Held(x) # 0
    BY HeldFacts
  <2> QED
    BY <2>1, <2>2
<1>3. CASE AgentReceives
  <2>0. turnBox = << >>
    BY <1>3 DEF AgentReceives
  <2>1. CASE \E x : Submit(x) \/ Notify(x) \/ Retry \/ Remind(x) \/ Steer(x)
    BY <2>1 DEF Submit, Notify, Retry, Remind, Steer, Settled
  <2>2. CASE \E x : Cancel(x)
    BY <1>2, <2>0, <2>2 DEF Cancel, Settled
  <2>3. CASE Pause \/ Continue \/ Drain \/ StoreReady \/ \E ev : ToolReport(ev)
    BY <1>1, <2>3 DEF Pause, Continue, Drain, StoreReady, ToolReport
  <2>4. CASE Close \/ \E produced : TurnEnds(produced)
    BY <1>2, <2>0, <2>4 DEF Close, TurnEnds, Settled
  <2>5. CASE \E rest : AbortInput(rest) \/ \E calls : SpawnTools(calls, rest)
    BY <1>1, <2>5 DEF AbortInput, SpawnTools
  <2> QED
    BY <1>3, <2>1, <2>2, <2>3, <2>4, <2>5 DEF AgentReceives
<1>4. CASE TurnStep \/ SendInput \/ LoopSteps \/ LlmStep \/ TurnTimer
  BY <1>1, <1>4 DEF TurnStep, SendInput, LoopSteps, RecoveryRetries, RecoveryEnds, Send, LlmStep, TurnTimer,
     agentVars
<1>5. CASE \E t \in ToolIds : ToolStep(t)
  BY <1>1, <1>5 DEF ToolStep, ToolReport, agentVars
<1>6. CASE AbortTimeout \/ ScopeLinked \/ LinkFails \/ Disposed \/ \E h : RequestReset(h) \/ RecoveryReset(h)
  BY <1>1, <1>6 DEF AbortTimeout, ScopeLinked, LinkFails, Disposed, RequestReset, RecoveryReset, DispatchReset,
     agentVars
<1>7. CASE StoreReset
  <2>1. background' = {} /\ turnBox = << >>
    BY <1>7, SettleEffect DEF StoreReset, Quiet
  <2> QED
    BY <1>2, <1>7, <2>1 DEF StoreReset, Settled
<1>8. CASE \E v \in {"allow", "block", "error"} : GateVerdict(v)
  <2>1. PICK v \in {"allow", "block", "error"} : GateVerdict(v)
    BY <1>8
  <2>2. turnBox = << >> /\ accepted' = accepted
    BY <2>1 DEF GateVerdict, Quiet
  <2>3. CASE ~VerdictIsStale /\ dropped' = dropped \cup {Head(queue)}
    <3>1. queue # << >>
      BY <2>3 DEF VerdictIsStale
    <3>2. Head(queue) \in Range(queue)
      BY <3>1, SequenceFacts DEF Range, Sequences
    <3> QED
      BY <1>2, <2>2, <2>3, <3>2 DEF Settled
  <2> QED
    BY <1>1, <2>1, <2>2, <2>3 DEF GateVerdict
<1>9. CASE UNCHANGED vars
  BY <1>1, <1>9 DEF vars, agentVars
<1> QED
  BY <1>3, <1>4, <1>5, <1>6, <1>7, <1>8, <1>9 DEF Next, LoopSteps

\* How the steps leave the tools: none comes to life but in the turn, and what
\* leaves the turn or the background is over or dropped.
ToolsMove ==
  /\ detached' = detached /\ background' \subseteq background
  /\ \A t \in ToolIds :
       /\ \/ tool'[t] = tool[t]
          \/ tool'[t] \notin LiveStates \cup {"none"}
          \/ tool[t] = "none" /\ t \in turnTools'
          \/ tool[t] \in LiveStates /\ tool'[t] \in LiveStates
       /\ t \in turnTools => t \in turnTools' \/ tool'[t] \notin LiveStates
       /\ t \in background => t \in background' \/ t \in dropped' \/ tool'[t] \notin LiveStates

LEMMA ToolsKeptMoved ==
  ASSUME FreshIdentities, ToolsKept, InputsAreNew, BackgroundEntriesSettle, ToolsMove,
         dropped \subseteq dropped', accepted \subseteq accepted',
         \A x \in Ids : x \in dropped' => x \in Settled \/ (x \in background /\ background' = {})
  PROVE  ToolsKept'
<1>1. \A t \in ToolIds : t \notin accepted /\ t \in Ids
  BY DEF FreshIdentities, InputsAreNew, Ids
<1>2. ASSUME NEW t \in ToolIds, t \in dropped' PROVE t \in detached /\ t \notin background'
  BY <1>1, <1>2 DEF Settled, Finished, BackgroundEntriesSettle, ToolsKept, ToolsMove
<1>3. dropped' \cap (Prompts \cup Notes) \subseteq accepted'
  BY DEF FreshIdentities, Ids, Settled, Finished, ToolsKept
<1>4. ASSUME NEW t \in ToolIds
      PROVE  /\ tool'[t] = "none" => t \notin detached'
             /\ tool'[t] \in LiveStates => t \in turnTools' \/ t \in detached'
             /\ tool'[t] \in LiveStates /\ t \in detached' => t \in background' \/ t \in dropped'
  BY DEF ToolsKept, ToolsMove, LiveStates
<1> QED
  BY <1>2, <1>3, <1>4 DEF ToolsKept, ToolsMove

\* A call that runs in the background has delivered nothing.
LEMMA BackgroundIsUnsettled ==
  ASSUME FreshIdentities, ToolsKept, InputsAreNew, BackgroundEntriesSettle, Sequences, Accounts, turnBox = << >>,
         NEW t \in background
  PROVE  t \in Ids /\ t \in ToolIds /\ t \notin Settled /\ Held(t) = 0 /\ Count(messages, t) = 0
<1>1. t \in ToolIds /\ t \in Ids /\ t \notin Settled
  BY DEF ToolsKept, InputsAreNew, FreshIdentities, Ids, Settled, Finished, BackgroundEntriesSettle
<1>2. Held(t) = 0
  BY <1>1, HeldIsSettled
<1> QED
  BY <1>1, <1>2, HeldFacts

LEMMA ToolsMoveSteps ==
  ASSUME FreshIdentities, MailOK, ResetHolds, ToolsOK, ToolsKept, SpawnsAreFresh, InputsAreNew, Sequences, Accounts,
         ContextKept, [Next]_vars
  PROVE  ToolsMove \/ \E t \in ToolIds : ToolDetaches(t) /\ ToolReport([type |-> "tool.detached", tool |-> t])
<1>1. CASE UNCHANGED <<tool, detached, turnTools, background>>
  BY <1>1 DEF ToolsMove
<1>2. ASSUME NEW ts, NEW tools \in [ToolCalls -> ToolStates], NEW t \in ToolIds
      PROVE  /\ Stopped(ts, tools)[t] = tools[t] \/ Stopped(ts, tools)[t] \notin LiveStates \cup {"none"}
             /\ t \in ts => Stopped(ts, tools)[t] \notin LiveStates
             /\ Aborted(ts, tools)[t] = tools[t] \/ Aborted(ts, tools)[t] \notin LiveStates \cup {"none"}
  BY ActorEffects, AgentAssumption DEF LiveStates
<1>3. tool \in [ToolCalls -> ToolStates] /\ ToolIds = ToolCalls
  BY AgentAssumption DEF ToolsOK
<1>4. CASE \/ \E x : Submit(x) \/ Notify(x) \/ Retry \/ Remind(x) \/ Steer(x) \/ Cancel(x)
           \/ Pause \/ Continue \/ Drain \/ StoreReady
           \/ \E v \in {"allow", "block", "error"} : GateVerdict(v)
           \/ ScopeLinked \/ LinkFails \/ LlmStep \/ TurnTimer \/ TurnStep \/ SendInput \/ LoopSteps
           \/ \E h : RequestReset(h) \/ RecoveryReset(h)
           \/ UNCHANGED vars
  <2>1. CASE \E notes, q, pz : UpdateContext(notes, q, pz, background) /\ UNCHANGED <<turnTools, toolVars>>
    BY <1>1, <2>1, UpdateEffect DEF toolVars
  <2>2. CASE \E x : Submit(x) \/ Notify(x) \/ Retry \/ Remind(x) \/ Cancel(x)
    BY <1>1, <2>1, <2>2 DEF Submit, Notify, Retry, Remind, Cancel, toolVars
  <2>3. CASE \E x : Steer(x)
    BY <2>1, <2>3 DEF Steer
  <2>4. CASE Pause
    BY <2>1, <2>4 DEF Pause
  <2>5. CASE Continue
    BY <1>1, <2>1, <2>5 DEF Continue, toolVars
  <2>6. CASE Drain \/ ScopeLinked \/ LinkFails \/ LlmStep \/ TurnTimer \/ TurnStep \/ SendInput \/ LoopSteps \/ \E h : RequestReset(h) \/ RecoveryReset(h)
    BY <1>1, <2>6 DEF Drain, ScopeLinked, LinkFails, LlmStep, TurnTimer, TurnStep, SendInput, LoopSteps,
       RecoveryRetries, RecoveryEnds, Send, RequestReset, RecoveryReset, DispatchReset, agentVars, toolVars
  <2>7. CASE StoreReady \/ \E v \in {"allow", "block", "error"} : GateVerdict(v)
    BY <1>1, <2>7, SettleEffect DEF StoreReady, GateVerdict, toolVars
  <2>8. CASE UNCHANGED vars
    BY <1>1, <2>8 DEF vars, agentVars, toolVars
  <2> QED
    BY <1>4, <2>2, <2>3, <2>4, <2>5, <2>6, <2>7, <2>8
<1>5. CASE Close
  BY <1>2, <1>3, <1>5 DEF Close, ToolsMove
<1>6. CASE \E produced : TurnEnds(produced)
  <2>1. CASE state \in Running
    <3>1. tool' = Stopped(turnTools, tool) /\ turnTools' = {} /\ UNCHANGED <<detached, background>>
      BY <1>6, <2>1, SettleEffect DEF TurnEnds, ExitRunning, StopTurnTools
    <3> QED
      BY <1>2, <1>3, <3>1 DEF ToolsMove
  <2> QED
    BY <1>1, <1>6, <2>1 DEF TurnEnds, toolVars
<1>7. CASE \E rest : AbortInput(rest)
  <2>1. /\ UNCHANGED <<detached, turnTools, background>>
        /\ \E ts : tool' = Stopped(ts, tool) \/ tool' = Aborted(ts, tool) \/ tool' = tool
    BY <1>7 DEF AbortInput, AbortTools, StopTurnTools
  <2> QED
    BY <1>2, <1>3, <2>1 DEF ToolsMove
<1>8. CASE AgentReceives /\ \E rest : Head(agentBox).type = "turn.spawn_tools" /\ SpawnTools(Head(agentBox).calls, rest)
  <2> DEFINE ts == Range(Head(agentBox).calls)
  <2>1. \A t \in ts : tool[t] = "none" /\ t \in ToolIds
    BY <1>3, <1>8, SequenceFacts DEF AgentReceives, MailOK, SpawnsAreFresh
  <2>2. /\ Spawned(ts) \in [ToolCalls -> ToolStates]
        /\ \A t \in ToolCalls : IF t \in ts THEN Spawned(ts)[t] = "preparing" ELSE Spawned(ts)[t] = tool[t]
    BY <1>3 DEF Spawned, ToolStates, LiveStates
  <2>3. /\ UNCHANGED <<detached, background>>
        /\ \/ UNCHANGED <<turnTools, tool>>
           \/ turnTools' = turnTools \cup ts /\ tool' \in {Spawned(ts), Aborted(ts, Spawned(ts))}
    BY <1>8 DEF SpawnTools, AbortTools
  <2> HIDE DEF ts
  <2>4. CASE turnTools' = turnTools \cup ts /\ tool' \in {Spawned(ts), Aborted(ts, Spawned(ts))}
    <3>1. \A t \in ToolIds : tool'[t] = Spawned(ts)[t] \/ tool'[t] \notin LiveStates \cup {"none"}
      BY <1>2, <2>2, <2>4
    <3>2. ASSUME NEW t \in ToolIds
          PROVE  \/ tool'[t] = tool[t]
                 \/ tool'[t] \notin LiveStates \cup {"none"}
                 \/ tool[t] = "none" /\ t \in turnTools'
      BY <1>3, <2>1, <2>2, <2>4, <3>1
    <3> QED
      BY <2>3, <2>4, <3>2 DEF ToolsMove
  <2> QED
    BY <1>1, <2>3, <2>4
<1>9. CASE AbortTimeout
  BY <1>2, <1>3, <1>9 DEF AbortTimeout, StopTurnTools, ToolsMove, agentVars
<1>10. CASE StoreReset
  <2>1. /\ background' = {} /\ turnTools' = {} /\ tool' = Stopped(turnTools, tool) /\ detached' = detached
        /\ dropped' = dropped \cup ((Delivers(messages) \cup Delivers(notifications) \cup Delivers(turn.produced) \cup background)
                                      \ Delivers(Head(resetTo)))
    BY <1>10, SettleEffect DEF StoreReset
  <2>2. resetTo # << >> /\ turnBox = << >>
    BY <1>10 DEF StoreReset, Quiet
  <2>3. \A t \in background : t \notin Delivers(Head(resetTo))
    <3> SUFFICES ASSUME NEW t \in background PROVE t \notin Delivers(Head(resetTo))
      OBVIOUS
    <3>1. t \in Ids /\ Count(messages, t) = 0
      BY <2>2, BackgroundIsUnsettled DEF ToolsOK
    <3>2. Count(Head(resetTo), t) <= Count(messages, t)
      BY <2>2, <3>1 DEF ContextKept
    <3>3. Count(Head(resetTo), t) \in Nat /\ (Count(Head(resetTo), t) > 0 <=> t \in Delivers(Head(resetTo)))
      BY <2>2, HeldFacts
    <3> QED
      BY <3>1, <3>2, <3>3
  <2> QED
    BY <1>2, <1>3, <2>1, <2>2, <2>3 DEF ToolsMove
<1>11. CASE Disposed
  BY <1>2, <1>3, <1>11 DEF Disposed, ToolsMove
<1>12. CASE \E ev : ev.type = "tool.aborted" /\ ToolReport(ev) /\ UNCHANGED toolVars
  <2>1. UNCHANGED <<turnTools, background>>
    BY <1>12, ReportEffect DEF Completes
  <2> QED
    BY <1>1, <1>12, <2>1 DEF toolVars
<1>13. ASSUME NEW t \in ToolIds, ToolStep(t),
              ~(ToolDetaches(t) /\ ToolReport([type |-> "tool.detached", tool |-> t]))
       PROVE  ToolsMove
  <2>1. CASE (ToolPrepared(t) \/ ToolExecuted(t)) /\ UNCHANGED <<agentVars, turnVars>>
    BY <1>3, <2>1 DEF ToolPrepared, ToolExecuted, agentVars, ToolsMove, LiveStates
  <2>2. CASE /\ \E type : type # "tool.detached" /\ ToolReport([type |-> type, tool |-> t])
             /\ \E end \in {"succeeded", "failed", "aborted"} : tool' = [tool EXCEPT ![t] = end]
             /\ detached' = detached
    <3>1. turnTools' = turnTools /\ background' \subseteq background /\ background \ {t} \subseteq background'
      BY <2>2, ReportEffect
    <3>2. tool'[t] \notin LiveStates \cup {"none"} /\ \A u \in ToolIds : u = t \/ tool'[u] = tool[u]
      BY <1>3, <2>2 DEF LiveStates
    <3> QED
      BY <2>2, <3>1, <3>2 DEF ToolsMove
  <2>3. CASE ToolSucceeds(t) /\ ToolReport([type |-> "tool.done", tool |-> t])
    BY <2>2, <2>3 DEF ToolSucceeds
  <2>4. CASE ToolRejects(t) /\ ToolReport([type |-> IF t \in signalled THEN "tool.aborted" ELSE "tool.failed", tool |-> t])
    BY <2>2, <2>4 DEF ToolRejects
  <2> QED
    BY <1>13, <2>1, <2>3, <2>4 DEF ToolStep
<1> QED
  BY <1>4, <1>5, <1>6, <1>7, <1>8, <1>9, <1>10, <1>11, <1>12, <1>13 DEF Next, AgentReceives, LoopSteps

LEMMA ToolsKeptStep ==
  ASSUME FreshIdentities, StoreOK, ToolsOK, ToolsKept, SpawnsAreFresh, InputsAreNew, Sequences, Accounts,
         ContextKept, [Next]_vars
  PROVE  ToolsKept'
<1>1. /\ dropped \subseteq dropped' /\ accepted \subseteq accepted'
      /\ \A x \in Ids : x \in dropped' => x \in Settled \/ (x \in background /\ background' = {})
  BY DropsAreKnown
<1>2. CASE ToolsMove
  BY <1>1, <1>2, ToolsKeptMoved DEF ToolsOK
<1>3. ASSUME NEW t \in ToolIds, ToolDetaches(t), ToolReport([type |-> "tool.detached", tool |-> t])
      PROVE  ToolsKept'
  <2>1. /\ tool[t] = "executing" /\ t \notin detached /\ detached' = detached \cup {t} /\ tool' = tool
        /\ t \in turnTools /\ state \in Running
    BY <1>3, AgentAssumption DEF ToolDetaches, ToolsKept, LiveStates, ToolsOK, LiveToolsAreOwned
  <2>2. background' = background \cup {t} /\ turnTools' = turnTools \ {t}
    BY <1>3, <2>1 DEF ToolReport, Completes
  <2>3. UNCHANGED <<dropped, accepted>>
    BY <1>3 DEF ToolReport
  <2> QED
    BY <2>1, <2>2, <2>3 DEF ToolsKept, LiveStates
<1> QED
  BY <1>2, <1>3, ToolsMoveSteps DEF StoreOK, ContextOK

LEMMA QueueWithout ==
  ASSUME Sequences, NEW gone
  PROVE  /\ Without(queue, gone) \in Seq(Prompts)
         /\ \A x : Queued(Without(queue, gone), x) = IF x \in gone THEN 0 ELSE Queued(queue, x)
<1>1. IsSequence(Without(queue, gone)) /\ Range(Without(queue, gone)) \subseteq Range(queue)
  BY WithoutIsSequence, WithoutCounts DEF Sequences
<1>2. Range(queue) \subseteq Prompts
  BY DEF Sequences, Range
<1>3. ToSet(Without(queue, gone)) \subseteq Prompts
  BY <1>1, <1>2 DEF ToSet, Range
<1>4. Without(queue, gone) \in Seq(Prompts)
  BY <1>1, <1>3, SeqMonotonic DEF IsSequence
<1> QED
  BY <1>4, WithoutCounts DEF Sequences

\* A prefix delivers no more than the whole.
LEMMA PrefixCounts ==
  ASSUME NEW s, IsSequence(s), NEW k \in 0 .. Len(s), NEW x
  PROVE  Count(SubSeq(s, 1, k), x) <= Count(s, x)
<1> DEFINE h == SubSeq(s, 1, k)
           A == Deliveries(h, x)
           B == Deliveries(s, x)
<1>1. s \in Seq(ToSet(s)) /\ DOMAIN s = 1 .. Len(s) /\ Len(s) \in Nat
  BY SequenceFacts DEF IsSequence
<1>2. Len(h) = k /\ DOMAIN h = 1 .. k /\ \A i \in 1 .. k : h[i] = s[i]
  BY <1>1
<1> HIDE DEF h
<1>3. A \subseteq B /\ B \subseteq DOMAIN s
  BY <1>1, <1>2 DEF Deliveries
<1>4. IsFiniteSet(B)
  <2>1. IsFiniteSet(DOMAIN s)
    BY <1>1, FS_Interval
  <2> QED
    BY <1>3, <2>1, FS_Subset
<1> HIDE DEF A, B
<1>5. Cardinality(A) <= Cardinality(B)
  BY <1>3, <1>4, FS_Subset
<1> QED
  BY <1>5 DEF Count, A, B, h

\* A reset stays within a history that grows.
LEMMA CountsGrow ==
  ASSUME Sequences, ContextKept, NEW more, \A x \in Ids : Grows(messages, more, x)
  PROVE  resetTo # << >> => \A x \in Ids : Count(Head(resetTo), x) <= Count(more, x)
<1> SUFFICES ASSUME resetTo # << >>, NEW x \in Ids
             PROVE  Count(Head(resetTo), x) <= Count(more, x)
  OBVIOUS
<1>1. Count(Head(resetTo), x) <= Count(messages, x)
  BY DEF ContextKept
<1>2. Count(Head(resetTo), x) \in Nat
  BY HeldFacts
<1> QED
  BY <1>1, <1>2 DEF Grows

LEMMA ContextAssigned ==
  ASSUME Sequences, ContextKept, NEW notes, NEW q, NEW pz, NEW bg, IsSequence(notes), q \in Seq(Prompts),
         UpdateContext(notes, q, pz, bg), resetTo' = resetTo
  PROVE  ContextKept'
<1>1. /\ queue' \in Seq(Prompts)
      /\ state' \notin Running => turn'.produced = << >>
      /\ state' \in {"ready", "waiting"} /\ ~pz => queue' = << >> /\ notifications' = << >>
      /\ UNCHANGED <<messages, stored>> \/ (~pz /\ state \in {"ready", "waiting"} /\ state' \notin {"linking", "restoring"})
      /\ state' \in {"linking", "restoring"} => state' = state
      /\ \A x : Grows(messages, messages', x)
  BY UpdateCounts
<1>2. paused' = pz
  BY UpdateEffect
<1>3. state' \in {"ready", "waiting"} /\ ~paused' => queue' = << >> /\ notifications' = << >>
  BY <1>1, <1>2, Zenon
<1>4. resetTo' # << >> => \A x \in Ids : Count(Head(resetTo'), x) <= Count(messages', x)
  BY <1>1, CountsGrow
<1>5. state' \in {"linking", "restoring"} => UNCHANGED <<state, messages, stored>>
  BY <1>1
<1> QED
  BY <1>1, <1>3, <1>4, <1>5 DEF ContextKept

LEMMA ContextSettled ==
  ASSUME NEW msgs, NEW st, NEW notes, NEW q, NEW pz, NEW bg, IsSequence(msgs), IsSequence(notes), q \in Seq(Prompts),
         Settle("ready", msgs, st, notes, q, pz, bg),
         resetTo' # << >> => \A x \in Ids : Count(Head(resetTo'), x) <= Count(msgs, x) /\ Count(Head(resetTo'), x) \in Nat
  PROVE  ContextKept'
<1>1. /\ queue' \in Seq(Prompts) /\ turn'.produced = << >>
      /\ state' \in {"ready", "waiting"} /\ ~pz => queue' = << >> /\ notifications' = << >>
      /\ \A x : Grows(msgs, messages', x)
  BY SettleCounts
<1>4. resetTo' # << >> => \A x \in Ids : Count(Head(resetTo'), x) <= Count(messages', x)
  BY <1>1 DEF Grows
<1>2. paused' = pz /\ state' \notin {"linking", "restoring"}
  BY SettleEffect DEF Settles, Idle
<1>3. state' \in {"ready", "waiting"} /\ ~paused' => queue' = << >> /\ notifications' = << >>
  BY <1>1, <1>2, Zenon
<1> QED
  BY <1>1, <1>2, <1>3, <1>4 DEF ContextKept

LEMMA ContextKeptStep ==
  ASSUME StoreOK, PairingOK, InputsAreNew, Sequences, ContextKept, [Next]_vars
  PROVE  ContextKept'
<1> DEFINE Same == UNCHANGED <<state, queue, notifications, messages, stored, resetTo, turn>>
<1>1. ASSUME Same, paused' = paused PROVE ContextKept'
  BY <1>1 DEF ContextKept
<1>2. ASSUME NEW notes, NEW q, NEW bg, UpdateContext(notes, q, paused, bg), resetTo' = resetTo,
             IsSequence(notes), q \in Seq(Prompts)
      PROVE  ContextKept'
  BY <1>2, ContextAssigned
<1>3. /\ IsSequence(notifications) /\ queue \in Seq(Prompts) /\ IsSequence(messages) /\ IsSequence(stored) /\ IsSequence(turn.produced)
      /\ \A e : IsSequence(Append(notifications, e))
      /\ IsSequence(<< >>)
  BY SequenceFacts, EmptyFacts DEF Sequences
<1>4. /\ state \in {"linking", "restoring"} => resetTo = << >>
      /\ resetTo # << >> => \A x \in Ids : Count(Head(resetTo), x) <= Count(messages, x) /\ Count(Head(resetTo), x) \in Nat
  BY HeldFacts DEF StoreOK, ContextOK, ResetHolds, ContextKept
<1>5. ASSUME NEW st, StartTurn(messages, st, notifications, queue), resetTo' = resetTo
      PROVE  ContextKept'
  <2>1. queue' \in Seq(Prompts) /\ state' = "active" /\ \A x : Grows(messages, messages', x)
    BY <1>3, <1>5, StartTurnCounts DEF StartTurn
  <2>2. resetTo # << >> => \A x \in Ids : Count(Head(resetTo), x) <= Count(messages', x)
    BY <2>1, CountsGrow
  <2> QED
    BY <1>5, <2>1, <2>2 DEF ContextKept, Running
<1>6. CASE AgentReceives
  <2>1. CASE Head(agentBox).type = "input.submit" /\ Submit(Head(agentBox).id)
    <3>1. Head(agentBox).id \in Prompts
      BY <1>6, <2>1, SequenceFacts DEF AgentReceives, StoreOK, MailOK, InputsAreNew
    <3>2. Append(queue, Head(agentBox).id) \in Seq(Prompts)
      BY <1>3, <3>1
    <3> QED
      BY <1>2, <1>3, <2>1, <3>2 DEF Submit
  <2>2. CASE \E x : Notify(x) \/ Retry \/ Cancel(x) \/ Steer(x)
    BY <1>2, <1>3, <2>2, QueueWithout DEF Notify, Retry, Cancel, Steer
  <2>3. CASE \/ \E x : Remind(x)
             \/ \E calls, rest : SpawnTools(calls, rest)
    BY <1>1, <2>3 DEF Remind, SpawnTools, turnVars
  <2>4. CASE Drain \/ \E rest : AbortInput(rest)
    <3>1. /\ UNCHANGED <<queue, messages, stored, resetTo, turn>>
          /\ UNCHANGED <<state, notifications, paused>> \/ (state \in Running /\ state' \in Running)
      BY <2>4 DEF Drain, AbortInput, Running
    <3> QED
      BY <1>1, <3>1 DEF ContextKept, Running
  <2>5. CASE Pause
    <3>1. UpdateContext(notifications, queue, TRUE, background) /\ resetTo' = resetTo
      BY <2>5 DEF Pause
    <3> QED
      BY <1>3, <3>1, ContextAssigned
  <2>6. CASE Head(agentBox).type = "input.continue" /\ Continue
    <3>2. CASE StartTurn(messages, stored, notifications, queue) /\ resetTo' = resetTo
      BY <1>5, <3>2
    <3>3. CASE UpdateContext(notifications, queue, FALSE, background) /\ resetTo' = resetTo
      BY <1>3, <3>3, ContextAssigned
    <3> QED
      BY <2>6, <3>2, <3>3 DEF Continue
  <2>7. CASE StoreReady
    <3>1. CASE state = "restoring"
      BY <1>3, <1>4, <2>7, <3>1, ContextSettled DEF StoreReady, Over
    <3> QED
      BY <1>1, <2>7, <3>1 DEF StoreReady
  <2>8. CASE Close
    <3>1. state' \in {"disposed", "closing"} /\ UNCHANGED <<queue, messages, stored, resetTo>> /\ turn'.produced = << >>
      BY <2>8, TurnRecords DEF Close
    <3> QED
      BY <3>1 DEF ContextKept, Running
  <2>9. ASSUME NEW produced \in {turn.produced, << >>}, TurnEnds(produced) PROVE ContextKept'
    <3>1. CASE state \in Running
      <4>2. IsSequence(messages \o produced)
        BY <1>3, ConcatFacts
      <4>1. resetTo' # << >> => \A x \in Ids : /\ Count(Head(resetTo'), x) <= Count(messages \o produced, x)
                                              /\ Count(Head(resetTo'), x) \in Nat
        <5>1. resetTo' = resetTo
          BY <2>9 DEF TurnEnds
        <5>2. ASSUME NEW x PROVE Grows(messages, messages \o produced, x)
          <6>1. Count(messages \o produced, x) = Count(messages, x) + Count(produced, x)
            BY <1>3, <2>9, CountConcat
          <6>2. Count(messages, x) \in Nat /\ Count(produced, x) \in Nat
            BY <1>3, <2>9, CountPositive
          <6> QED
            BY <6>1, <6>2 DEF Grows
        <5>3. resetTo # << >> => \A x \in Ids : Count(Head(resetTo), x) <= Count(messages \o produced, x)
          BY <5>2, CountsGrow
        <5> QED
          BY <1>4, <5>1, <5>3
      <4> QED
        BY <1>3, <2>9, <3>1, <4>1, <4>2, ContextSettled DEF TurnEnds
    <3> QED
      BY <1>1, <2>9, <3>1 DEF TurnEnds
  <2>10. CASE \E ev : ToolReport(ev)
    BY <1>1, <1>2, <1>3, <2>10 DEF ToolReport
  <2> QED
    BY <1>6, <2>1, <2>2, <2>3, <2>4, <2>5, <2>6, <2>7, <2>8, <2>9, <2>10 DEF AgentReceives
<1>7. CASE LlmStep \/ TurnTimer \/ TurnStep
  <2>1. /\ UNCHANGED <<state, queue, notifications, messages, stored, resetTo, paused>>
        /\ turn' = turn \/ state \in Running
    BY <1>7, TurnEffect DEF StoreOK, MailOK, ContextOK, agentVars
  <2> QED
    BY <2>1 DEF ContextKept
<1>8. CASE SendInput \/ LoopSteps \/ AbortTimeout
  BY <1>1, <1>8 DEF SendInput, LoopSteps, RecoveryRetries, RecoveryEnds, Send, AbortTimeout, agentVars, turnVars
<1>9. CASE \E t \in ToolIds : ToolStep(t)
  BY <1>1, <1>2, <1>3, <1>9 DEF ToolStep, ToolReport, agentVars, turnVars
<1>10. CASE ScopeLinked \/ LinkFails \/ Disposed
  BY <1>10 DEF ScopeLinked, LinkFails, Disposed, turnVars, ContextKept, Running
<1>11. CASE StoreReset
  <2>1. /\ Settle("ready", Head(resetTo), stored, << >>, queue, paused, {})
        /\ resetTo' = << >> /\ IsSequence(Head(resetTo))
    BY <1>11 DEF StoreReset, Sequences
  <2> QED
    BY <1>3, <2>1, ContextSettled
<1>12. CASE \E v \in {"allow", "block", "error"} : GateVerdict(v)
  <2>1. /\ resetTo' = resetTo
        /\ \/ Settle("ready", messages, stored, notifications, queue, paused, background)
           \/ StartTurn(messages, stored, notifications, queue)
           \/ queue # << >> /\ Settle("ready", messages, stored, notifications, Tail(queue), paused, background)
    BY <1>12 DEF GateVerdict, VerdictIsStale
  <2>2. queue # << >> => Tail(queue) \in Seq(Prompts)
    BY <1>3
  <2>3. resetTo' # << >> => \A x \in Ids : Count(Head(resetTo'), x) <= Count(messages, x) /\ Count(Head(resetTo'), x) \in Nat
    BY <1>4, <2>1
  <2> QED
    BY <1>3, <1>5, <2>1, <2>2, <2>3, ContextSettled
<1>13. CASE \E h \in {x \in ResetHistories : WellPaired(x)} : RequestReset(h) \/ RecoveryReset(h)
  <2>1. PICK k \in 0 .. Len(messages) : resetTo' = <<SubSeq(messages, 1, k)>>
    BY <1>13 DEF ResetHistories, RequestReset, RecoveryReset, DispatchReset
  <2>2. \A x : Count(Head(resetTo'), x) <= Count(messages, x)
    BY <1>3, <2>1, PrefixCounts
  <2>3. /\ UNCHANGED <<messages, notifications, turn, queue, state, paused>>
        /\ state \notin {"linking", "restoring"}
    BY <1>13 DEF RequestReset, RecoveryReset, DispatchReset, turnVars, HoldsLease, StoreOK, ContextOK, ResetHolds
  <2> QED
    BY <2>2, <2>3 DEF ContextKept
<1>14. CASE UNCHANGED vars
  BY <1>1, <1>14 DEF vars, agentVars, turnVars
<1> QED
  BY <1>6, <1>7, <1>8, <1>9, <1>10, <1>11, <1>12, <1>13, <1>14 DEF Next, LoopSteps

----------------------------------------------------------------------------
(* What each step does to the accounts.                                    *)

\* Entries that the user did not send deliver nothing.
LEMMA NothingDelivered ==
  ASSUME NEW s, IsSequence(s), \A i \in DOMAIN s : s[i].role # "user"
  PROVE  \A x : Count(s, x) = 0
<1> TAKE x
<1>1. Deliveries(s, x) = {}
  BY DEF Deliveries
<1> QED
  BY <1>1, FS_EmptySet DEF Count

LEMMA ResultsDeliverNothing ==
  ASSUME IsSequence(turn.pending), IsSequence(turn.produced), NEW outcomes, NEW x
  PROVE  Count(Collected(outcomes), x) = Count(turn.produced, x)
<1> DEFINE results == ToolResults(turn.pending, outcomes)
<1>1. IsSequence(results) /\ \A i \in DOMAIN results : results[i].role # "user"
  <2>1. DOMAIN turn.pending = 1 .. Len(turn.pending) /\ Len(turn.pending) \in Nat
    BY SequenceFacts
  <2>2. DOMAIN results = DOMAIN turn.pending /\ \A i \in DOMAIN results : results[i].role = "tool"
    BY DEF ToolResults, ToolResult
  <2>3. results \in [1 .. Len(turn.pending) -> {results[i] : i \in DOMAIN results}]
    BY <2>1, <2>2 DEF ToolResults
  <2> HIDE DEF results
  <2> QED
    BY <2>1, <2>2, <2>3, SeqDef, SeqIsSequence
<1> HIDE DEF results
<1>2. Count(results, x) = 0
  BY <1>1, NothingDelivered
<1>3. Count(turn.produced \o results, x) = Count(turn.produced, x) + Count(results, x) /\ Count(turn.produced, x) \in Nat
  BY <1>1, CountConcat
<1> QED
  BY <1>2, <1>3 DEF Collected, results

LEMMA AnswersDeliverNothing ==
  ASSUME IsSequence(turn.produced), NEW calls, NEW x
  PROVE  /\ Count(Append(turn.produced, Assistant(calls)), x) = Count(turn.produced, x)
         /\ Count(turn.produced \o <<Assistant(calls)>>, x) = Count(turn.produced, x)
         /\ turn.produced \o << >> = turn.produced
<1>1. Append(turn.produced, Assistant(calls)) = turn.produced \o <<Assistant(calls)>>
  BY AppendIsConcat DEF IsSequence
<1>2. Count(<<Assistant(calls)>>, x) = 0
  <2>1. Assistant(calls).role # "user"
    BY DEF Assistant
  <2> QED
    BY <2>1, CountSmall
<1>3. /\ Count(turn.produced \o <<Assistant(calls)>>, x) = Count(turn.produced, x) + Count(<<Assistant(calls)>>, x)
      /\ Count(turn.produced, x) \in Nat
  BY CountConcat, SingletonFacts
<1> QED
  BY <1>1, <1>2, <1>3, ConcatFacts, EmptyFacts

\* The turn neither loses nor repeats what it was handed: it is told what the
\* agent drained only while it waits for it.
LEMMA TurnCounts ==
  ASSUME StoreOK, PairingOK, SignalsOK, Sequences, LlmStep \/ TurnTimer \/ TurnStep, NEW x
  PROVE  Under(x)' = 0 /\ Under(x) \in Nat /\ Count(turn'.produced, x) = Count(turn.produced, x) + Under(x)
<1> USE TurnFields
<1>1. /\ DOMAIN turn = DOMAIN NoTurn /\ IsSequence(turn.pending) /\ IsSequence(turn.produced)
      /\ Count(turn.produced, x) \in Nat
  BY HeldFacts DEF StoreOK, ContextOK, PairingOK, HistoriesOK, TurnPairs, Sequences
<1>2. turnBox' = << >> => Under(x)' = 0
  BY DEF Under
<1>3. turnBox = << >> \/ Head(turnBox).type # "turn.notify" => Under(x) = 0
  BY DEF Under
<1>4. ASSUME NEW outcome, NEW produced, NEW signals, EndTurn(outcome, produced, signals)
      PROVE  turn'.produced = produced
  BY <1>1, <1>4 DEF EndTurn
<1>5. CASE LlmStep \/ TurnTimer
  <2>1. Under(x)' = 0 /\ Under(x) = 0
    BY <1>2, <1>3, <1>5 DEF Quiet, LlmStep, TurnTimer, LlmCallsTools, LlmAnswers, LlmFails, LlmFailureRecovered,
                LlmFailureRetried, TurnThrows, BeforeStepDone, BeforeStepFails, RetryDelayElapses,
                AbortGraceElapses
  <2>2. Count(turn'.produced, x) = Count(turn.produced, x)
    <3>1. CASE \E calls \in FreshCalls, r \in Reactions : LlmCallsTools(calls, r)
      <4>1. PICK calls : turn' = [turn EXCEPT !.state = "acting", !.pending = calls, !.produced = Append(@, Assistant(calls))]
        BY <3>1 DEF LlmCallsTools
      <4>2. turn'.produced = Append(turn.produced, Assistant(calls))
        BY <1>1, <4>1
      <4> QED
        BY <1>1, <4>2, AnswersDeliverNothing
    <3>2. CASE \E r \in Reactions : LlmAnswers(r)
      BY <1>1, <1>4, <3>2, AnswersDeliverNothing DEF LlmAnswers
    <3>3. CASE BeforeStepFails \/ \E r \in Reactions : LlmFails(r)
      BY <1>4, <3>3 DEF BeforeStepFails, LlmFails
    <3>4. CASE LlmFailureRecovered \/ LlmFailureRetried \/ BeforeStepDone \/ RetryDelayElapses \/ TurnThrows
      BY <1>1, <3>4 DEF LlmFailureRecovered, LlmFailureRetried, BeforeStepDone, RetryDelayElapses, TurnThrows
    <3>5. CASE AbortGraceElapses
      BY <1>1, <1>4, <3>5, ResultsDeliverNothing DEF AbortGraceElapses
    <3> QED
      BY <1>5, <3>1, <3>2, <3>3, <3>4, <3>5 DEF LlmStep, TurnTimer
  <2> QED
    BY <1>1, <2>1, <2>2
<1>6. CASE TurnStep
  <2>1. turnBox # << >> /\ turnBox' = Tail(turnBox) /\ turnBox = <<Head(turnBox)>>
    BY <1>6 DEF TurnStep, TurnReceives, TurnPauses, Receive, TurnAborts, TurnToolEvent, TurnNotified, TurnDrops, SignalsOK
  <2>2. Under(x)' = 0
    <3>1. Tail(<<Head(turnBox)>>) = << >>
      OBVIOUS
    <3> QED
      BY <1>2, <2>1, <3>1
  <2>3. CASE TurnPauses \/ TurnAborts \/ TurnToolEvent
    <3>1. Under(x) = 0
      BY <1>3, <2>3 DEF TurnPauses, Receive, TurnAborts, TurnToolEvent, ToolOutcomes
    <3>2. Count(turn'.produced, x) = Count(turn.produced, x)
      <4>1. CASE TurnPauses
        BY <1>1, <4>1 DEF TurnPauses
      <4>2. CASE TurnAborts
        BY <1>1, <1>4, <4>2, ResultsDeliverNothing, AnswersDeliverNothing DEF TurnAborts
      <4>3. CASE TurnToolEvent
        <5>1. CASE \E outcomes : EndTurn("aborted", Collected(outcomes), << >>)
          BY <1>1, <1>4, <5>1, ResultsDeliverNothing
        <5>2. CASE \E outcomes : turn' = [turn EXCEPT !.outcomes = outcomes]
          BY <1>1, <5>2
        <5>3. CASE \E outcomes : turn' = [turn EXCEPT !.state = "draining", !.produced = Collected(outcomes),
                                                    !.pending = << >>, !.outcomes = NoOutcomes]
          <6>1. \E outcomes : turn'.produced = Collected(outcomes)
            BY <1>1, <5>3
          <6> QED
            BY <1>1, <6>1, ResultsDeliverNothing
        <5> QED
          BY <4>3, <5>1, <5>2, <5>3 DEF TurnToolEvent
      <4> QED
        BY <2>3, <4>1, <4>2, <4>3
    <3> QED
      BY <1>1, <2>2, <3>1, <3>2
  <2>4. CASE TurnNotified
    <3> DEFINE drained == Head(turnBox).messages
    <3>1. IsSequence(drained) /\ Under(x) = Count(drained, x)
      <4>1. Head(turnBox).type = "turn.notify"
        BY <2>4 DEF TurnNotified, Receive
      <4>2. IsSequence(turnBox) /\ 1 \in DOMAIN turnBox /\ Head(turnBox) = turnBox[1]
        BY <2>1, SequenceFacts DEF PairingOK, NotesPlain
      <4> QED
        BY <2>1, <4>1, <4>2 DEF Under, PairingOK, NotesPlain, Plain
    <3> HIDE DEF drained
    <3>2. Count(turn.produced \o drained, x) = Count(turn.produced, x) + Count(drained, x) /\ Count(drained, x) \in Nat
      BY <1>1, <3>1, CountConcat
    <3>3. \/ turn'.produced = turn.produced \o drained
          \/ turn'.produced = turn.produced /\ drained = << >>
      <4>1. CASE EndTurn("none", turn.produced \o drained, << >>)
        BY <1>4, <4>1
      <4>2. CASE drained = << >> /\ EndTurn("failed", turn.produced, << >>)
        BY <1>4, <4>2
      <4>3. CASE \E n : turn' = [turn EXCEPT !.state = StepState, !.produced = turn.produced \o drained, !.attempt = 1,
                                   !.recoveries = 0, !.steps = n]
        BY <1>1, <4>3
      <4> QED
        BY <2>4, <4>1, <4>2, <4>3 DEF TurnNotified, drained
    <3> QED
      <4>1. CASE turn'.produced = turn.produced \o drained
        BY <1>1, <2>2, <3>1, <3>2, <4>1
      <4>2. CASE turn'.produced = turn.produced /\ drained = << >>
        <5>1. Count(drained, x) = 0
          BY <4>2, CountSmall
        <5> QED
          BY <1>1, <2>2, <3>1, <4>2, <5>1
      <4> QED
        BY <3>3, <4>1, <4>2
  <2>5. CASE TurnDrops
    <3>1. Head(turnBox).type # "turn.notify" /\ turn' = turn
      BY <2>1, <2>5 DEF TurnDrops, Handles, SignalsOK
    <3> QED
      BY <1>1, <1>3, <2>2, <3>1
  <2> QED
    BY <1>6, <2>3, <2>4, <2>5 DEF TurnStep, TurnReceives
<1> QED
  BY <1>5, <1>6

\* No step but one of a tool finishes a background call.
LEMMA FinishedKept ==
  ASSUME ToolsOK, ToolsKept, MailOK, SpawnsAreFresh, [Next]_vars, ~ \E t \in ToolIds : ToolStep(t)
  PROVE  Finished' = Finished
<1> DEFINE Over2 == {"succeeded", "failed"}
<1>1. ASSUME detached' = detached, \A t \in ToolIds : tool'[t] = tool[t] \/ {tool[t], tool'[t]} \cap Over2 = {}
      PROVE  Finished' = Finished
  BY <1>1 DEF Finished, ToolsKept
<1>2. ASSUME UNCHANGED toolVars PROVE Finished' = Finished
  BY <1>2 DEF toolVars, Finished
<1>3. tool \in [ToolCalls -> ToolStates] /\ ToolIds = ToolCalls
  BY AgentAssumption DEF ToolsOK
<1>4. ASSUME NEW ts, NEW tools \in [ToolCalls -> ToolStates], NEW t \in ToolIds
      PROVE  /\ Stopped(ts, tools)[t] = tools[t] \/ {tools[t], Stopped(ts, tools)[t]} \cap Over2 = {}
             /\ Aborted(ts, tools)[t] = tools[t] \/ {tools[t], Aborted(ts, tools)[t]} \cap Over2 = {}
  BY <1>3, ActorEffects DEF LiveStates
<1>5. CASE \/ \E x : Submit(x) \/ Notify(x) \/ Retry \/ Remind(x) \/ Steer(x) \/ Cancel(x)
           \/ Pause \/ Continue \/ Drain \/ StoreReady
           \/ \E v \in {"allow", "block", "error"} : GateVerdict(v)
           \/ ScopeLinked \/ LinkFails \/ LlmStep \/ TurnTimer \/ TurnStep \/ SendInput \/ LoopSteps
           \/ \E h : RequestReset(h) \/ RecoveryReset(h)
           \/ UNCHANGED vars
           \/ \E ev : ToolReport(ev) /\ UNCHANGED toolVars
  BY <1>2, <1>5 DEF Submit, Notify, Retry, Remind, Steer, Cancel, Pause, Continue, Drain, StoreReady, GateVerdict,
     ScopeLinked, LinkFails, LlmStep, TurnTimer, TurnStep, SendInput, LoopSteps, RecoveryRetries, RecoveryEnds,
     Send, RequestReset, RecoveryReset, DispatchReset, vars
<1>6. CASE Close \/ Disposed \/ StoreReset
  BY <1>1, <1>3, <1>4, <1>6 DEF Close, Disposed, StoreReset
<1>7. CASE AbortTimeout \/ \E rest : AbortInput(rest)
  BY <1>1, <1>3, <1>4, <1>7 DEF AbortTimeout, AbortInput, AbortTools, StopTurnTools
<1>8. CASE \E produced : TurnEnds(produced)
  BY <1>1, <1>2, <1>3, <1>4, <1>8 DEF TurnEnds, ExitRunning, StopTurnTools
<1>9. CASE AgentReceives /\ \E rest : Head(agentBox).type = "turn.spawn_tools" /\ SpawnTools(Head(agentBox).calls, rest)
  <2> DEFINE ts == Range(Head(agentBox).calls)
  <2>1. \A t \in ts : tool[t] = "none" /\ t \in ToolIds
    BY <1>3, <1>9, SequenceFacts DEF AgentReceives, MailOK, SpawnsAreFresh
  <2>2. /\ Spawned(ts) \in [ToolCalls -> ToolStates]
        /\ \A t \in ToolCalls : IF t \in ts THEN Spawned(ts)[t] = "preparing" ELSE Spawned(ts)[t] = tool[t]
    BY <1>3 DEF Spawned, ToolStates, LiveStates
  <2>3. /\ detached' = detached
        /\ tool' \in {tool, Spawned(ts), Aborted(ts, Spawned(ts))}
    BY <1>9 DEF SpawnTools, AbortTools
  <2> HIDE DEF ts
  <2>4. ASSUME NEW t \in ToolIds PROVE tool'[t] = tool[t] \/ {tool[t], tool'[t]} \cap Over2 = {}
    <3>1. Spawned(ts)[t] = tool[t] \/ {tool[t], Spawned(ts)[t]} \cap Over2 = {}
      BY <1>3, <2>1, <2>2
    <3>2. Aborted(ts, Spawned(ts))[t] = Spawned(ts)[t] \/ {Spawned(ts)[t], Aborted(ts, Spawned(ts))[t]} \cap Over2 = {}
      BY <1>4, <2>2
    <3> QED
      BY <2>3, <3>1, <3>2
  <2> QED
    BY <1>1, <2>3, <2>4
<1> QED
  BY <1>5, <1>6, <1>7, <1>8, <1>9 DEF Next, AgentReceives, LoopSteps

\* A step that moves deliveries about, at most.
LEMMA AccountsKept ==
  ASSUME Accounts, \A x \in Ids : Held(x)' + Under(x)' = Held(x) + Under(x),
         UNCHANGED <<dropped, accepted>>, Finished' = Finished
  PROVE  Accounts'
<1> SUFFICES ASSUME NEW x \in Ids
             PROVE  Held(x)' + Under(x)' + Lost(x)' = IF x \in Settled' THEN 1 ELSE 0
  BY DEF Accounts, Ids
<1>1. Held(x) + Under(x) + Lost(x) = IF x \in Settled THEN 1 ELSE 0
  BY DEF Accounts
<1>2. Lost(x)' = Lost(x) /\ Settled' = Settled
  BY DEF Lost, Settled
<1> QED
  BY <1>1, <1>2

\* While nothing is on its way to the turn, before and after.
BoxesEmpty == turnBox = << >> /\ (turnBox' = << >> \/ Head(turnBox').type # "turn.notify")

LEMMA AccountsMoved ==
  ASSUME Sequences, Accounts, BoxesEmpty, Finished' = Finished, accepted \subseteq accepted', dropped \subseteq dropped',
         \A x \in Ids :
            \/ /\ Held(x)' = Held(x) /\ (x \in dropped' => x \in dropped) /\ (x \in accepted' => x \in accepted)
            \/ Held(x) = 0 /\ x \notin dropped' /\ x \in accepted' /\ Held(x)' = 1
            \/ Held(x)' = 0 /\ x \in dropped' /\ x \notin dropped /\ (Held(x) > 0 \/ x \notin Settled)
  PROVE  Accounts'
<1> SUFFICES ASSUME NEW x \in Ids
             PROVE  Held(x)' + Under(x)' + Lost(x)' = IF x \in Settled' THEN 1 ELSE 0
  BY DEF Accounts, Ids
<1>1. Held(x) \in Nat /\ Held(x) = IF x \in Settled /\ x \notin dropped THEN 1 ELSE 0
  BY HeldIsSettled DEF BoxesEmpty
<1>2. Under(x)' = 0 /\ Lost(x)' = IF x \in dropped' THEN 1 ELSE 0
  BY DEF Under, Lost, BoxesEmpty
<1>3. (x \in Settled <=> x \in accepted \/ x \in Finished \/ x \in dropped)
      /\ (x \in Settled' <=> x \in accepted' \/ x \in Finished \/ x \in dropped')
  BY DEF Settled
<1> QED
  BY <1>1, <1>2, <1>3

\* The inputs that concern the queue: submission, steering and cancellation.
LEMMA AccountsQueued ==
  ASSUME FreshIdentities, Sequences, ContextKept, ToolsKept, Accounts, turnBox = << >>, turnBox' = << >>,
         Finished' = Finished,
         \/ \E p \in Prompts \ accepted : Submit(p)
         \/ \E n \in Notes \ accepted : Notify(n)
         \/ Retry
         \/ \E ids : Steer(ids)
         \/ \E p : Cancel(p)
  PROVE  Accounts'
<1>1. ASSUME NEW x \in Ids
      PROVE  Held(x) \in Nat /\ Held(x) = IF x \in Settled /\ x \notin dropped THEN 1 ELSE 0
  BY HeldIsSettled
<1>2. BoxesEmpty
  BY DEF BoxesEmpty
<1>3. ASSUME NEW x \in (Prompts \cup Notes) \ accepted
      PROVE  x \in Ids /\ Held(x) = 0 /\ x \notin dropped
  BY <1>1 DEF FreshIdentities, Ids, Settled, Finished, ToolsKept
<1>4. /\ IsSequence(notifications) /\ queue \in Seq(Prompts) /\ IsSequence(queue)
      /\ \A e : IsSequence(Append(notifications, e))
      /\ \A ids, x : Count(Append(notifications, User(ids)), x) = Count(notifications, x) + (IF x \in ids THEN 1 ELSE 0)
  <2>1. IsSequence(notifications)
    BY DEF Sequences
  <2>2. \A e : IsSequence(Append(notifications, e))
    BY <2>1, SequenceFacts
  <2>3. ASSUME NEW ids, NEW x
        PROVE  Count(Append(notifications, User(ids)), x) = Count(notifications, x) + (IF x \in ids THEN 1 ELSE 0)
    BY <2>1, CountUser
  <2> QED
    BY <2>2, <2>3, Zenon DEF Sequences
<1>5. ASSUME NEW p \in Prompts \ accepted, Submit(p) PROVE Accounts'
  <2>1. \A x : Held(x)' = Queued(Append(queue, p), x) + Count(notifications, x) + Count(turn.produced, x) + Count(messages, x)
    <3>1. UpdateContext(notifications, Append(queue, p), paused, background) /\ Append(queue, p) \in Seq(Prompts)
      BY <1>4, <1>5 DEF Submit
    <3> QED
      BY <1>4, <3>1, UpdateCounts
  <2>2. ASSUME NEW x PROVE Held(x)' = Held(x) + (IF x = p THEN 1 ELSE 0)
    <3>1. Queued(Append(queue, p), x) = Queued(queue, x) + (IF x = p THEN 1 ELSE 0)
      BY <1>4, CountStep
    <3> QED
      BY <2>1, <3>1, HeldFacts
  <2>3. dropped' = dropped /\ accepted' = accepted \cup {p}
    BY <1>5 DEF Submit
  <2>4. ASSUME NEW x \in Ids
        PROVE  \/ /\ Held(x)' = Held(x) /\ (x \in dropped' => x \in dropped) /\ (x \in accepted' => x \in accepted)
               \/ Held(x) = 0 /\ x \notin dropped' /\ x \in accepted' /\ Held(x)' = 1
    BY <1>1, <1>3, <2>2, <2>3
  <2> QED
    BY <1>2, <2>3, <2>4, AccountsMoved
<1>6. ASSUME NEW n \in Notes \ accepted, Notify(n) PROVE Accounts'
  <2>1. \A x : Held(x)' = Queued(queue, x) + Count(Append(notifications, User({n})), x) + Count(turn.produced, x) + Count(messages, x)
    <3>1. UpdateContext(Append(notifications, User({n})), queue, paused, background)
      BY <1>6 DEF Notify
    <3> QED
      BY <1>4, <3>1, UpdateCounts
  <2>2. ASSUME NEW x PROVE Held(x)' = Held(x) + (IF x = n THEN 1 ELSE 0)
    <3>1. Count(Append(notifications, User({n})), x) = Count(notifications, x) + (IF x \in {n} THEN 1 ELSE 0)
      BY <1>4
    <3> QED
      BY <2>1, <3>1, HeldFacts
  <2>3. dropped' = dropped /\ accepted' = accepted \cup {n}
    BY <1>6 DEF Notify
  <2>4. ASSUME NEW x \in Ids
        PROVE  \/ /\ Held(x)' = Held(x) /\ (x \in dropped' => x \in dropped) /\ (x \in accepted' => x \in accepted)
               \/ Held(x) = 0 /\ x \notin dropped' /\ x \in accepted' /\ Held(x)' = 1
    BY <1>1, <1>3, <2>2, <2>3
  <2> QED
    BY <1>2, <2>3, <2>4, AccountsMoved
<1>7. ASSUME NEW x \in Ids
      PROVE  Queued(queue, x) \in Nat /\ Queued(queue, x) = IF x \in Range(queue) THEN 1 ELSE 0
  BY <1>1, HeldFacts
<1>8. ASSUME NEW ids, Steer(ids) PROVE Accounts'
  <2> DEFINE steered == Range(queue) \cap ids
             rest == Without(queue, steered)
  <2>1. UNCHANGED <<dropped, accepted>>
    BY <1>8 DEF Steer
  <2>2. CASE steered = {}
    <3>1. UpdateContext(notifications, queue, paused, background)
      BY <1>8, <2>2 DEF Steer
    <3>2. \A x : Held(x)' = Held(x)
      BY <1>4, <3>1, UpdateCounts, HeldFacts
    <3> QED
      BY <1>2, <2>1, <3>2, AccountsMoved
  <2>3. CASE steered # {}
    <3>1. UpdateContext(Append(notifications, User(steered)), rest, paused, background)
      BY <1>8, <2>3 DEF Steer
    <3>2. rest \in Seq(Prompts) /\ \A x : Queued(rest, x) = IF x \in steered THEN 0 ELSE Queued(queue, x)
      BY QueueWithout
    <3> HIDE DEF rest
    <3>3. \A x : Held(x)' = Queued(rest, x) + Count(Append(notifications, User(steered)), x) + Count(turn.produced, x) + Count(messages, x)
      BY <1>4, <3>1, <3>2, UpdateCounts
    <3>4. ASSUME NEW x \in Ids PROVE Held(x)' = Held(x)
      <4>1. Count(Append(notifications, User(steered)), x) = Count(notifications, x) + (IF x \in steered THEN 1 ELSE 0)
        BY <1>4
      <4>2. Queued(rest, x) = IF x \in steered THEN 0 ELSE Queued(queue, x)
        BY <3>2
      <4>3. x \in steered => Queued(queue, x) = 1
        BY <1>7
      <4> HIDE DEF steered
      <4> QED
        BY <3>3, <4>1, <4>2, <4>3, HeldFacts
    <3> QED
      BY <1>2, <2>1, <3>4, AccountsMoved
  <2> QED
    BY <2>2, <2>3
<1>9. ASSUME NEW p, Cancel(p) PROVE Accounts'
  <2> DEFINE rest == Without(queue, {p})
  <2>1. UpdateContext(notifications, rest, paused, background) /\ accepted' = accepted
        /\ dropped' = dropped \cup ({p} \cap Range(queue))
    BY <1>9 DEF Cancel
  <2>2. rest \in Seq(Prompts) /\ \A x : Queued(rest, x) = IF x \in {p} THEN 0 ELSE Queued(queue, x)
    BY QueueWithout
  <2> HIDE DEF rest
  <2>3. \A x : Held(x)' = Queued(rest, x) + Count(notifications, x) + Count(turn.produced, x) + Count(messages, x)
    BY <1>4, <2>1, <2>2, UpdateCounts
  <2>4. ASSUME NEW x \in Ids
        PROVE  \/ /\ Held(x)' = Held(x) /\ (x \in dropped' => x \in dropped)
               \/ Held(x)' = 0 /\ x \in dropped' /\ x \notin dropped /\ Held(x) > 0
    <3>1. CASE x = p /\ x \in Range(queue)
      <4>1. Queued(queue, x) = 1 /\ Queued(rest, x) = 0
        BY <1>7, <2>2, <3>1
      <4> QED
        BY <1>1, <2>1, <2>3, <3>1, <4>1, HeldFacts
    <3>2. CASE x # p \/ x \notin Range(queue)
      <4>1. Queued(rest, x) = Queued(queue, x)
        BY <1>7, <2>2, <3>2
      <4> QED
        BY <2>1, <2>3, <3>2, <4>1, HeldFacts
    <3> QED
      BY <3>1, <3>2
  <2> QED
    BY <1>2, <2>1, <2>4, AccountsMoved
<1>10. CASE Retry
  <2>1. \A x : Held(x)' = Queued(queue, x) + Count(Append(notifications, User({})), x) + Count(turn.produced, x) + Count(messages, x)
    <3>1. UpdateContext(Append(notifications, User({})), queue, paused, background)
      BY <1>10 DEF Retry
    <3> QED
      BY <1>4, <3>1, UpdateCounts
  <2>2. ASSUME NEW x PROVE Held(x)' = Held(x)
    <3>1. Count(Append(notifications, User({})), x) = Count(notifications, x) + (IF x \in {} THEN 1 ELSE 0)
      BY <1>4
    <3> QED
      BY <2>1, <3>1, HeldFacts
  <2>3. UNCHANGED <<dropped, accepted>>
    BY <1>10 DEF Retry
  <2> QED
    BY <1>2, <2>2, <2>3, AccountsMoved
<1> QED
  BY <1>5, <1>6, <1>8, <1>9, <1>10

\* A step that holds what it held.
LEMMA AccountsHeld ==
  ASSUME Sequences, Accounts, BoxesEmpty, Finished' = Finished, UNCHANGED <<dropped, accepted>>,
         \A x \in Ids : Held(x)' = Held(x)
  PROVE  Accounts'
BY AccountsMoved

\* What the agent hands to a turn that drains is on its way.
LEMMA AccountsDrained ==
  ASSUME PairingOK, Sequences, Accounts, turnBox = << >>, Finished' = Finished, Drain
  PROVE  Accounts'
<1>1. UNCHANGED <<dropped, accepted, queue, messages, turn>>
  BY DEF Drain
<1>2. CASE state \notin Running
  <2>1. UNCHANGED <<turnBox, notifications>>
    BY <1>2 DEF Drain
  <2>2. \A x \in Ids : Held(x)' = Held(x)
    BY <1>1, <2>1 DEF Held
  <2> QED
    BY <1>1, <2>1, <2>2, AccountsHeld DEF BoxesEmpty
<1>3. CASE state \in Running
  <2>1. /\ turnBox' = Append(<< >>, [type |-> "turn.notify", messages |-> PendingEntries])
        /\ notifications' = << >>
    BY <1>3 DEF Drain
  <2>2. /\ turnBox' # << >> /\ Head(turnBox').type = "turn.notify"
        /\ Head(turnBox').messages = PendingEntries
    <3> HIDE DEF PendingEntries
    <3> QED
      BY <2>1
  <2>3. IsSequence(ReminderEntries) /\ \A i \in DOMAIN ReminderEntries : ReminderEntries[i].role # "user"
    <3>1. /\ DOMAIN reminders = 1 .. Len(reminders) /\ Len(reminders) \in Nat
          /\ DOMAIN ReminderEntries = DOMAIN reminders
      BY SequenceFacts DEF ReminderEntries, PairingOK
    <3>2. ReminderEntries \in [1 .. Len(reminders) -> {ReminderEntries[i] : i \in DOMAIN reminders}]
      BY <3>1 DEF ReminderEntries
    <3>3. IsSequence(ReminderEntries)
      BY <3>1, <3>2, SeqDef, SeqIsSequence
    <3>4. \A i \in DOMAIN ReminderEntries : ReminderEntries[i].role = "reminder"
      BY DEF ReminderEntries, ReminderEntry
    <3> QED
      BY <3>3, <3>4
  <2>4. ASSUME NEW x PROVE Count(PendingEntries, x) = Count(notifications, x) /\ Count(notifications, x) \in Nat
    <3>1. Count(ReminderEntries, x) = 0
      BY <2>3, NothingDelivered
    <3>2. Count(notifications \o ReminderEntries, x) = Count(notifications, x) + Count(ReminderEntries, x)
          /\ Count(notifications, x) \in Nat
      BY <2>3, CountConcat DEF Sequences
    <3> QED
      BY <3>1, <3>2 DEF PendingEntries
  <2>5. ASSUME NEW x \in Ids PROVE Held(x)' + Under(x)' = Held(x) + Under(x)
    <3>1. Under(x)' = Count(notifications, x) /\ Under(x) = 0
      BY <2>2, <2>4 DEF Under
    <3>2. Held(x)' = Queued(queue, x) + Count(<< >>, x) + Count(turn.produced, x) + Count(messages, x)
      BY <1>1, <2>1 DEF Held
    <3>3. Count(<< >>, x) = 0
      BY CountSmall
    <3> QED
      BY <3>1, <3>2, <3>3, HeldFacts
  <2> QED
    BY <1>1, <2>5, AccountsKept
<1> QED
  BY <1>2, <1>3

\* A turn that ends hands over what it produced, or loses it.
LEMMA AccountsEnded ==
  ASSUME Sequences, ContextKept, Accounts, turnBox = << >>, Finished' = Finished,
         NEW produced \in {turn.produced, << >>}, TurnEnds(produced)
  PROVE  Accounts'
<1>1. accepted' = accepted
  BY DEF TurnEnds
<1>2. CASE state \notin Running
  <2>1. UNCHANGED <<dropped, queue, notifications, messages, turn, turnBox>>
    BY <1>2 DEF TurnEnds
  <2>2. \A x \in Ids : Held(x)' = Held(x)
    BY <2>1 DEF Held
  <2> QED
    BY <1>1, <2>1, <2>2, AccountsHeld DEF BoxesEmpty
<1>3. CASE state \in Running
  <2>1. /\ Settle("ready", messages \o produced, stored \o produced, notifications, queue, paused, background)
        /\ dropped' = dropped \cup (Delivers(turn.produced) \ Delivers(produced))
        /\ turnBox' = << >>
    BY <1>3 DEF TurnEnds, ExitRunning
  <2>2. IsSequence(produced)
    BY EmptyFacts DEF Sequences
  <2>3. \A x : Held(x)' = Queued(queue, x) + Count(notifications, x) + Count(messages \o produced, x)
    <3>1. IsSequence(messages \o produced) /\ IsSequence(notifications) /\ queue \in Seq(Prompts)
      BY <2>2, ConcatFacts DEF Sequences
    <3> QED
      BY <2>1, <3>1, SettleCounts
  <2>4. ASSUME NEW x PROVE Count(messages \o produced, x) = Count(messages, x) + Count(produced, x)
    BY <2>2, CountConcat DEF Sequences
  <2>5. BoxesEmpty
    BY <2>1 DEF BoxesEmpty
  <2>6. CASE produced = turn.produced
    <3>1. dropped' = dropped
      BY <2>1, <2>6
    <3>2. ASSUME NEW x \in Ids PROVE Held(x)' = Held(x)
      BY <2>3, <2>4, <2>6, HeldFacts
    <3> QED
      BY <1>1, <2>5, <3>1, <3>2, AccountsHeld
  <2>7. CASE produced = << >>
    <3>1. Delivers(produced) = {}
      BY <2>7, EmptyFacts DEF Delivers
    <3>2. dropped' = dropped \cup Delivers(turn.produced)
      BY <2>1, <3>1
    <3>3. ASSUME NEW x \in Ids
          PROVE  \/ /\ Held(x)' = Held(x) /\ (x \in dropped' => x \in dropped) /\ (x \in accepted' => x \in accepted)
                 \/ Held(x)' = 0 /\ x \in dropped' /\ x \notin dropped /\ (Held(x) > 0 \/ x \notin Settled)
      <4>1. Count(produced, x) = 0
        BY <2>7, CountSmall
      <4>2. Held(x)' = Queued(queue, x) + Count(notifications, x) + Count(messages, x)
        BY <2>3, <2>4, <4>1, HeldFacts
      <4>3. CASE x \in Delivers(turn.produced)
        <5>1. Count(turn.produced, x) > 0 /\ Held(x) > 0
          BY <4>3, HeldFacts
        <5>2. Held(x) = 1 /\ x \notin dropped
          BY <5>1, HeldIsSettled
        <5> QED
          BY <3>2, <4>2, <4>3, <5>1, <5>2, HeldFacts
      <4>4. CASE x \notin Delivers(turn.produced)
        BY <1>1, <3>2, <4>2, <4>4, HeldFacts
      <4> QED
        BY <4>3, <4>4
    <3> QED
      BY <1>1, <2>5, <3>2, <3>3, AccountsMoved
  <2> QED
    BY <2>6, <2>7
<1> QED
  BY <1>2, <1>3

\* A closing machine drops what its turn produced.
LEMMA AccountsClosed ==
  ASSUME Sequences, Accounts, turnBox = << >>, Finished' = Finished, Close
  PROVE  Accounts'
<1>1. /\ UNCHANGED <<queue, notifications, messages, accepted>> /\ turnBox' = << >>
      /\ turn'.produced = << >> /\ dropped' = dropped \cup Delivers(turn.produced)
  BY TurnRecords DEF Close
<1>2. ASSUME NEW x \in Ids
      PROVE  \/ /\ Held(x)' = Held(x) /\ (x \in dropped' => x \in dropped) /\ (x \in accepted' => x \in accepted)
             \/ Held(x)' = 0 /\ x \in dropped' /\ x \notin dropped /\ (Held(x) > 0 \/ x \notin Settled)
  <2>1. Held(x)' = Queued(queue, x) + Count(notifications, x) + Count(<< >>, x) + Count(messages, x)
    BY <1>1 DEF Held
  <2>2. Count(<< >>, x) = 0
    BY CountSmall
  <2>3. CASE x \in Delivers(turn.produced)
    <3>1. Count(turn.produced, x) > 0 /\ Held(x) > 0
      BY <2>3, HeldFacts
    <3>2. Held(x) = 1 /\ x \notin dropped
      BY <3>1, HeldIsSettled
    <3> QED
      BY <1>1, <2>1, <2>2, <2>3, <3>1, <3>2, HeldFacts
  <2>4. CASE x \notin Delivers(turn.produced)
    BY <1>1, <2>1, <2>2, <2>4, HeldFacts
  <2> QED
    BY <2>3, <2>4
<1> QED
  BY <1>1, <1>2, AccountsMoved DEF BoxesEmpty

\* Inputs and reports that deliver nothing.
LEMMA AccountsIdled ==
  ASSUME Sequences, ContextKept, Accounts, turnBox = << >>, Finished' = Finished,
         \/ \E key : Remind(key)
         \/ Pause \/ Continue \/ StoreReady
         \/ \E ev : ev.type = "tool.aborted" /\ ToolReport(ev)
         \/ \E rest : AbortInput(rest) \/ \E calls : SpawnTools(calls, rest)
         \/ AbortTimeout
  PROVE  Accounts'
<1>1. ASSUME UNCHANGED <<dropped, accepted, queue, notifications, messages, turn>>, BoxesEmpty
      PROVE  Accounts'
  <2>1. \A x \in Ids : Held(x)' = Held(x)
    BY <1>1 DEF Held
  <2> QED
    BY <1>1, <2>1, AccountsHeld
<1>2. ASSUME NEW pz, UpdateContext(notifications, queue, pz, background), BoxesEmpty, UNCHANGED <<dropped, accepted>>
      PROVE  Accounts'
  <2>1. \A x : Held(x)' = Queued(queue, x) + Count(notifications, x) + Count(turn.produced, x) + Count(messages, x)
    BY <1>2, UpdateCounts DEF Sequences
  <2>2. \A x \in Ids : Held(x)' = Held(x)
    BY <2>1 DEF Held
  <2> QED
    BY <1>2, <2>2, AccountsHeld
<1>3. ASSUME NEW ev PROVE Append(turnBox, ev) = <<ev>> /\ Head(<<ev>>) = ev
  OBVIOUS
<1>4. ASSUME NEW ev, turnBox' = Append(turnBox, ev), ev.type # "turn.notify" PROVE BoxesEmpty
  BY <1>3, <1>4 DEF BoxesEmpty
<1>5. ASSUME turnBox' = turnBox PROVE BoxesEmpty
  BY <1>5 DEF BoxesEmpty
<1>6. CASE \E key : Remind(key)
  BY <1>1, <1>5, <1>6 DEF Remind, turnVars
<1>7. CASE Pause
  <2>1. BoxesEmpty
    BY <1>4, <1>5, <1>7 DEF Pause
  <2> QED
    BY <1>2, <1>7, <2>1 DEF Pause
<1>8. CASE Continue
  <2>1. BoxesEmpty /\ UNCHANGED <<dropped, accepted>>
    BY <1>4, <1>5, <1>8 DEF Continue
  <2>2. CASE ResumesChain /\ StartTurn(messages, stored, notifications, queue)
    <3>1. turn.produced = << >>
      BY <2>2 DEF ResumesChain, ContextKept, Idle, Running
    <3>2. ASSUME NEW x \in Ids PROVE Held(x)' = Held(x)
      <4>1. Held(x)' = Queued(queue, x) + Count(notifications, x) + Count(messages, x)
        BY <2>2, StartTurnCounts DEF Sequences
      <4>2. Count(turn.produced, x) = 0
        BY <3>1, CountSmall
      <4> QED
        BY <4>1, <4>2, HeldFacts
    <3> QED
      BY <2>1, <3>2, AccountsHeld
  <2>3. CASE UpdateContext(notifications, queue, FALSE, background)
    BY <1>2, <2>1, <2>3
  <2> QED
    BY <1>8, <2>2, <2>3 DEF Continue
<1>9. CASE StoreReady
  <2>1. BoxesEmpty /\ UNCHANGED <<dropped, accepted>>
    BY <1>5, <1>9 DEF StoreReady
  <2>2. CASE state = "restoring" /\ Settle("ready", stored, stored, notifications, queue, paused, background)
    <3>1. turn.produced = << >> /\ messages = << >> /\ \A x \in Ids : Count(stored, x) = 0
      BY <2>2 DEF ContextKept, Running
    <3>2. ASSUME NEW x \in Ids PROVE Held(x)' = Held(x)
      <4>1. Held(x)' = Queued(queue, x) + Count(notifications, x) + Count(stored, x)
        BY <2>2, SettleCounts DEF Sequences
      <4>2. Count(turn.produced, x) = 0 /\ Count(messages, x) = 0 /\ Count(stored, x) = 0
        BY <3>1, CountSmall
      <4> QED
        BY <4>1, <4>2, HeldFacts
    <3> QED
      BY <2>1, <3>2, AccountsHeld
  <2>3. CASE state # "restoring"
    BY <1>1, <1>9, <2>1, <2>3 DEF StoreReady
  <2> QED
    BY <1>9, <2>2, <2>3 DEF StoreReady
<1>10. CASE \E ev : ev.type = "tool.aborted" /\ ToolReport(ev)
  <2>1. PICK ev : ev.type = "tool.aborted" /\ ToolReport(ev)
    BY <1>10
  <2>2. UNCHANGED <<dropped, accepted, queue, notifications, messages, turn>>
        /\ (turnBox' = turnBox \/ turnBox' = Append(turnBox, ev))
    BY <2>1 DEF ToolReport, Completes
  <2> QED
    BY <1>1, <1>4, <1>5, <2>1, <2>2
<1>11. CASE \E rest : AbortInput(rest)
  <2>1. UNCHANGED <<dropped, accepted, queue, notifications, messages, turn>>
        /\ (turnBox' = turnBox \/ turnBox' = Append(turnBox, [type |-> "turn.abort"]))
    BY <1>11 DEF AbortInput
  <2> QED
    BY <1>1, <1>4, <1>5, <2>1
<1>12. CASE \E rest, calls : SpawnTools(calls, rest)
  BY <1>1, <1>5, <1>12 DEF SpawnTools, turnVars
<1>13. CASE AbortTimeout
  <2>1. UNCHANGED <<dropped, accepted, queue, notifications, messages, turn>>
        /\ turnBox' = Append(turnBox, [type |-> "turn.abort"])
    BY <1>13 DEF AbortTimeout, agentVars
  <2> QED
    BY <1>1, <1>4, <2>1
<1> QED
  BY <1>6, <1>7, <1>8, <1>9, <1>10, <1>11, <1>12, <1>13

\* The agent takes an event from its mailbox.
LEMMA AccountsReceived ==
  ASSUME FreshIdentities, StoreOK, PairingOK, InputsAreNew, Sequences, ContextKept, ToolsKept, Accounts,
         Finished' = Finished, AgentReceives
  PROVE  Accounts'
<1> DEFINE head == Head(agentBox)
<1>1. turnBox = << >> /\ agentBox # << >>
  BY DEF AgentReceives
<1>2. /\ head.type = "input.submit" => head.id \in Prompts \ accepted
      /\ head.type = "input.notify" => head.id \in Notes \ accepted
  <2>1. 1 \in DOMAIN agentBox /\ head = agentBox[1]
    BY <1>1, SequenceFacts DEF StoreOK, MailOK
  <2> QED
    BY <2>1 DEF InputsAreNew
<1> HIDE DEF head
<1>3. CASE \/ head.type = "input.submit" /\ Submit(head.id)
           \/ head.type = "input.notify" /\ Notify(head.id)
           \/ Retry
           \/ \E ids : Steer(ids)
           \/ \E p : Cancel(p)
  <2>1. turnBox' = << >>
    BY <1>1, <1>3 DEF Submit, Notify, Retry, Steer, Cancel
  <2>2. \/ \E p \in Prompts \ accepted : Submit(p)
        \/ \E n \in Notes \ accepted : Notify(n)
        \/ Retry
        \/ \E ids : Steer(ids)
        \/ \E p : Cancel(p)
    BY <1>2, <1>3
  <2> QED
    BY <1>1, <2>1, <2>2, AccountsQueued
<1>4. CASE \/ \E key : Remind(key)
           \/ Pause \/ Continue \/ StoreReady
           \/ head.type = "tool.aborted" /\ ToolReport(head)
           \/ \E rest : AbortInput(rest) \/ \E calls : SpawnTools(calls, rest)
  BY <1>1, <1>4, AccountsIdled
<1>5. CASE Close
  BY <1>1, <1>5, AccountsClosed
<1>6. CASE Drain
  BY <1>1, <1>6, AccountsDrained
<1>7. CASE TurnEnds(turn.produced) \/ TurnEnds(<< >>)
  BY <1>1, <1>7, AccountsEnded
<1> QED
  <2>1. \/ head.type = "input.submit" /\ Submit(head.id)
        \/ head.type = "input.notify" /\ Notify(head.id)
        \/ Retry
        \/ \E key : Remind(key)
        \/ \E ids : Steer(ids)
        \/ \E p : Cancel(p)
        \/ Pause \/ Continue \/ Close \/ Drain \/ StoreReady
        \/ TurnEnds(turn.produced) \/ TurnEnds(<< >>)
        \/ head.type = "tool.aborted" /\ ToolReport(head)
        \/ \E rest : AbortInput(rest) \/ \E calls : SpawnTools(calls, rest)
    BY DEF AgentReceives, head
  <2> QED
    BY <1>3, <1>4, <1>5, <1>6, <1>7, <2>1

\* A verdict lets the head of the queue into the history, or drops it.
LEMMA AccountsJudged ==
  ASSUME Sequences, ContextKept, Accounts, Finished' = Finished, NEW verdict, GateVerdict(verdict)
  PROVE  Accounts'
<1>1. turnBox = << >> /\ turnBox' = << >> /\ turn.produced = << >> /\ accepted' = accepted
  BY DEF GateVerdict, Quiet, ContextKept, Running
<1>2. BoxesEmpty
  BY <1>1 DEF BoxesEmpty
<1>3. \A x : Count(turn.produced, x) = 0
  BY <1>1, CountSmall
<1>4. CASE Settle("ready", messages, stored, notifications, queue, paused, background) /\ UNCHANGED dropped
  <2>1. \A x : Held(x)' = Queued(queue, x) + Count(notifications, x) + Count(messages, x)
    BY <1>4, SettleCounts DEF Sequences
  <2>2. \A x \in Ids : Held(x)' = Held(x)
    BY <1>3, <2>1, HeldFacts
  <2> QED
    BY <1>1, <1>2, <1>4, <2>2, AccountsHeld
<1>5. CASE StartTurn(messages, stored, notifications, queue) /\ UNCHANGED dropped
  <2>1. ASSUME NEW x \in Ids PROVE Held(x)' = Held(x)
    <3>1. Held(x)' = Queued(queue, x) + Count(notifications, x) + Count(messages, x)
      BY <1>5, StartTurnCounts DEF Sequences
    <3> QED
      BY <1>3, <3>1, HeldFacts
  <2> QED
    BY <1>1, <1>2, <1>5, <2>1, AccountsHeld
<1>6. CASE /\ ~VerdictIsStale
           /\ Settle("ready", messages, stored, notifications, Tail(queue), paused, background)
           /\ dropped' = dropped \cup {Head(queue)}
  <2>1. queue # << >> /\ Tail(queue) \in Seq(Prompts)
    BY <1>6 DEF VerdictIsStale, Sequences
  <2>2. \A x : Held(x)' = Queued(Tail(queue), x) + Count(notifications, x) + Count(messages, x)
    <3> DEFINE rest == Tail(queue)
    <3>1. /\ Settle("ready", messages, stored, notifications, rest, paused, background)
          /\ rest \in Seq(Prompts) /\ IsSequence(messages) /\ IsSequence(notifications)
      BY <1>6, <2>1 DEF Sequences
    <3> HIDE DEF rest
    <3>2. \A x : Held(x)' = Queued(rest, x) + Count(notifications, x) + Count(messages, x)
      BY <3>1, SettleCounts
    <3> QED
      BY <3>2 DEF rest
  <2>3. ASSUME NEW x \in Ids
        PROVE  \/ /\ Held(x)' = Held(x) /\ (x \in dropped' => x \in dropped) /\ (x \in accepted' => x \in accepted)
               \/ Held(x)' = 0 /\ x \in dropped' /\ x \notin dropped /\ (Held(x) > 0 \/ x \notin Settled)
    <3>1. Queued(queue, x) = (IF x = Head(queue) THEN 1 ELSE 0) + Queued(Tail(queue), x)
      BY <2>1, CountStep DEF Sequences
    <3>2. Queued(Tail(queue), x) \in Nat
      BY <2>1, SeqIsSequence, CountPositive
    <3>3. Held(x) = IF x \in Settled /\ x \notin dropped THEN 1 ELSE 0
      BY <1>1, HeldIsSettled
    <3>4. CASE x = Head(queue)
      <4>1. Held(x) > 0
        BY <1>3, <3>1, <3>2, <3>4, HeldFacts
      <4>2. Held(x) = 1 /\ x \notin dropped
        BY <3>3, <4>1
      <4>3. Held(x)' = 0
        BY <1>3, <2>2, <3>1, <3>2, <3>4, <4>2, HeldFacts
      <4> QED
        BY <1>6, <3>4, <4>2, <4>3
    <3>5. CASE x # Head(queue)
      <4>1. Held(x)' = Held(x)
        BY <1>3, <2>2, <3>1, <3>2, <3>5, HeldFacts
      <4> QED
        BY <1>1, <1>6, <3>5, <4>1
    <3> QED
      BY <3>4, <3>5
  <2> QED
    BY <1>1, <1>2, <1>6, <2>3, AccountsMoved
<1> QED
  BY <1>4, <1>5, <1>6 DEF GateVerdict

\* A reset keeps what the restored history delivers and what is queued.
LEMMA AccountsReset ==
  ASSUME FreshIdentities, StoreOK, ToolsOK, InputsAreNew, ToolsKept, Sequences, ContextKept, Accounts,
         Finished' = Finished, StoreReset
  PROVE  Accounts'
<1> DEFINE history == Head(resetTo)
           lost == Delivers(messages) \cup Delivers(notifications) \cup Delivers(turn.produced) \cup background
<1>1. turnBox = << >> /\ turnBox' = << >> /\ accepted' = accepted
  BY DEF StoreReset, Quiet
<1>2. resetTo # << >> /\ history = Head(resetTo)
  BY DEF StoreReset
<1>3. dropped' = dropped \cup (lost \ Delivers(history))
  BY <1>2 DEF StoreReset
<1>4. \A x : Held(x)' = Queued(queue, x) + Count(<< >>, x) + Count(history, x)
  <2>1. Settle("ready", history, stored, << >>, queue, paused, {})
    BY <1>2 DEF StoreReset
  <2> QED
    BY <1>2, <2>1, EmptyFacts, SettleCounts DEF Sequences
<1>5. ASSUME NEW x \in Ids PROVE Held(x)' = Queued(queue, x) + Count(history, x) /\ Count(history, x) <= Count(messages, x)
  <2>1. Count(<< >>, x) = 0
    BY CountSmall
  <2>2. Count(history, x) <= Count(messages, x)
    BY <1>2 DEF ContextKept
  <2> QED
    BY <1>4, <2>1, <2>2, HeldFacts
<1>8. ASSUME NEW x
      PROVE  Count(history, x) \in Nat /\ (Count(history, x) > 0 <=> x \in Delivers(history))
  BY <1>2, HeldFacts
<1> HIDE DEF history
<1>6. ASSUME NEW x \in Ids
      PROVE  \/ /\ Held(x)' = Held(x) /\ (x \in dropped' => x \in dropped) /\ (x \in accepted' => x \in accepted)
             \/ Held(x)' = 0 /\ x \in dropped' /\ x \notin dropped /\ (Held(x) > 0 \/ x \notin Settled)
  <2>1. Held(x) = IF x \in Settled /\ x \notin dropped THEN 1 ELSE 0
    BY <1>1, HeldIsSettled
  <2>2. CASE x \in dropped
    <3>1. Held(x) = 0
      BY <2>1, <2>2
    <3>2. Held(x)' = 0
      BY <1>5, <3>1, <1>8, HeldFacts
    <3> QED
      BY <1>1, <2>2, <3>1, <3>2
  <2>3. CASE x \notin dropped /\ x \in Delivers(history)
    <3>1. Held(x) \in {0, 1}
      BY <2>1
    <3>2. Held(x)' = Held(x)
      BY <1>5, <2>3, <3>1, <1>8, HeldFacts
    <3> QED
      BY <1>1, <1>3, <2>3, <3>2
  <2>4. CASE x \notin dropped /\ x \notin Delivers(history) /\ x \in Delivers(messages) \cup Delivers(notifications) \cup Delivers(turn.produced)
    <3>1. Held(x) \in {0, 1} /\ Count(history, x) = 0
      BY <2>1, <2>4, <1>8, HeldFacts
    <3>2. Held(x) = 1 /\ Queued(queue, x) = 0
      BY <2>4, <3>1, <1>8, HeldFacts
    <3>3. Held(x)' = 0
      BY <1>5, <3>1, <3>2
    <3> QED
      BY <1>3, <2>4, <3>2, <3>3
  <2>5. CASE x \notin dropped /\ x \notin Delivers(history) /\ x \in background
    <3>1. x \notin Settled /\ Held(x) = 0
      BY <1>1, <2>5, BackgroundIsUnsettled DEF ToolsOK
    <3>2. Held(x)' = 0
      BY <1>5, <3>1, <1>8, HeldFacts
    <3> QED
      BY <1>3, <2>5, <3>1, <3>2
  <2>6. CASE x \notin Delivers(history) /\ x \notin lost
    <3>1. Held(x)' = Held(x)
      BY <1>5, <2>6, <1>8, HeldFacts
    <3> QED
      BY <1>1, <1>3, <2>6, <3>1
  <2> QED
    BY <2>2, <2>3, <2>4, <2>5, <2>6
<1>7. BoxesEmpty /\ dropped \subseteq dropped'
  BY <1>1, <1>3 DEF BoxesEmpty
<1> QED
  BY <1>1, <1>6, <1>7, AccountsMoved

\* A call that completes in the background delivers its completion.
LEMMA AccountsGrown ==
  ASSUME Sequences, Accounts, BoxesEmpty, UNCHANGED <<dropped, accepted>>,
         \A x \in Ids : \/ Held(x)' = Held(x) /\ (x \in Settled' <=> x \in Settled)
                        \/ Held(x)' = Held(x) + 1 /\ x \notin Settled /\ x \in Settled'
  PROVE  Accounts'
<1> SUFFICES ASSUME NEW x \in Ids
             PROVE  Held(x)' + Under(x)' + Lost(x)' = IF x \in Settled' THEN 1 ELSE 0
  BY DEF Accounts, Ids
<1>1. Held(x) \in Nat /\ Held(x) = IF x \in Settled /\ x \notin dropped THEN 1 ELSE 0
  BY HeldIsSettled DEF BoxesEmpty
<1>2. Under(x)' = 0 /\ Lost(x)' = IF x \in dropped THEN 1 ELSE 0
  BY DEF Under, Lost, BoxesEmpty
<1>3. x \in dropped => x \in Settled
  BY DEF Settled
<1> QED
  BY <1>1, <1>2, <1>3

\* The actor of call t ends, and reports it with ev.
Ends(t, ev) ==
  /\ tool[t] \in LiveStates /\ detached' = detached
  /\ tool' = [tool EXCEPT ![t] = "succeeded"] \/ tool' = [tool EXCEPT ![t] = "failed"]
  /\ ev.type \in {"tool.done", "tool.failed"} /\ ev.tool = t /\ ToolReport(ev)

LEMMA AccountsReported ==
  ASSUME FreshIdentities, ToolsOK, InputsAreNew, ToolsKept, Sequences, ContextKept, Accounts, turnBox = << >>,
         NEW t \in ToolIds, NEW ev, Ends(t, ev)
  PROVE  Accounts'
<1>1. UNCHANGED <<dropped, accepted>>
  BY DEF Ends, ToolReport
<1>2. Finished' = Finished \cup ({t} \cap detached) /\ t \notin Finished
  <2>1. tool'[t] \in {"succeeded", "failed"} /\ \A y \in ToolIds \ {t} : tool'[y] = tool[y]
    BY AgentAssumption DEF Ends, ToolsOK
  <2> QED
    BY <2>1 DEF Finished, Ends, LiveStates, ToolsKept
<1>3. ASSUME NEW x \in Ids PROVE x \in Settled' <=> x \in Settled \/ (x = t /\ t \in detached)
  BY <1>1, <1>2 DEF Settled
<1>4. CASE t \in background /\ UpdateContext(Append(notifications, User({t})), queue, paused, background \ {t})
           /\ turnBox' = turnBox
  <2>1. t \in detached /\ t \notin Settled /\ Held(t) = 0
    BY <1>4, BackgroundIsUnsettled DEF ToolsOK, ToolsKept
  <2>2. \A x : Held(x)' = Queued(queue, x) + Count(Append(notifications, User({t})), x) + Count(turn.produced, x) + Count(messages, x)
    <3>1. IsSequence(Append(notifications, User({t})))
      BY SequenceFacts DEF Sequences
    <3> QED
      BY <1>4, <3>1, UpdateCounts DEF Sequences
  <2>3. ASSUME NEW x PROVE Held(x)' = Held(x) + (IF x = t THEN 1 ELSE 0)
    <3>1. IsSequence(notifications)
      BY DEF Sequences
    <3>2. Count(Append(notifications, User({t})), x) = Count(notifications, x) + (IF x \in {t} THEN 1 ELSE 0)
      BY <3>1, CountUser
    <3> QED
      BY <2>2, <3>2, HeldFacts
  <2>4. ASSUME NEW x \in Ids
        PROVE  \/ Held(x)' = Held(x) /\ (x \in Settled' <=> x \in Settled)
               \/ Held(x)' = Held(x) + 1 /\ x \notin Settled /\ x \in Settled'
    <3>1. CASE x = t
      BY <1>3, <2>1, <2>3, <3>1
    <3>2. CASE x # t
      BY <1>3, <2>3, <3>2, HeldFacts
    <3> QED
      BY <3>1, <3>2
  <2> QED
    BY <1>1, <1>4, <2>4, AccountsGrown DEF BoxesEmpty
<1>5. CASE t \notin background
  <2>1. UNCHANGED <<queue, notifications, messages, turn>> /\ (turnBox' = turnBox \/ turnBox' = Append(turnBox, ev))
    BY <1>5 DEF Ends, ToolReport, Completes
  <2>2. BoxesEmpty
    <3>1. Append(turnBox, ev) = <<ev>> /\ Head(<<ev>>) = ev
      OBVIOUS
    <3> QED
      BY <2>1, <3>1 DEF Ends, BoxesEmpty
  <2>3. t \in detached => t \in Settled
    BY <1>5 DEF Ends, ToolsKept, Settled
  <2>4. ASSUME NEW x \in Ids PROVE Held(x)' = Held(x) /\ (x \in Settled' <=> x \in Settled)
    BY <1>3, <2>1, <2>3 DEF Held
  <2> QED
    BY <1>1, <2>2, <2>4, AccountsGrown
<1>6. t \in background => UpdateContext(Append(notifications, User({t})), queue, paused, background \ {t}) /\ turnBox' = turnBox
  BY DEF Ends, ToolReport, Completes
<1> QED
  BY <1>4, <1>5, <1>6

LEMMA AccountsTooled ==
  ASSUME FreshIdentities, ToolsOK, InputsAreNew, ToolsKept, Sequences, ContextKept, Accounts,
         NEW t \in ToolIds, ToolStep(t)
  PROVE  Accounts'
<1>1. turnBox = << >> /\ tool \in [ToolCalls -> ToolStates] /\ t \in ToolCalls
  BY AgentAssumption DEF ToolStep, Quiet, ToolsOK
<1>2. ASSUME Finished' = Finished, UNCHANGED <<dropped, accepted, queue, notifications, messages, turn>>, BoxesEmpty
      PROVE  Accounts'
  <2>1. \A x \in Ids : Held(x)' = Held(x)
    BY <1>2 DEF Held
  <2> QED
    BY <1>2, <2>1, AccountsHeld
<1>3. ASSUME NEW ev, ev.type \in {"tool.detached", "tool.aborted"}, ToolReport(ev)
      PROVE  UNCHANGED <<dropped, accepted, queue, notifications, messages, turn>> /\ BoxesEmpty
  <2>1. UNCHANGED <<dropped, accepted, queue, notifications, messages, turn>>
        /\ (turnBox' = turnBox \/ turnBox' = Append(turnBox, ev))
    BY <1>3 DEF ToolReport, Completes
  <2>2. Append(turnBox, ev) = <<ev>> /\ Head(<<ev>>) = ev
    BY <1>1
  <2> QED
    BY <1>1, <1>3, <2>1, <2>2 DEF BoxesEmpty
<1>4. CASE (ToolPrepared(t) \/ ToolExecuted(t)) /\ UNCHANGED <<agentVars, turnVars>>
  <2>1. detached' = detached /\ \E s \in LiveStates : tool' = [tool EXCEPT ![t] = s] /\ tool[t] \in LiveStates
    BY <1>4 DEF ToolPrepared, ToolExecuted, LiveStates
  <2>2. \A y \in ToolIds : tool'[y] = tool[y] \/ {tool[y], tool'[y]} \subseteq LiveStates
    BY <1>1, <2>1, AgentAssumption
  <2>3. Finished' = Finished
    BY <2>1, <2>2 DEF Finished, ToolsKept, LiveStates
  <2> QED
    BY <1>1, <1>2, <1>4, <2>3 DEF agentVars, turnVars, BoxesEmpty
<1>5. CASE ToolDetaches(t) /\ ToolReport([type |-> "tool.detached", tool |-> t])
  <2>1. Finished' = Finished
    BY <1>1, <1>5 DEF ToolDetaches, Finished
  <2> QED
    BY <1>2, <1>3, <1>5, <2>1
<1>6. CASE ToolSucceeds(t) /\ ToolReport([type |-> "tool.done", tool |-> t])
  <2> DEFINE ev == [type |-> "tool.done", tool |-> t]
  <2>1. Ends(t, ev)
    BY <1>6 DEF ToolSucceeds, Ends, LiveStates
  <2> HIDE DEF ev
  <2> QED
    BY <1>1, <2>1, AccountsReported
<1>7. CASE ToolRejects(t) /\ t \in signalled /\ ToolReport([type |-> "tool.aborted", tool |-> t])
  <2>1. Finished' = Finished
    BY <1>1, <1>7 DEF ToolRejects, Finished
  <2> QED
    BY <1>2, <1>3, <1>7, <2>1
<1>8. CASE ToolRejects(t) /\ t \notin signalled /\ ToolReport([type |-> "tool.failed", tool |-> t])
  <2> DEFINE ev == [type |-> "tool.failed", tool |-> t]
  <2>1. Ends(t, ev)
    BY <1>8 DEF ToolRejects, Ends, LiveStates
  <2> HIDE DEF ev
  <2> QED
    BY <1>1, <2>1, AccountsReported
<1> QED
  BY <1>4, <1>5, <1>6, <1>7, <1>8 DEF ToolStep

LEMMA AccountsStep ==
  ASSUME FreshIdentities, StoreOK, ToolsOK, PairingOK, SignalsOK, SpawnsAreFresh, InputsAreNew, ToolsKept, Sequences,
         ContextKept, Accounts, [Next]_vars
  PROVE  Accounts'
<1>1. CASE \E t \in ToolIds : ToolStep(t)
  BY <1>1, AccountsTooled
<1>2. CASE ~ \E t \in ToolIds : ToolStep(t)
  <2>1. Finished' = Finished
    BY <1>2, FinishedKept DEF StoreOK
  <2>2. ASSUME UNCHANGED <<queue, notifications, messages, turn, turnBox, dropped, accepted>> PROVE Accounts'
    <3>1. \A x \in Ids : Held(x)' + Under(x)' = Held(x) + Under(x)
      BY <2>2 DEF Held, Under
    <3> QED
      BY <2>1, <2>2, <3>1, AccountsKept
  <2>3. CASE AgentReceives
    BY <2>1, <2>3, AccountsReceived
  <2>4. CASE TurnStep \/ LlmStep \/ TurnTimer
    <3>1. UNCHANGED <<queue, notifications, messages, dropped, accepted>>
      BY <2>4 DEF TurnStep, LlmStep, TurnTimer, agentVars
    <3>2. ASSUME NEW x \in Ids PROVE Held(x)' + Under(x)' = Held(x) + Under(x)
      <4>1. Under(x)' = 0 /\ Under(x) \in Nat /\ Count(turn'.produced, x) = Count(turn.produced, x) + Under(x)
        BY <2>4, TurnCounts
      <4>2. Held(x)' = Queued(queue, x) + Count(notifications, x) + Count(turn'.produced, x) + Count(messages, x)
        BY <3>1 DEF Held
      <4> QED
        BY <4>1, <4>2, HeldFacts
    <3> QED
      BY <2>1, <3>1, <3>2, AccountsKept
  <2>5. CASE SendInput \/ LoopSteps \/ ScopeLinked \/ LinkFails \/ Disposed \/ \E h : RequestReset(h) \/ RecoveryReset(h)
    BY <2>2, <2>5 DEF SendInput, LoopSteps, RecoveryRetries, RecoveryEnds, Send, ScopeLinked, LinkFails,
       Disposed, RequestReset, RecoveryReset, DispatchReset, agentVars, turnVars
  <2>6. CASE AbortTimeout
    BY <2>1, <2>6, AccountsIdled DEF AbortTimeout, Quiet
  <2>7. CASE StoreReset
    BY <2>1, <2>7, AccountsReset
  <2>8. CASE \E v \in {"allow", "block", "error"} : GateVerdict(v)
    BY <2>1, <2>8, AccountsJudged
  <2>9. CASE UNCHANGED vars
    BY <2>2, <2>9 DEF vars, agentVars, turnVars
  <2> QED
    BY <1>2, <2>3, <2>4, <2>5, <2>6, <2>7, <2>8, <2>9 DEF Next, LoopSteps
<1> QED
  BY <1>1, <1>2

----------------------------------------------------------------------------
(* Deliveries.                                                             *)

DeliveriesOK ==
  SignalsOK /\ SpawnsAreFresh /\ InputsAreNew /\ ToolsKept /\ ContextKept /\ Accounts

LEMMA DeliveriesInit ==
  ASSUME FreshIdentities, Init
  PROVE  DeliveriesOK
<1>1. /\ stored \in RestoredHistories /\ IsSequence(stored)
      /\ messages = << >> /\ queue = << >> /\ notifications = << >> /\ agentBox = << >> /\ turnBox = << >>
      /\ turn = NoTurn /\ state = "linking" /\ accepted = {} /\ dropped = {} /\ background = {} /\ resetTo = << >>
      /\ detached = {} /\ tool = [t \in ToolCalls |-> "none"]
  BY AgentAssumption DEF Init, ToolInit, IsHistory
<1>2. SignalsOK /\ SpawnsAreFresh /\ InputsAreNew
  BY <1>1, EmptyFacts, TurnRecords DEF SignalsOK, SpawnsAreFresh, InputsAreNew, Waits, TurnStates, Running
<1>3. ToolsKept
  BY <1>1, AgentAssumption DEF ToolsKept, LiveStates
<1>4. \A x \in Ids : Count(stored, x) = 0
  <2> TAKE x \in Ids
  <2>1. x \notin Delivers(stored)
    BY <1>1 DEF FreshIdentities
  <2> QED
    BY <1>1, <2>1, CountPositive
<1>5. ContextKept
  BY <1>1, <1>4, TurnRecords DEF ContextKept
<1>6. Accounts
  <2> SUFFICES ASSUME NEW x \in Ids
               PROVE  Held(x) + Under(x) + Lost(x) = IF x \in Settled THEN 1 ELSE 0
    BY DEF Accounts, Ids
  <2>1. Queued(queue, x) = 0 /\ Count(notifications, x) = 0 /\ Count(turn.produced, x) = 0 /\ Count(messages, x) = 0
    BY <1>1, CountSmall, TurnRecords
  <2>2. Under(x) = 0 /\ Lost(x) = 0 /\ x \notin Settled
    BY <1>1 DEF Under, Lost, Settled, Finished
  <2> QED
    BY <2>1, <2>2 DEF Held
<1> QED
  BY <1>2, <1>3, <1>5, <1>6 DEF DeliveriesOK

LEMMA DeliveriesStep ==
  ASSUME FreshIdentities, StoreOK, ToolsOK, PairingOK, DeliveriesOK, [Next]_vars
  PROVE  DeliveriesOK'
<1>1. Sequences /\ SignalsOK /\ SpawnsAreFresh /\ InputsAreNew /\ ToolsKept /\ ContextKept /\ Accounts
  BY SequencesAre DEF DeliveriesOK
<1>2. SignalsOK' /\ SpawnsAreFresh' /\ InputsAreNew'
  BY <1>1, SignalsStep DEF PairingOK, NotesPlain
<1>3. ToolsKept'
  BY <1>1, ToolsKeptStep
<1>4. ContextKept'
  BY <1>1, ContextKeptStep
<1>5. Accounts'
  BY <1>1, AccountsStep
<1> QED
  BY <1>2, <1>3, <1>4, <1>5 DEF DeliveriesOK

\* What is under way to the turn, as NothingLostOrRepeated counts it.
LEMMA UnderIsSent ==
  ASSUME PairingOK, SignalsOK, Sequences, Accounts, NEW x \in Ids
  PROVE  Places(x).sent = Under(x) /\ Under(x) \in Nat
<1> DEFINE sent == {i \in DOMAIN turnBox : turnBox[i].type = "turn.notify" /\ x \in Delivers(turnBox[i].messages)}
<1>1. Places(x).sent = Cardinality(sent)
  BY DEF Places
<1>2. CASE turnBox = << >> \/ Head(turnBox).type # "turn.notify"
  <2>1. \A i \in DOMAIN turnBox : turnBox # << >> /\ turnBox[i] = Head(turnBox)
    <3>1. DOMAIN << >> = {}
      BY EmptyFacts
    <3>2. DOMAIN <<Head(turnBox)>> = {1} /\ <<Head(turnBox)>>[1] = Head(turnBox)
      BY SingletonFacts
    <3> QED
      BY <3>1, <3>2 DEF SignalsOK
  <2>2. sent = {}
    BY <1>2, <2>1
  <2> QED
    BY <1>1, <1>2, <2>2, FS_EmptySet DEF Under
<1>3. CASE turnBox # << >> /\ Head(turnBox).type = "turn.notify"
  <2> DEFINE drained == Head(turnBox).messages
  <2>1. DOMAIN turnBox = {1} /\ turnBox[1] = Head(turnBox)
    BY <1>3, SingletonFacts DEF SignalsOK
  <2>2. IsSequence(drained)
    BY <1>3, <2>1 DEF PairingOK, NotesPlain, Plain
  <2>3. Under(x) = Count(drained, x)
    BY <1>3 DEF Under
  <2>4. sent = IF x \in Delivers(drained) THEN {1} ELSE {}
    BY <1>3, <2>1
  <2> HIDE DEF drained, sent
  <2>5. Count(drained, x) \in Nat /\ (Count(drained, x) > 0 <=> x \in Delivers(drained))
    BY <2>2, CountPositive
  <2>6. Count(drained, x) <= 1
    <3>1. Held(x) + Under(x) + Lost(x) = IF x \in Settled THEN 1 ELSE 0
      BY DEF Accounts
    <3>2. Held(x) \in Nat /\ Lost(x) \in Nat
      BY HeldFacts DEF Lost
    <3> QED
      BY <2>3, <2>5, <3>1, <3>2
  <2>7. Cardinality(sent) = IF x \in Delivers(drained) THEN 1 ELSE 0
    BY <2>4, FS_EmptySet, FS_Singleton
  <2> QED
    BY <1>1, <2>3, <2>5, <2>6, <2>7
<1> QED
  BY <1>2, <1>3

LEMMA AccountsBalance ==
  ASSUME PairingOK, SignalsOK, Sequences, Accounts, InputsAreNew, ToolsKept
  PROVE  NothingLostOrRepeated
<1>1. ASSUME NEW x \in Ids PROVE Copies(x) = IF x \in Settled THEN 1 ELSE 0
  <2>1. /\ Places(x).queued = Queued(queue, x) /\ Places(x).notified = Count(notifications, x)
        /\ Places(x).produced = Count(turn.produced, x) /\ Places(x).committed = Count(messages, x)
        /\ Places(x).dropped = Lost(x)
    BY DEF Places, Queued, At, Count, Lost
  <2>2. Places(x).sent = Under(x) /\ Under(x) \in Nat
    BY UnderIsSent
  <2>3. Copies(x) = Queued(queue, x) + Count(notifications, x) + Under(x) + Count(turn.produced, x) + Count(messages, x) + Lost(x)
    <3>1. Copies(x) = Places(x).queued + Places(x).notified + Places(x).sent + Places(x).produced + Places(x).committed + Places(x).dropped
      BY DEF Copies
    <3> QED
      BY <2>1, <2>2, <3>1
  <2>4. Lost(x) \in Nat /\ Held(x) + Under(x) + Lost(x) = IF x \in Settled THEN 1 ELSE 0
    BY DEF Lost, Accounts
  <2> QED
    BY <2>2, <2>3, <2>4, HeldFacts
<1>2. accepted \cup Finished \subseteq Ids /\ accepted \cup Finished \subseteq Settled
  BY DEF InputsAreNew, Finished, ToolsKept, Ids, Settled
<1> QED
  BY <1>1, <1>2 DEF NothingLostOrRepeated

\* All of it is inductive together.
AgentOK == ToolsOK /\ StoreOK /\ PairingOK /\ DeliveriesOK

LEMMA AgentInvariant ==
  ASSUME FreshIdentities
  PROVE  (Init => AgentOK) /\ (AgentOK /\ [Next]_vars => AgentOK')
<1>1. Init => AgentOK
  BY ToolsInit, StoreInit, PairingInit, DeliveriesInit DEF AgentOK
<1>2. ASSUME AgentOK, [Next]_vars PROVE AgentOK'
  <2>0. ToolsOK /\ StoreOK /\ PairingOK /\ DeliveriesOK
    BY <1>2 DEF AgentOK
  <2>1. ToolsOK'
    BY <1>2, <2>0, ToolsStep
  <2>2. StoreOK'
    BY <1>2, <2>0, MailStep, ResetIsAwaitedStep, ContextStep DEF StoreOK, ContextOK
  <2>3. PairingOK'
    BY <1>2, <2>0, <2>2, EndReportedOnceStep, NotesPlainStep, HistoriesStep, ResetPairedStep DEF PairingOK
  <2>4. DeliveriesOK'
    BY <1>2, <2>0, DeliveriesStep
  <2> QED
    BY <2>1, <2>2, <2>3, <2>4 DEF AgentOK
<1> QED
  BY <1>1, <1>2

\* Prompts, notifications and completions of background calls reach the
\* conversation once, whatever is queued, steered, drained, aborted or reset:
\* each that was received is in exactly one place or was dropped on purpose.
THEOREM DeliveredOnce ==
  ASSUME FreshIdentities
  PROVE  Spec => []NothingLostOrRepeated
<1>1. AgentOK => NothingLostOrRepeated
  BY SequencesAre, AccountsBalance DEF AgentOK, DeliveriesOK
<1> QED
  BY <1>1, AgentInvariant, PTL DEF Spec

----------------------------------------------------------------------------
(* The gate.                                                               *)

\* With a gate, an idle machine that settles with an empty queue takes its
\* notifications into the history; with prompts in the queue it takes nothing.
LEMMA GatedSettle ==
  ASSUME HasGate, NEW here, NEW msgs, NEW st, NEW notes, NEW q, NEW pz, NEW bg,
         IsSequence(msgs), IsSequence(notes), q \in Seq(Prompts), Settle(here, msgs, st, notes, q, pz, bg),
         NEW p \in Delivers(messages')
  PROVE  p \in Delivers(msgs) \/ (p \in Delivers(notes) /\ ~pz /\ q = << >>)
<1>1. CASE messages' = msgs
  BY <1>1
<1>2. CASE ~pz /\ ~(HasGate /\ q # << >>) /\ StartTurn(msgs, st, notes, q)
  <2>1. q = << >> /\ ~pz
    BY <1>2
  <2>2. messages' = msgs \o (notes \o << >>) /\ notes \o << >> = notes
    BY <1>2, <2>1, ConcatFacts, EmptyFacts DEF StartTurn
  <2>3. IsSequence(messages')
    BY <2>2, ConcatFacts
  <2>4. Count(messages', p) = Count(msgs, p) + Count(notes, p)
    BY <2>2, CountConcat
  <2> QED
    BY <2>1, <2>3, <2>4, CountPositive
<1> QED
  BY <1>1, <1>2 DEF Settle, StayAt

\* A prompt that waits in the queue is nowhere else.
LEMMA WaitingPromptIsQueued ==
  ASSUME FreshIdentities, Sequences, Accounts, turnBox = << >>, NEW p \in Prompts, p \in Range(queue)
  PROVE  /\ queue # << >>
         /\ p \notin Delivers(notifications) /\ p \notin Delivers(turn.produced) /\ p \notin Delivers(messages)
         /\ p \in Ids
<1>1. p \in Ids
  BY DEF Ids
<1>2. Held(p) \in {0, 1}
  BY <1>1, HeldIsSettled
<1>3. queue # << >>
  BY EmptyFacts DEF Range
<1> QED
  BY <1>1, <1>2, <1>3, HeldFacts

LEMMA GateStep ==
  ASSUME FreshIdentities, AgentOK, HasGate, [Next]_vars, NEW p \in Prompts, p \in Range(queue),
         p \in Delivers(messages'), p \notin Delivers(messages)
  PROVE  gateHead = p
<1>1. Sequences /\ ContextKept /\ Accounts
  BY SequencesAre DEF AgentOK, DeliveriesOK
<1>2. messages' # messages
  OBVIOUS
<1>3. ASSUME turnBox = << >>
      PROVE  /\ queue # << >> /\ p \in Ids
             /\ p \notin Delivers(notifications) /\ p \notin Delivers(turn.produced)
  BY <1>1, <1>3, WaitingPromptIsQueued
<1>4. ASSUME turnBox = << >>, NEW here, NEW msgs, NEW st, NEW pz, NEW bg, IsSequence(msgs),
             Settle(here, msgs, st, notifications, queue, pz, bg)
      PROVE  p \in Delivers(msgs)
  <2>1. IsSequence(notifications) /\ queue \in Seq(Prompts)
    BY <1>1 DEF Sequences
  <2> QED
    BY <1>3, <1>4, <2>1, GatedSettle
<1>5. ASSUME turnBox = << >>, NEW notes, NEW q, UpdateContext(notes, q, TRUE, background) PROVE FALSE
  BY <1>2, <1>5, UpdateEffect DEF Settles
<1>6. ASSUME turnBox = << >>, NEW notes, NEW q, NEW bg, UpdateContext(notes, q, paused, bg) PROVE FALSE
  <2>1. state \in {"ready", "waiting"} /\ ~paused
    BY <1>2, <1>6, UpdateEffect DEF Settles
  <2> QED
    BY <1>1, <1>3, <1>6, <2>1 DEF ContextKept
<1>7. ASSUME turnBox = << >>, UpdateContext(notifications, queue, FALSE, background) PROVE FALSE
  <2>1. Settle(state, messages, stored, notifications, queue, FALSE, background)
    BY <1>2, <1>7 DEF UpdateContext
  <2> QED
    BY <1>1, <1>4, <1>7, <2>1 DEF Sequences
<1>8. CASE AgentReceives
  <2>0. turnBox = << >>
    BY <1>8 DEF AgentReceives
  <2>1. CASE \E x : Submit(x) \/ Notify(x) \/ Retry \/ Steer(x) \/ Cancel(x)
    BY <1>2, <1>6, <2>0, <2>1 DEF Submit, Notify, Retry, Steer, Cancel
  <2>2. CASE Pause
    BY <1>5, <2>0, <2>2 DEF Pause
  <2>3. CASE Continue
    BY <1>3, <1>7, <2>0, <2>3 DEF Continue, ResumesChain
  <2>4. CASE StoreReady
    <3>1. state = "restoring" /\ Settle("ready", stored, stored, notifications, queue, paused, background)
      BY <1>2, <2>4 DEF StoreReady
    <3>2. p \in Delivers(stored)
      BY <1>1, <1>4, <2>0, <3>1 DEF Sequences
    <3>3. Count(stored, p) = 0
      BY <1>1, <1>3, <2>0, <3>1 DEF ContextKept
    <3> QED
      BY <1>1, <3>2, <3>3, HeldFacts
  <2>5. ASSUME NEW produced \in {turn.produced, << >>}, TurnEnds(produced) PROVE FALSE
    <3>1. Settle("ready", messages \o produced, stored \o produced, notifications, queue, paused, background)
      BY <1>2, <2>5 DEF TurnEnds
    <3>2. IsSequence(produced) /\ IsSequence(messages)
      BY <1>1, EmptyFacts DEF Sequences
    <3>3. IsSequence(messages \o produced)
      BY <3>2, ConcatFacts
    <3>4. p \in Delivers(messages \o produced)
      BY <1>4, <2>0, <3>1, <3>3
    <3>5. Count(messages \o produced, p) = Count(messages, p) + Count(produced, p)
      BY <3>2, CountConcat
    <3>6. Count(messages \o produced, p) > 0 /\ Count(messages, p) = 0
      BY <1>1, <3>3, <3>4, CountPositive, HeldFacts
    <3>7. Count(produced, p) = 0
      BY <1>1, <1>3, <2>0, CountSmall, HeldFacts
    <3> QED
      BY <3>5, <3>6, <3>7
  <2>6. CASE \E x : Remind(x) \/ \E rest : AbortInput(rest) \/ SpawnTools(x, rest)
    BY <1>2, <2>6 DEF Remind, AbortInput, SpawnTools
  <2>7. CASE Close \/ Drain
    BY <1>2, <2>7 DEF Close, Drain
  <2>8. CASE Head(agentBox).type = "tool.aborted" /\ ToolReport(Head(agentBox))
    BY <1>2, <2>8 DEF ToolReport, Completes
  <2> QED
    BY <1>8, <2>1, <2>2, <2>3, <2>4, <2>5, <2>6, <2>7, <2>8 DEF AgentReceives
<1>9. CASE TurnStep \/ SendInput \/ LoopSteps \/ LlmStep \/ TurnTimer \/ AbortTimeout \/ UNCHANGED vars
  BY <1>2, <1>9 DEF TurnStep, SendInput, LoopSteps, RecoveryRetries, RecoveryEnds, Send, LlmStep, TurnTimer,
     AbortTimeout, vars, agentVars
<1>10. CASE \E t \in ToolIds : ToolStep(t)
  BY <1>2, <1>6, <1>10 DEF ToolStep, Quiet, ToolReport, agentVars
<1>11. CASE ScopeLinked \/ LinkFails \/ Disposed \/ \E h : RequestReset(h) \/ RecoveryReset(h)
  BY <1>2, <1>11 DEF ScopeLinked, LinkFails, Disposed, RequestReset, RecoveryReset, DispatchReset
<1>12. CASE StoreReset
  <2>1. turnBox = << >> /\ resetTo # << >>
    BY <1>12 DEF StoreReset, Quiet
  <2>2. Settle("ready", Head(resetTo), stored, << >>, queue, paused, {})
    BY <1>12 DEF StoreReset
  <2>3. p \in Delivers(Head(resetTo))
    BY <1>1, <1>3, <2>1, <2>2, GatedSettle, EmptyFacts DEF Sequences
  <2>4. Count(Head(resetTo), p) <= Count(messages, p)
    BY <1>1, <1>3, <2>1 DEF ContextKept
  <2> QED
    BY <1>1, <2>1, <2>3, <2>4, HeldFacts
<1>13. CASE \E v \in {"allow", "block", "error"} : GateVerdict(v)
  <2>0. turnBox = << >>
    BY <1>13 DEF GateVerdict, Quiet
  <2>1. CASE Settle("ready", messages, stored, notifications, queue, paused, background)
    BY <1>1, <1>4, <2>0, <2>1 DEF Sequences
  <2>2. CASE ~VerdictIsStale /\ Settle("ready", messages, stored, notifications, Tail(queue), paused, background)
    <3> DEFINE rest == Tail(queue)
    <3>1. Settle("ready", messages, stored, notifications, rest, paused, background)
      BY <2>2
    <3>2. rest \in Seq(Prompts) /\ IsSequence(messages) /\ IsSequence(notifications)
      BY <1>1, <1>3, <2>0 DEF Sequences
    <3> HIDE DEF rest
    <3> QED
      BY <1>3, <2>0, <3>1, <3>2, GatedSettle
  <2>3. CASE ~VerdictIsStale /\ StartTurn(messages, stored, notifications, queue)
    <3>1. Head(queue) = gateHead
      BY <2>3 DEF VerdictIsStale
    <3>2. Count(messages', p) = Count(messages, p) + Count(notifications, p)
                                  + (IF queue # << >> /\ p = Head(queue) THEN 1 ELSE 0)
      BY <1>1, <2>3, StartTurnCounts DEF Sequences
    <3>3. Count(messages, p) = 0 /\ Count(notifications, p) = 0
      BY <1>1, <1>3, <2>0, HeldFacts
    <3>4. IsSequence(messages')
      <4>1. messages' = messages \o (notifications \o <<User({Head(queue)})>>)
        BY <1>3, <2>0, <2>3 DEF StartTurn
      <4>2. IsSequence(notifications \o <<User({Head(queue)})>>)
        BY <1>1, ConcatFacts, SingletonFacts DEF Sequences
      <4> QED
        BY <1>1, <4>1, <4>2, ConcatFacts DEF Sequences
    <3>5. Count(messages', p) > 0
      BY <3>4, CountPositive
    <3> QED
      BY <3>1, <3>2, <3>3, <3>5
  <2> QED
    BY <1>13, <2>1, <2>2, <2>3 DEF GateVerdict
<1> QED
  BY <1>8, <1>9, <1>10, <1>11, <1>12, <1>13 DEF Next, LoopSteps

\* A queued prompt enters the history only under a verdict given for it.
THEOREM GateIsPassed ==
  ASSUME FreshIdentities
  PROVE  Spec => PromptsPassTheGate
<1> DEFINE Passes == \A p \in Prompts :
              (HasGate /\ p \in Range(queue) /\ p \in Delivers(messages') \ Delivers(messages)) => gateHead = p
<1>1. AgentOK /\ [Next]_vars => Passes
  BY GateStep
<1> HIDE DEF Passes
<1>2. Spec => [][Passes]_vars
  BY <1>1, AgentInvariant, PTL DEF Spec
<1> QED
  BY <1>2 DEF PromptsPassTheGate, Passes

----------------------------------------------------------------------------
(* Types.                                                                  *)

States == {"linking", "restoring", "closing", "disposed"} \cup Idle \cup Running

AgentTypes == state \in States /\ paused \in BOOLEAN /\ gateHead \in Prompts \cup {Nobody}

TurnMoves == LlmStep \/ TurnTimer \/ TurnStep

LEMMA SettleTypes ==
  ASSUME NEW here \in {"ready", "waiting"}, NEW msgs, NEW st, NEW notes, NEW q \in Seq(Prompts), NEW pz \in BOOLEAN,
         NEW bg, Settle(here, msgs, st, notes, q, pz, bg)
  PROVE  AgentTypes' /\ turn' \in {NoTurn, FreshTurn}
<1>1. paused' \in BOOLEAN
  BY Zenon DEF Settle
<1>2. CASE StartTurn(msgs, st, notes, q)
  BY <1>1, <1>2, Zenon DEF StartTurn, AgentTypes, States, Running
<1>3. ASSUME NEW where \in Idle, NEW head \in Prompts \cup {Nobody}, StayAt(where, msgs, st, notes, q, head)
      PROVE  AgentTypes' /\ turn' \in {NoTurn, FreshTurn}
  <2>1. state' \in States /\ gateHead' \in Prompts \cup {Nobody} /\ turn' = NoTurn
    BY <1>3 DEF StayAt, States
  <2> QED
    BY <1>1, <2>1, Zenon DEF AgentTypes
<1>4. CASE q # << >> /\ StayAt("gating", msgs, st, notes, q, Head(q))
  <2>1. Head(q) \in Prompts
    BY <1>4
  <2> QED
    BY <1>3, <1>4, <2>1 DEF Idle
<1>5. CASE StayAt(IF here = "ready" /\ bg # {} THEN "waiting" ELSE here, msgs, st, notes, q, Nobody)
  BY <1>3, <1>5 DEF Idle
<1> QED
  BY <1>2, <1>4, <1>5, Zenon DEF Settle

LEMMA UpdateTypes ==
  ASSUME AgentTypes, NEW notes, NEW q \in Seq(Prompts), NEW pz \in BOOLEAN, NEW bg, UpdateContext(notes, q, pz, bg)
  PROVE  AgentTypes' /\ turn' \in {turn, NoTurn, FreshTurn}
<1>1. CASE state \in {"ready", "waiting"} /\ Settle(state, messages, stored, notes, q, pz, bg)
  BY <1>1, SettleTypes
<1>2. CASE UNCHANGED <<state, gateHead, turn>> /\ paused' = pz
  BY <1>2, Zenon DEF AgentTypes
<1> QED
  BY <1>1, <1>2 DEF UpdateContext

LEMMA AgentTypesStep ==
  ASSUME MailOK, InputsAreNew, Sequences, AgentTypes, [Next]_vars
  PROVE  AgentTypes' /\ (TurnMoves \/ turn' \in {turn, NoTurn, FreshTurn})
<1>1. ASSUME UNCHANGED <<paused, gateHead>> \/ (paused' = paused /\ gateHead' = Nobody), state' \in States
      PROVE  AgentTypes'
  BY <1>1, Zenon DEF AgentTypes
<1>2. queue \in Seq(Prompts) /\ paused \in BOOLEAN /\ TRUE \in BOOLEAN /\ FALSE \in BOOLEAN
  BY Zenon DEF Sequences, AgentTypes
<1>3. CASE AgentReceives
  <2> DEFINE head == Head(agentBox)
  <2>1. head.type = "input.submit" => head.id \in Prompts
    <3>1. 1 \in DOMAIN agentBox /\ head = agentBox[1]
      BY <1>3, SequenceFacts DEF MailOK, AgentReceives
    <3> QED
      BY <3>1 DEF InputsAreNew
  <2> HIDE DEF head
  <2>2. CASE head.type = "input.submit" /\ Submit(head.id)
    <3>1. Append(queue, head.id) \in Seq(Prompts)
      BY <1>2, <2>1, <2>2
    <3> QED
      BY <1>2, <2>2, <3>1, UpdateTypes DEF Submit
  <2>3. CASE \E x : Notify(x) \/ Retry
    BY <1>2, <2>3, UpdateTypes DEF Notify, Retry
  <2>4. CASE \E x : Steer(x) \/ Cancel(x)
    BY <1>2, <2>4, UpdateTypes, QueueWithout DEF Steer, Cancel
  <2>5. CASE Pause
    BY <1>2, <2>5, UpdateTypes DEF Pause
  <2>6. CASE Continue
    <3>1. CASE StartTurn(messages, stored, notifications, queue) /\ paused' = FALSE
      BY <3>1, Zenon DEF StartTurn, AgentTypes, States, Running
    <3>2. CASE UpdateContext(notifications, queue, FALSE, background)
      BY <1>2, <3>2, UpdateTypes
    <3> QED
      BY <2>6, <3>1, <3>2 DEF Continue
  <2>7. CASE StoreReady
    <3>1. CASE Settle("ready", stored, stored, notifications, queue, paused, background)
      BY <1>2, <3>1, SettleTypes
    <3>2. CASE UNCHANGED <<state, paused, gateHead, turn>>
      BY <1>1, <3>2 DEF AgentTypes
    <3> QED
      BY <2>7, <3>1, <3>2 DEF StoreReady
  <2>8. CASE \E produced : TurnEnds(produced)
    <3>1. CASE \E msgs, st : Settle("ready", msgs, st, notifications, queue, paused, background)
      BY <1>2, <3>1, SettleTypes
    <3>2. CASE UNCHANGED <<state, paused, gateHead, turn>>
      BY <1>1, <3>2 DEF AgentTypes
    <3> QED
      BY <2>8, <3>1, <3>2 DEF TurnEnds
  <2>9. CASE \E x : Remind(x) \/ Drain \/ \E rest : SpawnTools(x, rest)
    BY <1>1, <2>9 DEF Remind, Drain, SpawnTools, AgentTypes, turnVars
  <2>10. CASE \E rest : AbortInput(rest)
    BY <1>1, <2>10 DEF AbortInput, AgentTypes, States, Running
  <2>11. CASE Close
    BY <1>1, <2>11 DEF Close, States
  <2>12. CASE ToolReport(head) /\ head.type = "tool.aborted"
    BY <1>1, <2>12 DEF ToolReport, Completes, AgentTypes
  <2> QED
    BY <1>3, <2>2, <2>3, <2>4, <2>5, <2>6, <2>7, <2>8, <2>9, <2>10, <2>11, <2>12 DEF AgentReceives, head
<1>4. CASE TurnMoves \/ SendInput \/ LoopSteps \/ AbortTimeout \/ UNCHANGED vars
  BY <1>1, <1>4 DEF TurnMoves, TurnStep, SendInput, LoopSteps, RecoveryRetries, RecoveryEnds, Send, LlmStep,
     TurnTimer, AbortTimeout, vars, agentVars, turnVars, AgentTypes
<1>5. CASE \E t \in ToolIds : ToolStep(t)
  <2>1. CASE \E ev : ToolReport(ev)
    <3>1. CASE \E notes, bg : UpdateContext(notes, queue, paused, bg)
      BY <1>2, <3>1, UpdateTypes
    <3>2. CASE UNCHANGED <<state, paused, gateHead, turn>>
      BY <1>1, <3>2 DEF AgentTypes
    <3> QED
      BY <2>1, <3>1, <3>2 DEF ToolReport
  <2>2. CASE UNCHANGED <<agentVars, turnVars>>
    BY <1>1, <2>2 DEF agentVars, turnVars, AgentTypes
  <2> QED
    BY <1>5, <2>1, <2>2 DEF ToolStep
<1>6. CASE ScopeLinked \/ LinkFails \/ Disposed \/ \E h : RequestReset(h) \/ RecoveryReset(h)
  BY <1>1, <1>6 DEF ScopeLinked, LinkFails, Disposed, RequestReset, RecoveryReset, DispatchReset, turnVars,
     AgentTypes, States
<1>7. CASE StoreReset
  <2>1. \E msgs : Settle("ready", msgs, stored, << >>, queue, paused, {})
    BY <1>7 DEF StoreReset
  <2> QED
    BY <1>2, <2>1, SettleTypes
<1>8. CASE \E v \in {"allow", "block", "error"} : GateVerdict(v)
  <2>1. CASE \E q \in {queue, Tail(queue)} : Settle("ready", messages, stored, notifications, q, paused, background)
                                         /\ (q = queue \/ queue # << >>)
    <3>1. PICK q \in {queue, Tail(queue)} : Settle("ready", messages, stored, notifications, q, paused, background)
                                         /\ (q = queue \/ queue # << >>)
      BY <2>1
    <3>2. q \in Seq(Prompts)
      BY <1>2, <3>1
    <3> QED
      BY <1>2, <3>1, <3>2, SettleTypes
  <2>2. CASE StartTurn(messages, stored, notifications, queue) /\ paused' = paused
    BY <1>2, <2>2, Zenon DEF StartTurn, AgentTypes, States, Running
  <2> QED
    BY <1>8, <2>1, <2>2 DEF GateVerdict, VerdictIsStale
<1> QED
  BY <1>3, <1>4, <1>5, <1>6, <1>7, <1>8 DEF Next, TurnMoves, LoopSteps

\* A record of the turn that differs from the last in the fields named.
LEMMA TurnTypesStep ==
  ASSUME DOMAIN turn = DOMAIN NoTurn, TurnTypeOK, TurnMoves
  PROVE  TurnTypeOK'
<1> USE TurnFields
<1>1. ASSUME DOMAIN turn' = DOMAIN turn, turn'.paused \in BOOLEAN, UNCHANGED <<turn.steps, turn.attempt, turn.recoveries>>,
             turn'.state \in TurnStates, turn'.outcome \in {"none", "failed", "aborted", "error"},
             turn'.pending \in Seq(ToolIds)
      PROVE  TurnTypeOK'
  BY <1>1, Zenon DEF TurnTypeOK, TurnStates
<1>2. /\ turn.paused \in BOOLEAN /\ turn.state \in TurnStates /\ turn.pending \in Seq(ToolIds)
      /\ turn.outcome \in {"none", "failed", "aborted", "error"}
  BY Zenon DEF TurnTypeOK, TurnStates
<1>3. << >> \in Seq(ToolIds)
  OBVIOUS
<1>4. ASSUME NEW outcome \in {"none", "failed", "aborted"}, NEW produced, NEW signals, EndTurn(outcome, produced, signals)
      PROVE  TurnTypeOK'
  <2>1. /\ DOMAIN turn' = DOMAIN turn /\ turn'.paused = turn.paused
        /\ UNCHANGED <<turn.steps, turn.attempt, turn.recoveries>>
        /\ turn'.state = "final" /\ turn'.outcome = outcome /\ turn'.pending = << >>
    BY <1>4 DEF EndTurn
  <2>2. turn'.state \in TurnStates /\ turn'.outcome \in {"none", "failed", "aborted", "error"}
    BY <2>1 DEF TurnStates
  <2>3. turn'.paused \in BOOLEAN
    BY <1>2, <2>1, Zenon
  <2> QED
    BY <1>1, <1>3, <2>1, <2>2, <2>3, Zenon
<1>5. ASSUME UNCHANGED turn PROVE TurnTypeOK'
  BY <1>5 DEF TurnTypeOK
<1>6. CASE \E calls \in FreshCalls, r \in Reactions : LlmCallsTools(calls, r)
  <2>1. PICK calls \in FreshCalls, r \in Reactions : LlmCallsTools(calls, r)
    BY <1>6
  <2>2. calls \in Seq(ToolIds)
    <3>1. PICK ts \in SUBSET {t \in ToolIds : tool[t] = "none"} \ {{}} : calls \in SetToSeqs(ts)
      BY <2>1 DEF FreshCalls
    <3>2. calls \in [1 .. Cardinality(ts) -> ts] /\ ts \subseteq ToolIds
      BY <3>1 DEF SetToSeqs
    <3>3. Cardinality(ts) \in Nat
      BY <3>2, AgentAssumption, FS_Subset, FS_CardinalityType
    <3>4. calls \in Seq(ts)
      BY <3>2, <3>3, SeqDef
    <3> QED
      BY <3>2, <3>4, SeqMonotonic
  <2>3. turn' = [turn EXCEPT !.state = "acting", !.pending = calls, !.produced = Append(turn.produced, Assistant(calls))]
    BY <2>1 DEF LlmCallsTools
  <2>4. /\ DOMAIN turn' = DOMAIN turn /\ turn'.paused = turn.paused
        /\ UNCHANGED <<turn.steps, turn.attempt, turn.recoveries>>
        /\ turn'.state = "acting" /\ turn'.outcome = turn.outcome /\ turn'.pending = calls
    BY <2>3
  <2>5. turn'.paused \in BOOLEAN
    BY <1>2, <2>4, Zenon
  <2>6. turn'.state \in TurnStates
    BY <2>4 DEF TurnStates
  <2> QED
    BY <1>1, <1>2, <2>2, <2>4, <2>5, <2>6, Zenon
<1>7. CASE \/ BeforeStepFails \/ AbortGraceElapses \/ (TurnAborts /\ turn.state # "acting")
           \/ \E r \in Reactions : LlmAnswers(r) \/ LlmFails(r)
  BY <1>4, <1>7 DEF BeforeStepFails, AbortGraceElapses, LlmAnswers, LlmFails, TurnAborts
<1>9. CASE BeforeStepDone \/ RetryDelayElapses \/ TurnThrows \/ (TurnAborts /\ turn.state = "acting")
  <2>1. /\ DOMAIN turn' = DOMAIN turn /\ turn'.paused = turn.paused
        /\ UNCHANGED <<turn.steps, turn.attempt, turn.recoveries>>
        /\ turn'.state \in TurnStates /\ turn'.outcome \in {turn.outcome, "aborted", "error"} /\ turn'.pending = turn.pending
    BY <1>9 DEF BeforeStepDone, RetryDelayElapses, TurnThrows, TurnAborts, TurnStates
  <2>2. turn'.paused \in BOOLEAN
    BY <1>2, <2>1, Zenon
  <2>3. turn'.outcome \in {"none", "failed", "aborted", "error"} /\ turn'.pending \in Seq(ToolIds)
    BY <1>2, <2>1
  <2> QED
    BY <1>1, <2>1, <2>2, <2>3, Zenon
<1>10. CASE LlmFailureRecovered \/ LlmFailureRetried
  <2>1. /\ turn'.paused = turn.paused /\ turn'.steps = turn.steps
        /\ turn'.attempt \in {1, turn.attempt + 1} /\ (turn'.attempt # 1 => turn.attempt < MaxAttempts)
        /\ turn'.recoveries \in {turn.recoveries, turn.recoveries + 1} /\ (turn'.recoveries # turn.recoveries => turn.recoveries < MaxRecoveries)
        /\ turn'.state \in {turn.state, "retrying"} /\ turn'.outcome = turn.outcome /\ turn'.pending = turn.pending
    BY <1>10 DEF LlmFailureRecovered, LlmFailureRetried
  <2>2. turn'.paused \in BOOLEAN
    BY <1>2, <2>1, Zenon
  <2>3. turn'.attempt \in 1 .. MaxAttempts /\ turn'.recoveries \in 0 .. MaxRecoveries
    <3>1. turn.attempt \in 1 .. MaxAttempts /\ turn.recoveries \in 0 .. MaxRecoveries
      BY DEF TurnTypeOK
    <3> QED
      BY <2>1, <3>1, TurnAssumption
  <2>4. turn'.steps \in Nat \ {0} /\ (MaxSteps > 0 => turn'.steps <= MaxSteps)
    BY <2>1 DEF TurnTypeOK
  <2>5. turn'.state \in TurnStates /\ turn'.outcome \in {"none", "failed", "aborted", "error"} /\ turn'.pending \in Seq(ToolIds)
    BY <1>2, <2>1 DEF TurnStates
  <2> QED
    BY <2>2, <2>3, <2>4, <2>5, Zenon DEF TurnTypeOK, TurnStates
<1>11. CASE TurnPauses
  <2>1. /\ DOMAIN turn' = DOMAIN turn
        /\ UNCHANGED <<turn.steps, turn.attempt, turn.recoveries>>
        /\ turn'.state = turn.state /\ turn'.outcome = turn.outcome /\ turn'.pending = turn.pending
    BY <1>11 DEF TurnPauses
  <2>2. turn'.paused = TRUE \/ turn'.paused = FALSE
    <3>1. CASE turn' = [turn EXCEPT !.paused = TRUE]
      BY <3>1
    <3>2. CASE turn' = [turn EXCEPT !.paused = FALSE]
      BY <3>2
    <3> QED
      BY <1>11, <3>1, <3>2 DEF TurnPauses
  <2>3. turn'.paused \in BOOLEAN
    BY <2>2, Zenon
  <2> QED
    BY <1>1, <1>2, <2>1, <2>3, Zenon
<1>12. CASE TurnToolEvent
  <2>1. CASE \E outcomes : EndTurn("aborted", Collected(outcomes), << >>)
    BY <1>4, <2>1
  <2>2. CASE \E outcomes : \/ turn' = [turn EXCEPT !.outcomes = outcomes]
                           \/ turn' = [turn EXCEPT !.state = "draining", !.produced = Collected(outcomes),
                                                   !.pending = << >>, !.outcomes = NoOutcomes]
    <3>1. /\ DOMAIN turn' = DOMAIN turn /\ turn'.paused = turn.paused
          /\ UNCHANGED <<turn.steps, turn.attempt, turn.recoveries>>
          /\ turn'.state \in {turn.state, "draining"} /\ turn'.outcome = turn.outcome /\ turn'.pending \in {turn.pending, << >>}
      BY <2>2
    <3>2. turn'.paused \in BOOLEAN
      BY <1>2, <3>1, Zenon
    <3>3. turn'.pending \in Seq(ToolIds) /\ turn'.state \in TurnStates
      BY <1>2, <1>3, <3>1 DEF TurnStates
    <3> QED
      BY <1>1, <1>2, <3>1, <3>2, <3>3, Zenon
  <2> QED
    BY <1>12, <2>1, <2>2 DEF TurnToolEvent
<1>13. CASE TurnNotified
  <2> DEFINE drained == Head(turnBox).messages
  <2>1. CASE \E produced : EndTurn("none", produced, << >>) \/ EndTurn("failed", produced, << >>)
    BY <1>4, <2>1
  <2>2. CASE /\ drained # << >> \/ ~MaxStepsExceeded
             /\ turn' = [turn EXCEPT !.state = StepState, !.produced = turn.produced \o drained, !.attempt = 1,
                                     !.recoveries = 0, !.steps = IF drained # << >> THEN 1 ELSE turn.steps + 1]
    <3>1. /\ turn'.paused = turn.paused /\ turn'.steps = (IF drained # << >> THEN 1 ELSE turn.steps + 1)
          /\ turn'.attempt = 1 /\ turn'.recoveries = 0
          /\ turn'.state = StepState /\ turn'.outcome = turn.outcome /\ turn'.pending = turn.pending
      BY <2>2
    <3>2. turn'.paused \in BOOLEAN
      BY <1>2, <3>1, Zenon
    <3>3. turn'.attempt \in 1 .. MaxAttempts /\ turn'.recoveries \in 0 .. MaxRecoveries
      BY <3>1, TurnAssumption
    <3>4. turn'.steps \in Nat \ {0} /\ (MaxSteps > 0 => turn'.steps <= MaxSteps)
      <4>1. turn.steps \in Nat \ {0} /\ (MaxSteps > 0 => turn.steps <= MaxSteps)
        BY DEF TurnTypeOK
      <4> QED
        BY <2>2, <3>1, <4>1, TurnAssumption DEF MaxStepsExceeded
    <3>5. turn'.state \in TurnStates
      BY <3>1 DEF TurnStates, StepState
    <3> QED
      BY <1>2, <3>1, <3>2, <3>3, <3>4, <3>5, Zenon DEF TurnTypeOK, TurnStates
  <2> QED
    BY <1>13, <2>1, <2>2 DEF TurnNotified
<1>14. CASE TurnDrops
  BY <1>5, <1>14 DEF TurnDrops
<1>15. CASE LlmStep \/ TurnTimer
  <2>1. CASE BeforeStepFails \/ AbortGraceElapses \/ \E r \in Reactions : LlmAnswers(r) \/ LlmFails(r)
    BY <1>7, <2>1
  <2>2. CASE BeforeStepDone \/ RetryDelayElapses \/ TurnThrows
    BY <1>9, <2>2
  <2> QED
    BY <1>6, <1>10, <1>15, <2>1, <2>2, Zenon DEF LlmStep, TurnTimer
<1>16. CASE TurnStep
  BY <1>7, <1>9, <1>11, <1>12, <1>13, <1>14, <1>16 DEF TurnStep, TurnReceives
<1> QED
  BY <1>15, <1>16 DEF TurnMoves

LEMMA BoundsStep ==
  ASSUME MailOK, resets \in 0 .. MaxResets, signalled \subseteq ToolIds, [Next]_vars
  PROVE  resets' \in 0 .. MaxResets /\ signalled' \subseteq ToolIds
<1>1. ToolIds = ToolCalls /\ LiveTools \subseteq ToolIds /\ turnTools \subseteq ToolIds /\ MaxResets \in Nat
  BY AgentAssumption DEF LiveTools, MailOK
<1>2. resets' = resets \/ (resets' = resets + 1 /\ resets < MaxResets)
  BY DEF Next, vars, agentVars, AgentReceives, Submit, Notify, Retry, Remind, Steer, Cancel, Pause, Continue, Close, Drain,
     TurnEnds, StoreReady, ToolReport, AbortInput, SpawnTools, TurnStep, SendInput, LoopSteps, RecoveryRetries,
     RecoveryEnds, Send, ToolStep, LlmStep, TurnTimer,
     AbortTimeout, ScopeLinked, LinkFails, StoreReset, Disposed, GateVerdict, RequestReset, RecoveryReset,
     DispatchReset
<1>3. signalled' \subseteq signalled \cup turnTools \cup LiveTools \cup (IF agentBox # << >> /\ Head(agentBox).type = "turn.spawn_tools"
                                                                   THEN Range(Head(agentBox).calls) ELSE {})
  <2>1. CASE AgentReceives
    <3>1. CASE \E x : Submit(x) \/ Notify(x) \/ Retry \/ Remind(x) \/ Steer(x) \/ Cancel(x) \/ Pause \/ Continue \/ Drain \/ StoreReady
                      \/ (ToolReport(x) /\ UNCHANGED toolVars)
      BY <3>1 DEF Submit, Notify, Retry, Remind, Steer, Cancel, Pause, Continue, Drain, StoreReady, toolVars
    <3>2. CASE Close \/ \E produced : TurnEnds(produced)
      BY <3>2 DEF Close, TurnEnds, ExitRunning, StopTurnTools, toolVars
    <3>3. CASE \E rest : AbortInput(rest)
      BY <3>3 DEF AbortInput, AbortTools, StopTurnTools
    <3>4. CASE Head(agentBox).type = "turn.spawn_tools" /\ SpawnTools(Head(agentBox).calls, Tail(agentBox))
      BY <2>1, <3>4 DEF SpawnTools, AbortTools, AgentReceives
    <3> QED
      BY <2>1, <3>1, <3>2, <3>3, <3>4 DEF AgentReceives
  <2>2. CASE \E t \in ToolIds : ToolStep(t)
    BY <2>2 DEF ToolStep, ToolPrepared, ToolExecuted, ToolDetaches, ToolSucceeds, ToolRejects
  <2>3. CASE \/ TurnMoves \/ SendInput \/ LoopSteps \/ AbortTimeout \/ ScopeLinked \/ LinkFails \/ StoreReset \/ Disposed
             \/ UNCHANGED vars \/ \E v : GateVerdict(v) \/ \E h : RequestReset(h) \/ RecoveryReset(h)
    BY <2>3 DEF TurnMoves, TurnStep, SendInput, LoopSteps, RecoveryRetries, RecoveryEnds, Send, LlmStep,
       TurnTimer, AbortTimeout, StopTurnTools, ScopeLinked, LinkFails,
       StoreReset, Disposed, vars, GateVerdict, RequestReset, RecoveryReset, DispatchReset, toolVars
  <2> QED
    BY <2>1, <2>2, <2>3 DEF Next, TurnMoves, LoopSteps
<1>4. agentBox # << >> /\ Head(agentBox).type = "turn.spawn_tools" => Range(Head(agentBox).calls) \subseteq ToolIds
  BY <1>1, SequenceFacts DEF MailOK
<1> QED
  BY <1>1, <1>2, <1>3, <1>4

\* What the loop is about.
LoopTypes == recovery \in {"none", "handling", "resetting"} /\ overtaken \in BOOLEAN

LEMMA LoopTypesStep ==
  ASSUME LoopTypes, [Next]_vars
  PROVE  LoopTypes'
<1>1. /\ recovery' \in {recovery, "none", "handling", "resetting"}
      /\ overtaken' = overtaken \/ StoreReset
  BY DEF Next, vars, agentVars, loopVars, AgentReceives, Submit, Notify, Retry, Remind, Steer, Cancel, Pause, Continue,
     Close, Drain, TurnEnds, MayRecover, StoreReady, ToolReport, AbortInput, SpawnTools, TurnStep, SendInput,
     RecoveryRetries,
     RecoveryEnds, Send, ToolStep, LlmStep, TurnTimer, AbortTimeout, ScopeLinked, LinkFails, Disposed,
     StoreReset, GateVerdict, RequestReset, RecoveryReset, DispatchReset
<1>2. recovery' \in {"none", "handling", "resetting"}
  BY <1>1 DEF LoopTypes
<1>3. CASE StoreReset
  <2>1. overtaken' \in BOOLEAN
    BY <1>3, Zenon DEF StoreReset
  <2> QED
    BY <1>2, <2>1, Zenon DEF LoopTypes
<1>4. CASE overtaken' = overtaken
  BY <1>2, <1>4, Zenon DEF LoopTypes
<1> QED
  BY <1>1, <1>3, <1>4

TypesOK == AgentTypes /\ LoopTypes /\ TurnTypeOK /\ resets \in 0 .. MaxResets /\ signalled \subseteq ToolIds

\* A turn that is spawned, and one that is not there.
LEMMA TurnsAreTyped ==
  ASSUME turn' \in {NoTurn, FreshTurn}
  PROVE  TurnTypeOK'
<1>1. /\ turn'.steps = 1 /\ turn'.attempt = 1 /\ turn'.recoveries = 0 /\ turn'.paused = FALSE
      /\ turn'.state \in TurnStates /\ turn'.outcome = "none" /\ turn'.pending = << >>
  BY DEF NoTurn, FreshTurn, StepState, TurnStates
<1>2. /\ turn'.steps \in Nat \ {0} /\ (MaxSteps > 0 => turn'.steps <= MaxSteps)
      /\ turn'.attempt \in 1 .. MaxAttempts /\ turn'.recoveries \in 0 .. MaxRecoveries
      /\ turn'.pending \in Seq(ToolIds)
  BY <1>1, TurnAssumption
<1>3. turn'.paused \in BOOLEAN /\ turn'.outcome \in {"none", "failed", "aborted", "error"}
  BY <1>1, Zenon
<1> QED
  BY <1>1, <1>2, <1>3, Zenon DEF TurnTypeOK, TurnStates

LEMMA TypesInit == Init => TypesOK
<1> SUFFICES ASSUME Init PROVE TypesOK
  OBVIOUS
<1>1. AgentTypes
  BY Zenon DEF Init, AgentTypes, States
<1>2. TurnTypeOK
  <2>1. /\ turn.steps = 1 /\ turn.attempt = 1 /\ turn.recoveries = 0 /\ turn.paused = FALSE
        /\ turn.state = "none" /\ turn.outcome = "none" /\ turn.pending = << >>
    BY DEF Init, NoTurn, FreshTurn
  <2>2. /\ turn.steps \in Nat \ {0} /\ (MaxSteps > 0 => turn.steps <= MaxSteps)
        /\ turn.attempt \in 1 .. MaxAttempts /\ turn.recoveries \in 0 .. MaxRecoveries
        /\ turn.pending \in Seq(ToolIds)
    BY <2>1, TurnAssumption
  <2>3. turn.paused \in BOOLEAN /\ turn.outcome \in {"none", "failed", "aborted", "error"}
    BY <2>1, Zenon
  <2> QED
    BY <2>1, <2>2, <2>3, Zenon DEF TurnTypeOK
<1>3. LoopTypes
  BY Zenon DEF Init, LoopTypes
<1> QED
  BY <1>1, <1>2, <1>3, AgentAssumption DEF Init, ToolInit, TypesOK

LEMMA TypesStep ==
  ASSUME StoreOK, InputsAreNew, Sequences, TypesOK, [Next]_vars
  PROVE  TypesOK'
<1>1. MailOK /\ DOMAIN turn = DOMAIN NoTurn
  BY DEF StoreOK, ContextOK
<1>2. AgentTypes /\ TurnTypeOK /\ resets \in 0 .. MaxResets /\ signalled \subseteq ToolIds
  BY DEF TypesOK
<1>3. AgentTypes' /\ (TurnMoves \/ turn' \in {turn, NoTurn, FreshTurn})
  BY <1>1, <1>2, AgentTypesStep
<1>4. TurnTypeOK'
  <2>1. CASE turn' = turn
    BY <1>2, <2>1 DEF TurnTypeOK
  <2>2. CASE TurnMoves
    BY <1>1, <1>2, <2>2, TurnTypesStep
  <2>3. CASE turn' \in {NoTurn, FreshTurn}
    BY <2>3, TurnsAreTyped
  <2> QED
    BY <1>3, <2>1, <2>2, <2>3
<1>5. resets' \in 0 .. MaxResets /\ signalled' \subseteq ToolIds
  BY <1>1, <1>2, BoundsStep
<1>6. LoopTypes'
  BY LoopTypesStep DEF TypesOK
<1> QED
  BY <1>3, <1>4, <1>5, <1>6 DEF TypesOK

\* Types are respected, the bounds of a turn among them: it takes no more
\* steps, attempts and recoveries than it is allowed, whatever it is told.
THEOREM TypesAreKept ==
  ASSUME FreshIdentities
  PROVE  Spec => []TypeOK
<1>1. AgentOK /\ TypesOK /\ [Next]_vars => TypesOK'
  BY TypesStep, SequencesAre DEF AgentOK, DeliveriesOK
<1>2. AgentOK /\ TypesOK => TypeOK
  <2> SUFFICES ASSUME AgentOK, TypesOK PROVE TypeOK
    OBVIOUS
  <2>1. state \in {"linking", "restoring", "closing", "disposed"} \cup Idle \cup Running
    BY DEF TypesOK, AgentTypes, States
  <2>2. queue \in Seq(Prompts) /\ turnTools \subseteq ToolIds /\ background \subseteq ToolIds
    BY AgentAssumption DEF AgentOK, DeliveriesOK, ContextKept, StoreOK, MailOK, ToolsOK
  <2>3. paused \in BOOLEAN /\ gateHead \in Prompts \cup {Nobody} /\ resets \in 0 .. MaxResets /\ TurnTypeOK
    BY Zenon DEF TypesOK, AgentTypes
  <2>4. ToolTypeOK
    BY AgentAssumption DEF TypesOK, AgentOK, DeliveriesOK, ToolsKept, ToolsOK, ToolTypeOK
  <2>5. recovery \in {"none", "handling", "resetting"} /\ overtaken \in BOOLEAN
    BY Zenon DEF TypesOK, LoopTypes
  <2> QED
    BY <2>1, <2>2, <2>3, <2>4, <2>5, Zenon DEF TypeOK
<1> QED
  BY <1>1, <1>2, AgentInvariant, TypesInit, PTL DEF Spec

=============================================================================
