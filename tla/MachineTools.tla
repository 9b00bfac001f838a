---------------------------- MODULE MachineTools ----------------------------
(***************************************************************************)
(* createMachineTools (agent/loop/machine/tools.ts): the bridge between    *)
(* the tool actors of the agent machine, which each execute one call, and  *)
(* the tool executor, which runs the calls of a response as one batch with *)
(* one scheduler.  A call waits in `pending` until every expected call of  *)
(* its response is there; a call that arrives while another batch is in    *)
(* flight becomes a batch of its own.                                      *)
(*                                                                         *)
(* The agent machine and the engine are reduced to what they do to the     *)
(* bridge: llm.sent and llm.done begin a batch, the actors of a response   *)
(* call execute in any order, an abort fires the signals of all of them,   *)
(* and an aborted turn may be given up while its batch is still running.   *)
(* Call identities are fresh (toolCallIdNormalizer), so the branch for a   *)
(* duplicate identity is never taken.  A batch keeps the promise of        *)
(* ToolBatch: one result per call, then the end, or a failure.             *)
(***************************************************************************)
EXTENDS Naturals, FiniteSets

CONSTANTS Calls,        \* tool call identities; each names a tool of its own
          Known         \* the calls whose tool is registered from the start

VARIABLES phase,          \* "idle", "requesting", "acting" or "aborting"
          response,       \* the calls of the current response
          actor,          \* state of the tool actor of each call
          registered,     \* what toolInfos() returns
          definitions,    \* the tools that are materialized
          batching,       \* expectedIds is defined
          expected,       \* expectedIds
          pending,        \* calls waiting for their batch
          batches,        \* batches of the executor that have not ended
          batchInFlight,  \* the flag of that name
          started,        \* calls that were ever part of a batch
          outcome,        \* how the promise of each call was resolved
          disturbed       \* an earlier response's batch was still running
                          \* when a call of this response was executed

agentVars == <<phase, response, actor, registered>>
batchVars == <<batches, batchInFlight, started>>
vars == <<agentVars, definitions, batching, expected, pending, batchVars, outcome, disturbed>>

Outcomes == {"none", "result", "failed", "aborted", "unknown"}
Settled == {c \in Calls : outcome[c] # "none"}
Executing == {c \in Calls : actor[c] = "executing" /\ outcome[c] = "none"}

Init ==
  /\ phase = "idle" /\ response = {}
  /\ actor = [c \in Calls |-> "none"]
  /\ registered = Known /\ definitions = {}
  /\ batching = FALSE /\ expected = {} /\ pending = {}
  /\ batches = {} /\ batchInFlight = FALSE /\ started = {}
  /\ outcome = [c \in Calls |-> "none"]
  /\ disturbed = FALSE

TypeOK ==
  /\ phase \in {"idle", "requesting", "acting", "aborting"}
  /\ actor \in [Calls -> {"none", "preparing", "executing", "gone"}]
  /\ response \subseteq Calls /\ expected \subseteq response
  /\ definitions \subseteq registered /\ registered \subseteq Calls
  /\ batches \subseteq SUBSET started /\ {} \notin batches
  /\ \A a, b \in batches : a = b \/ a \cap b = {}
  /\ pending \cap started = {} /\ pending \cap Settled = {}
  /\ outcome \in [Calls -> Outcomes]
  /\ batching \in BOOLEAN /\ batchInFlight \in BOOLEAN /\ disturbed \in BOOLEAN

----------------------------------------------------------------------------
(* Operators of the bridge.                                                *)

Settle(cs, how) == [c \in Calls |-> IF c \in cs THEN how ELSE outcome[c]]

StartBatch(b) ==
  /\ batches' = batches \cup {b}
  /\ batchInFlight' = TRUE
  /\ started' = started \cup b

\* Mutant: a batch starts as soon as one of its calls has arrived.
ReadyIfAny(exp, pend) == ~batchInFlight /\ exp \cap pend # {}

\* The condition of flushIfReady (a batch of no call is not started).
Ready(exp, pend) == ~batchInFlight /\ exp \subseteq pend /\ exp # {}

\* flushIfReady, with the new values of expectedIds and pending.
FlushIfReady(exp, pend) ==
  IF Ready(exp, pend)
  THEN pending' = pend \ exp /\ StartBatch(exp \cap pend)
  ELSE pending' = pend /\ UNCHANGED batchVars

----------------------------------------------------------------------------
(* The engine and the agent machine.                                       *)

\* A tool appears (an MCP server connects, a skill is loaded).
Register(c) ==
  /\ c \notin registered
  /\ registered' = registered \cup {c}
  /\ UNCHANGED <<phase, response, actor, definitions, batching, expected, pending,
                 batchVars, outcome, disturbed>>

\* submit, steer, notify and remind call sync().
Sync ==
  /\ definitions # registered
  /\ definitions' = registered
  /\ UNCHANGED <<agentVars, batching, expected, pending, batchVars, outcome, disturbed>>

\* llm.sent: beginBatch() settles what an earlier response left behind.
LlmSent ==
  /\ phase = "idle"
  /\ phase' = "requesting"
  /\ definitions' = registered
  /\ batching' = FALSE /\ expected' = {}
  /\ pending' = {} /\ outcome' = Settle(pending, "aborted")
  /\ response' = {} /\ disturbed' = FALSE
  /\ UNCHANGED <<actor, registered, batchVars>>

\* llm.done: beginBatch(toolCalls) expects the calls whose tool is defined;
\* then the agent spawns an actor for each call.
LlmDone(cs) ==
  /\ phase = "requesting"
  /\ cs # {} /\ \A c \in cs : actor[c] = "none"
  /\ phase' = "acting" /\ response' = cs
  /\ actor' = [c \in Calls |-> IF c \in cs THEN "preparing" ELSE actor[c]]
  /\ definitions' = registered
  /\ batching' = TRUE /\ expected' = cs \cap registered
  /\ FlushIfReady(cs \cap registered, pending)
  /\ UNCHANGED <<registered, outcome, disturbed>>

Aborting(cs) ==
  /\ actor' = [c \in Calls |-> IF c \in cs /\ actor[c] = "preparing" THEN "gone" ELSE actor[c]]
  /\ UNCHANGED <<response, registered, definitions, batching, expected, batchVars, disturbed>>

\* What the abort listeners of the calls cs settle: those that wait, and with
\* them everything else that waits.
AbortSettles(cs) == IF cs \cap pending = {} THEN {} ELSE pending

\* input.abort: tool.abort removes the actors that are still preparing; the
\* signals fire for the others.  A second abort, the turn's grace or the
\* abort timeout ends the turn.
Abort ==
  /\ phase = "acting"
  /\ phase' = "aborting"
  /\ Aborting(response)
  /\ pending' = pending \ AbortSettles(response)
  /\ outcome' = Settle(AbortSettles(response), "aborted")

GiveUp ==
  /\ phase = "aborting"
  /\ phase' = "idle"
  /\ UNCHANGED <<response, actor, registered, definitions, batching, expected, pending,
                 batchVars, outcome, disturbed>>

\* Every call of the response has its result.
Answered ==
  /\ phase \in {"acting", "aborting"}
  /\ \A c \in response : actor[c] = "gone" \/ c \in Settled
  /\ phase' = "idle"
  /\ UNCHANGED <<response, actor, registered, definitions, batching, expected, pending,
                 batchVars, outcome, disturbed>>

----------------------------------------------------------------------------
(* The calls.                                                              *)

\* executor.execute for a tool that is not defined.
ExecuteUnknown(c) ==
  /\ actor[c] = "preparing" /\ c \notin registered
  /\ actor' = [actor EXCEPT ![c] = "executing"]
  /\ definitions' = registered
  /\ outcome' = Settle({c}, "unknown")
  /\ UNCHANGED <<phase, response, registered, batching, expected, pending, batchVars, disturbed>>

\* execute: a batch of its own, or a place in `pending`.
Execute(c) ==
  /\ actor[c] = "preparing" /\ c \in registered
  /\ actor' = [actor EXCEPT ![c] = "executing"]
  /\ definitions' = registered
  /\ IF ~batching \/ batchInFlight
     THEN StartBatch({c}) /\ UNCHANGED pending
     ELSE FlushIfReady(expected, pending \cup {c})
  /\ disturbed' = (disturbed \/ \E b \in batches : b \cap response = {})
  /\ UNCHANGED <<phase, response, registered, batching, expected, outcome>>

\* The executor yields the result of a call.
Yield(b, c) ==
  /\ c \in b \ Settled
  /\ outcome' = Settle({c}, "result")
  /\ UNCHANGED <<agentVars, definitions, batching, expected, pending, batchVars, disturbed>>

\* Mutant: an executor that throws leaves the remaining calls unsettled.
SettleRemainingOnEnd(b, fails) == {}

\* settleRemaining
SettleRemaining(b, fails) == b \ Settled

\* The executor's stream ends, or throws; any end clears the flag.
BatchEnds(b, fails) ==
  /\ fails \/ b \subseteq Settled
  /\ outcome' = Settle(SettleRemaining(b, fails), "failed")
  /\ batches' = batches \ {b}
  /\ batchInFlight' = FALSE
  /\ UNCHANGED <<agentVars, definitions, batching, expected, pending, started, disturbed>>

BatchStep(b) == (\E c \in b : Yield(b, c)) \/ (\E fails \in BOOLEAN : BatchEnds(b, fails))

Next ==
  \/ \E c \in Calls : Register(c)
  \/ Sync
  \/ LlmSent
  \/ \E cs \in SUBSET Calls : LlmDone(cs)
  \/ Abort
  \/ GiveUp
  \/ Answered
  \/ \E c \in Calls : ExecuteUnknown(c)
  \/ \E c \in Calls : Execute(c)
  \/ \E b \in batches : \E c \in b : Yield(b, c)
  \/ \E b \in batches, fails \in BOOLEAN : BatchEnds(b, fails)

\* Actors leave `preparing` by themselves.  A batch whose signal has fired
\* ends: the executor stops waiting for its tools after the abort grace.
Fairness ==
  /\ \A c \in Calls : WF_vars(Execute(c) \/ ExecuteUnknown(c))
  /\ \A b \in SUBSET Calls : WF_vars(b \in batches /\ ~(b \subseteq response /\ phase = "acting") /\ BatchStep(b))

Spec == Init /\ [][Next]_vars /\ Fairness

----------------------------------------------------------------------------
(* Properties.                                                             *)

\* Unless an earlier batch is still in the way, the expected calls of a
\* response run as one batch, under one scheduler: nothing else gives them
\* the executor's exclusion, order and stopBatch.
ResponseRunsAsOneBatch ==
  ~disturbed => \A b \in batches : b \cap expected # {} => b = expected

\* An expected call waits only for calls of its response that have yet to
\* arrive, never for one that already runs or has gone; again unless an
\* earlier batch was in the way.
PendingCallsAwaitSiblings ==
  phase = "acting" /\ ~disturbed /\ pending \cap expected # {} =>
    \E c \in expected : actor[c] = "preparing"

\* A call that was answered with "aborted before execution" never ran.
AbortedCallsNeverRan == \A c \in started : outcome[c] # "aborted"

\* The promise of the bridge to the executor and to the agent.
ResponseIsOneBatch ==
  TypeOK /\ ResponseRunsAsOneBatch /\ PendingCallsAwaitSiblings /\ AbortedCallsNeverRan

\* After an abort every call that was handed to the bridge is answered, in
\* whatever state the bridge had put it.
AbortSettlesEveryCall ==
  \A c \in Calls : (phase = "aborting" /\ c \in Executing) ~> c \in Settled
=============================================================================
