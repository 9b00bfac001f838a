---------------------------- MODULE ToolMachine ----------------------------
(***************************************************************************)
(* The tool machine (human/tool/machine.ts): one actor per tool call,      *)
(* preparing -> executing -> finishing -> succeeded | failed | aborted.    *)
(* The actor reports to the agent machine; the operators below give its    *)
(* own transition, and the agent's module adds what the report does there. *)
(***************************************************************************)
EXTENDS Naturals, FiniteSets

CONSTANT ToolCalls          \* tool call identities

VARIABLES tool,             \* state of the actor of each call
          signalled,        \* calls whose abort signal has fired
          detached          \* calls whose executor called detach()

toolVars == <<tool, signalled, detached>>

LiveStates == {"preparing", "executing", "finishing"}
ToolStates == LiveStates \cup {"none", "succeeded", "failed", "aborted", "stopped"}

LiveTools == {t \in ToolCalls : tool[t] \in LiveStates}

ToolInit ==
  /\ tool = [t \in ToolCalls |-> "none"]
  /\ signalled = {}
  /\ detached = {}

ToolTypeOK ==
  /\ tool \in [ToolCalls -> ToolStates]
  /\ signalled \subseteq ToolCalls
  /\ detached \subseteq ToolCalls

\* preparingActor resolves with `proceed`.
ToolPrepared(t) ==
  /\ tool[t] = "preparing"
  /\ tool' = [tool EXCEPT ![t] = "executing"]
  /\ UNCHANGED <<signalled, detached>>

\* The executor hands its call over to the background; only its first
\* detach() counts.
ToolDetaches(t) ==
  /\ tool[t] = "executing" /\ t \notin detached
  /\ detached' = detached \cup {t}
  /\ UNCHANGED <<tool, signalled>>

\* The executor resolves; the result is reported once finishingActor is done.
ToolExecuted(t) ==
  /\ tool[t] = "executing"
  /\ tool' = [tool EXCEPT ![t] = "finishing"]
  /\ UNCHANGED <<signalled, detached>>

ToolSucceeds(t) ==
  /\ tool[t] = "finishing"
  /\ tool' = [tool EXCEPT ![t] = "succeeded"]
  /\ UNCHANGED <<signalled, detached>>

\* The executor rejects: tool.aborted if its signal has fired, else
\* tool.failed.
ToolRejects(t) ==
  /\ tool[t] = "executing"
  /\ tool' = [tool EXCEPT ![t] = IF t \in signalled THEN "aborted" ELSE "failed"]
  /\ UNCHANGED <<signalled, detached>>

\* The agent spawns actors for the calls in ts.
Spawned(ts) == [t \in ToolCalls |-> IF t \in ts THEN "preparing" ELSE tool[t]]

\* tool.abort stops an actor that is still preparing (it reports
\* tool.aborted); one that executes only sees its signal.
Aborted(ts, state) ==
  [t \in ToolCalls |-> IF t \in ts /\ state[t] = "preparing" THEN "aborted" ELSE state[t]]

\* stopChild: the actor is gone and reports nothing more.
Stopped(ts, state) ==
  [t \in ToolCalls |-> IF t \in ts /\ state[t] \in LiveStates THEN "stopped" ELSE state[t]]
============================================================================
