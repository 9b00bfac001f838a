---------------------------- MODULE TurnMachine ----------------------------
(***************************************************************************)
(* The turn machine (human/agent/turn.ts): one exchange with the model,    *)
(* from the first request to the answer without tool calls.                *)
(*                                                                         *)
(*   gating -> thinking -> acting -> draining -> gating ...                *)
(*               |  ^         |                                            *)
(*            retrying     aborting          every state -> final          *)
(*                                                                         *)
(* The turn is an actor: it takes one event at a time from turnBox, and    *)
(* what it signals to its parent, the agent machine, goes to agentBox.     *)
(* An LLM answer, a timer or a resolved promise reaches it only when no    *)
(* event is being processed (Quiet); a listener of the events emitted      *)
(* during such a step may call the engine at once, so the step may put     *)
(* the inputs of one of Reactions into agentBox ahead of its own signals.  *)
(***************************************************************************)
EXTENDS History

CONSTANTS ToolIds,        \* tool call identities
          MaxSteps,       \* maxStepsPerTurn; 0: no limit
          MaxAttempts,    \* resolveMaxAttempts: requests per step
          MaxRecoveries,  \* recovery strategies that can apply within a step
          HasBeforeStep,  \* is onBeforeStep configured?
          Reactions       \* inputs a listener may send from within an emission

\* What the callers of the engine may send to the agent.
Inputs == {"input.submit", "input.notify", "input.remind", "input.steer", "input.cancel",
           "input.pause", "input.continue", "input.abort", "input.close"}

ASSUME TurnAssumption ==
  /\ MaxSteps \in Nat
  /\ MaxAttempts \in Nat \ {0}
  /\ MaxRecoveries \in Nat
  /\ HasBeforeStep \in BOOLEAN
  /\ \A r \in Reactions : IsSequence(r) /\ \A i \in DOMAIN r : r[i].type \in Inputs

VARIABLES turn,      \* context and state of the turn actor
          turnBox,   \* its mailbox
          agentBox   \* the mailbox of the agent machine

turnVars == <<turn, turnBox>>

NoOutcomes == [t \in ToolIds |-> "none"]

StepState == IF HasBeforeStep THEN "gating" ELSE "thinking"

FreshTurn ==
  [state |-> StepState, produced |-> << >>, pending |-> << >>, outcomes |-> NoOutcomes,
   steps |-> 1, attempt |-> 1, recoveries |-> 0, paused |-> FALSE, outcome |-> "none"]

NoTurn == [FreshTurn EXCEPT !.state = "none"]

Quiet == turnBox = << >> /\ agentBox = << >>

----------------------------------------------------------------------------
(* Building blocks.                                                        *)

\* A final state is entered: the output is reported to the agent as
\* xstate.done.actor.turn, after whatever else the step signalled.
EndTurn(outcome, produced, signals) ==
  /\ turn' = [turn EXCEPT !.state = "final", !.outcome = outcome, !.produced = produced,
                          !.pending = << >>, !.outcomes = NoOutcomes]
  /\ agentBox' = agentBox \o signals \o <<[type |-> "turn.done"]>>

\* abortOutcomes: a call without an outcome counts as aborted.
AbortOutcomes ==
  [t \in ToolIds |-> IF turn.outcomes[t] = "none" THEN "aborted" ELSE turn.outcomes[t]]

\* collectToolOutcomes
Collected(outcomes) == turn.produced \o ToolResults(turn.pending, outcomes)

\* Mutant: the limit is compared after one step too many.
MaxStepsExceededLate == MaxSteps > 0 /\ turn.steps > MaxSteps

MaxStepsExceeded == MaxSteps > 0 /\ turn.steps >= MaxSteps

----------------------------------------------------------------------------
(* Events from the model, timers and hooks.                                *)

\* onBeforeStep resolves, or rejects and the turn is simply over.
BeforeStepDone ==
  /\ Quiet /\ turn.state = "gating"
  /\ turn' = [turn EXCEPT !.state = "thinking"]
  /\ UNCHANGED <<turnBox, agentBox>>

BeforeStepFails ==
  /\ Quiet /\ turn.state = "gating"
  /\ EndTurn("none", turn.produced, << >>)
  /\ UNCHANGED turnBox

\* llm.done with tool calls: they become pending and the agent is asked to
\* spawn them.
LlmCallsTools(calls, reaction) ==
  /\ Quiet /\ turn.state = "thinking" /\ calls # << >>
  /\ turn' = [turn EXCEPT !.state = "acting", !.pending = calls,
                          !.produced = Append(@, Assistant(calls))]
  /\ agentBox' = reaction \o <<[type |-> "turn.spawn_tools", calls |-> calls]>>
  /\ UNCHANGED turnBox

\* llm.done without tool calls ends the turn.
LlmAnswers(reaction) ==
  /\ Quiet /\ turn.state = "thinking"
  /\ EndTurn("none", Append(turn.produced, Assistant(<< >>)), reaction)
  /\ UNCHANGED turnBox

\* turn.failure.evaluated with a recovery proposal: thinking is re-entered.
LlmFailureRecovered ==
  /\ Quiet /\ turn.state = "thinking" /\ turn.recoveries < MaxRecoveries
  /\ turn' = [turn EXCEPT !.recoveries = @ + 1, !.attempt = 1]
  /\ UNCHANGED <<turnBox, agentBox>>

\* turn.failure.evaluated with a retryable error and attempts left.
LlmFailureRetried ==
  /\ Quiet /\ turn.state = "thinking" /\ turn.attempt < MaxAttempts
  /\ turn' = [turn EXCEPT !.state = "retrying", !.attempt = @ + 1]
  /\ UNCHANGED <<turnBox, agentBox>>

RetryDelayElapses ==
  /\ Quiet /\ turn.state = "retrying"
  /\ turn' = [turn EXCEPT !.state = "thinking"]
  /\ UNCHANGED <<turnBox, agentBox>>

\* A syntax error, an error of the request actor, an error that is neither
\* recoverable nor retryable, or one that used up the attempts.
LlmFails(reaction) ==
  /\ Quiet /\ turn.state = "thinking"
  /\ EndTurn("failed", turn.produced, reaction)
  /\ UNCHANGED turnBox

\* The recovery strategy throws while a failure is evaluated: the actor
\* itself errors and its output is lost.
TurnThrows ==
  /\ Quiet /\ turn.state = "thinking"
  /\ turn' = [turn EXCEPT !.state = "final", !.outcome = "error"]
  /\ agentBox' = <<[type |-> "turn.error"]>>
  /\ UNCHANGED turnBox

\* Mutant: the turn ends without an outcome for the calls it gave up on.
AbortGraceForgetsCalls ==
  /\ Quiet /\ turn.state = "acting.aborting"
  /\ EndTurn("aborted", turn.produced, << >>)
  /\ UNCHANGED turnBox

\* The grace period of acting.aborting is over.
AbortGraceElapses ==
  /\ Quiet /\ turn.state = "acting.aborting"
  /\ EndTurn("aborted", Collected(AbortOutcomes), << >>)
  /\ UNCHANGED turnBox

----------------------------------------------------------------------------
(* Events from the agent, taken from turnBox.                              *)

Receive(type) == turnBox # << >> /\ Head(turnBox).type = type /\ turnBox' = Tail(turnBox)

TurnPauses ==
  /\ turn.state \notin {"none", "final"}
  /\ \/ Receive("turn.pause") /\ turn' = [turn EXCEPT !.paused = TRUE]
     \/ Receive("turn.continue") /\ turn' = [turn EXCEPT !.paused = FALSE]
  /\ UNCHANGED agentBox

\* Mutant: no abort while the turn waits for onBeforeStep.
AbortableExceptGating == {"thinking", "retrying", "acting", "acting.aborting", "draining"}

\* The states with a handler for turn.abort.
Abortable == {"gating", "thinking", "retrying", "acting", "acting.aborting", "draining"}

\* turn.abort.  While the model streams, the non-empty part of its message is
\* salvaged without its tool calls; while tools run, the turn waits for their
\* outcomes and a second abort gives up on them.
TurnAborts ==
  /\ turn.state \in Abortable
  /\ Receive("turn.abort")
  /\ \/ /\ turn.state \in {"gating", "retrying", "draining"}
        /\ EndTurn("aborted", turn.produced, << >>)
     \/ /\ turn.state = "thinking"
        /\ \E salvaged \in {<< >>, <<Assistant(<< >>)>>} :
              EndTurn("aborted", turn.produced \o salvaged, << >>)
     \/ /\ turn.state = "acting"
        /\ turn' = [turn EXCEPT !.state = "acting.aborting", !.outcome = "aborted"]
        /\ UNCHANGED agentBox
     \/ /\ turn.state = "acting.aborting"
        /\ EndTurn("aborted", Collected(AbortOutcomes), << >>)

ToolOutcomes ==
  [type \in {"tool.done", "tool.failed", "tool.aborted", "tool.detached"} |->
     CASE type = "tool.done" -> "succeeded"
       [] type = "tool.failed" -> "failed"
       [] type = "tool.aborted" -> "aborted"
       [] type = "tool.detached" -> "running async"]

\* A tool outcome is recorded (a detached tool is acknowledged, unless it has
\* an outcome already) and, once every call has one, acting is left.
TurnToolEvent ==
  /\ turn.state \in {"acting", "acting.aborting"}
  /\ \E type \in DOMAIN ToolOutcomes :
       /\ Receive(type)
       /\ LET t == Head(turnBox).tool
              keep == type = "tool.detached" /\ turn.outcomes[t] # "none"
              outcomes == IF keep THEN turn.outcomes
                          ELSE [turn.outcomes EXCEPT ![t] = ToolOutcomes[type]]
              all == \A i \in DOMAIN turn.pending : outcomes[turn.pending[i]] # "none"
          IN \/ /\ ~all
                /\ turn' = [turn EXCEPT !.outcomes = outcomes]
                /\ UNCHANGED agentBox
             \/ /\ all /\ turn.outcome = "aborted"
                /\ EndTurn("aborted", Collected(outcomes), << >>)
             \/ /\ all /\ turn.outcome # "aborted"
                /\ turn' = [turn EXCEPT !.state = "draining", !.produced = Collected(outcomes),
                                        !.pending = << >>, !.outcomes = NoOutcomes]
                /\ agentBox' = Append(agentBox, [type |-> "turn.drain"])

\* turn.notify: the agent's answer to turn.drain.
TurnNotified ==
  /\ turn.state = "draining"
  /\ Receive("turn.notify")
  /\ LET drained == Head(turnBox).messages
         produced == turn.produced \o drained
     IN \/ /\ turn.paused
           /\ EndTurn("none", produced, << >>)
        \/ /\ ~turn.paused /\ drained = << >> /\ MaxStepsExceeded
           /\ EndTurn("failed", turn.produced, << >>)
        \/ /\ ~turn.paused /\ (drained # << >> \/ ~MaxStepsExceeded)
           /\ turn' = [turn EXCEPT !.state = StepState, !.produced = produced, !.attempt = 1,
                                   !.recoveries = 0,
                                   !.steps = IF drained # << >> THEN 1 ELSE @ + 1]
           /\ UNCHANGED agentBox

\* The event types that the current state handles.
Handles(type) ==
  \/ type \in {"turn.pause", "turn.continue"} /\ turn.state \notin {"none", "final"}
  \/ type = "turn.abort" /\ turn.state \in Abortable
  \/ type = "turn.notify" /\ turn.state = "draining"
  \/ type \in DOMAIN ToolOutcomes /\ turn.state \in {"acting", "acting.aborting"}

\* Any other event, and any event to a stopped actor, is dropped.
TurnDrops ==
  /\ turnBox # << >>
  /\ ~Handles(Head(turnBox).type)
  /\ turnBox' = Tail(turnBox)
  /\ UNCHANGED <<turn, agentBox>>

TurnReceives == TurnPauses \/ TurnAborts \/ TurnToolEvent \/ TurnNotified \/ TurnDrops

TurnTypeOK ==
  /\ turn.state \in {"none", "gating", "thinking", "retrying", "acting", "acting.aborting",
                     "draining", "final"}
  /\ turn.steps \in Nat \ {0} /\ (MaxSteps > 0 => turn.steps <= MaxSteps)
  /\ turn.attempt \in 1 .. MaxAttempts
  /\ turn.recoveries \in 0 .. MaxRecoveries
  /\ turn.paused \in BOOLEAN
  /\ turn.outcome \in {"none", "failed", "aborted", "error"}
  /\ turn.pending \in Seq(ToolIds)
============================================================================
