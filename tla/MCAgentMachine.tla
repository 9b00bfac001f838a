--------------------------- MODULE MCAgentMachine ---------------------------
(* Small instances of AgentMachine.                                         *)
EXTENDS AgentMachine

CONSTANTS p1, p2, t1, t2, n1, k1, old, oldCall

\* A journal that was left inside a tool chain (the turn was paused), and an
\* empty one.
MCRestoredHistories ==
  { << >>, <<User({old}), Assistant(<<oldCall>>), ToolResult(oldCall, "succeeded")>> }

EmptyHistory == { << >> }

\* A listener may do nothing, or abort or pause at once.
MCReactions == { << >>, <<[type |-> "input.abort"]>>, <<[type |-> "input.pause"]>> }

ASSUME IdentityAssumption == FreshIdentities

Symmetry == Permutations({t1, t2}) \cup Permutations({p1, p2})
============================================================================
