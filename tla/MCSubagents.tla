----------------------------- MODULE MCSubagents -----------------------------
(***************************************************************************)
(* Subagents from two sides that share no state: their lives under the     *)
(* Agent tool and the cache, and a batch of them under the AgentSwarm      *)
(* tool.  A behaviour belongs to one of them, `part`; the other stays in   *)
(* its initial state.                                                      *)
(*                                                                         *)
(* The intervals of the batch keep the order of the real ones (0.7 s, 2 s, *)
(* 3 s, 180 s) but for the delay of a second retry, which here exceeds the *)
(* recovery interval as the seventh one does in the program.               *)
(***************************************************************************)
EXTENDS Naturals, Sequences, TLC

CONSTANTS NumTasks, InitialLaunchLimit, LaunchInterval, RetryBase, ShrinkInterval,
          RecoveryInterval, MaxConcurrency, MaxRateLimits,
          Ids, Capacity, MaxAttempts, MaxGens, MaxOps, MaxDrains

\* Limits and intervals of agentRunBatch.ts; no limit on concurrency is 0.
ASSUME BatchAssumption ==
  /\ {NumTasks, InitialLaunchLimit, MaxConcurrency, LaunchInterval, RetryBase, ShrinkInterval} \subseteq Nat
  /\ RecoveryInterval \in Nat \ {0}

\* A cache of capacity 0 is switched off; MAX_EVICT_ATTEMPTS is 3.
ASSUME LivesAssumption ==
  /\ {Capacity, MaxAttempts} \subseteq Nat \ {0}
  /\ {MaxGens, MaxOps} \subseteq Nat

VARIABLES part, b, events,
          gen, roster, sess, creating, meta, asks, ops, tasks, retired, shut, passes, ev, drains, odd

\* The second task resumes a subagent.
Swarm ==
  INSTANCE SwarmBatch WITH
    Resumes <- {2},
    Faults <- {"spawn", "vanish", "refused", "start", "error", "timeout", "user", "fail", "close"}
Lives == INSTANCE AgentLifecycle

----------------------------------------------------------------------------
swarmVars == <<b, events>>
lifeVars ==
  <<gen, roster, sess, creating, meta, asks, ops, tasks, retired, shut, passes, ev, drains, odd>>
vars == <<part, swarmVars, lifeVars>>

Init == part \in {"swarm", "lives"} /\ Swarm!Init /\ Lives!Init

Next ==
  \/ part = "swarm" /\ Swarm!Next /\ UNCHANGED <<part, lifeVars>>
  \/ part = "lives" /\ Lives!Next /\ UNCHANGED <<part, swarmVars>>

Spec == Init /\ [][Next]_vars

Symmetry == Permutations(Ids)

----------------------------------------------------------------------------
\* Every task of a batch is queued, under way or has its result, the queue is
\* never left without a wakeup, and the limit on attempts is kept until the
\* provider limits the rate (AgentRunBatch).
SwarmTasksKept == part = "swarm" =>
  /\ Swarm!TypeOK
  /\ Swarm!NoTaskLostOrRepeated
  /\ Swarm!NeverStalls
  /\ Swarm!LimitKeptInNormalMode

\* The parent hears of the end of every subagent of a batch, once, unless it is
\* closing by then (mirrorAgentRun, abandonSuspended, the launcher).
EverySubagentEnds == part = "swarm" => Swarm!AtMostOneEnd /\ Swarm!EverySubagentEnds

\* An agent has one journal writer and its own interactions, is announced and
\* taken leave of once, and roster, session table and cache agree on who lives
\* (AgentLifecycleService, SubagentScopeCacheService).
LivesAgree == part = "lives" =>
  /\ Lives!TypeOK
  /\ Lives!OneWriter
  /\ Lives!Attached
  /\ Lives!ClosedOnce
  /\ Lives!NothingLeft
  /\ Lives!CacheKnows
  /\ Lives!WithinCapacity

\* The cache never removes a subagent that runs, has a prompt waiting or has a
\* background task (SubagentScopeCacheService).
NeverCutShort == Lives!NeverCutShort
==============================================================================
