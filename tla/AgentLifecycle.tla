--------------------------- MODULE AgentLifecycle --------------------------
(***************************************************************************)
(* The subagents of a session: AgentLifecycleService                       *)
(* (session/agentLifecycle) with the session machine's table of agents     *)
(* (human/session/machine.ts), the cache that evicts finished subagents    *)
(* (session/subagent/subagentScopeCacheService.ts) and the Agent tool that *)
(* spawns and resumes them (agent/tools/agent/agentTool.ts).               *)
(*                                                                         *)
(* A generation is one life of an agent id: a scope with its journal       *)
(* writer, the promise that builds it, and its agent machine (ready stands *)
(* for every state between linking and closing).  An await is a step       *)
(* boundary; a removal that waits for its machine goes on in a microtask,  *)
(* before the next I/O or timer (Settled).                                 *)
(***************************************************************************)
EXTENDS Naturals, FiniteSets, SequencesExt

CONSTANTS Ids,         \* agent ids
          Capacity,    \* KIMI_CODE_SUBAGENT_SCOPE_CACHE_SIZE
          MaxAttempts, \* MAX_EVICT_ATTEMPTS
          MaxGens, MaxOps, MaxDrains  \* bounds: generations, tool calls, removals by a closing session

Gens == 1 .. MaxGens
Ops == 1 .. MaxOps
Building == {"seal", "register", "restore", "boot"}

VARIABLES
  gen,      \* gen[g]: id, build, mach, scope, closing, removal, created, closes
  roster,   \* roster[id]: the managed generation, 0 when there is none
  sess,     \* sess[id]: the generation in the session machine's table, 0 when there is none
  creating, \* creating[id]: the call whose creation others join, 0 when there is none
  meta,     \* ids in the session metadata
  asks,     \* asks[id]: the generation whose interactions are attached, 0 when there is none
  ops,      \* ops[o]: id, place pc, generation g, spawn
  tasks,    \* generations with a background task that outlived its turn
  retired,  \* retired: sequence of [id, tries], oldest first
  shut,     \* closing of the cache: ids between onWillClose and onDidClose
  passes,   \* passes of evictOverflow that wait for their turn
  ev,       \* the running pass: pc, id, tries, g, skipped; putOff of the last one
  drains,   \* removals by a closing session so far
  odd       \* history: "orphan", "stray", "flaky"

lvars == <<roster, sess, creating, meta, asks>>
cvars == <<retired, shut, passes>>
vars == <<gen, lvars, ops, tasks, cvars, ev, drains, odd>>

NoGen == [id |-> "none", build |-> "none", mach |-> "none", scope |-> "none", closing |-> FALSE,
          removal |-> "none", created |-> FALSE, closes |-> 0]
NoOp == [id |-> "none", pc |-> "idle", g |-> 0, spawn |-> FALSE]
NoPass == [pc |-> "idle", id |-> "none", tries |-> 0, g |-> 0, skipped |-> {}, putOff |-> {}]
None == [id \in Ids |-> 0]

Init ==
  /\ gen = [g \in Gens |-> NoGen] /\ roster = None /\ sess = None /\ creating = None
  /\ meta = {} /\ asks = None /\ ops = [o \in Ops |-> NoOp] /\ tasks = {}
  /\ retired = << >> /\ shut = {} /\ passes = 0 /\ ev = NoPass /\ drains = 0 /\ odd = {}

TypeOK ==
  /\ \A id \in Ids : /\ roster[id] # 0 => gen[roster[id]].id = id
                     /\ sess[id] # 0 => gen[sess[id]].id = id /\ gen[sess[id]].mach \in {"linking", "ready", "closing"}
                     /\ creating[id] # 0 => ops[creating[id]].id = id /\ ops[creating[id]].pc = "link"
  /\ \A i, j \in DOMAIN retired : retired[i].id = retired[j].id => i = j
  /\ \A i \in DOMAIN retired : retired[i].tries \in 0 .. MaxAttempts
  /\ odd \subseteq {"orphan", "stray", "flaky"} /\ tasks \subseteq Gens /\ ev.putOff \subseteq Ids

----------------------------------------------------------------------------
(* Helpers.                                                                *)

\* get and handleOf.
handleOf(id) == IF roster[id] # 0 /\ ~gen[roster[id]].closing THEN roster[id] ELSE 0

Known(id) == \E i \in DOMAIN retired : retired[i].id = id

\* revive: the entry of an id leaves the map.
Without(id) == IF Known(id) THEN RemoveAt(retired, CHOOSE i \in DOMAIN retired : retired[i].id = id) ELSE retired

\* snapshot().state is running, or a prompt waits.
Prompted(g) == \E o \in Ops : ops[o].g = g /\ ops[o].pc \in {"launch", "run"}

\* busy: or a task of the agent runs.
busy(g) == Prompted(g) \/ g \in tasks

Running(g) == \E o \in Ops : ops[o].g = g /\ ops[o].pc = "run"

Goto(o, pc) == ops' = [ops EXCEPT ![o].pc = pc]

\* The listeners of onDidClose: the cache, and detachInteractionAgent.
DidClose(id) ==
  /\ shut' = shut \ {id} /\ retired' = Without(id) /\ asks' = [asks EXCEPT ![id] = 0]
  /\ UNCHANGED passes

----------------------------------------------------------------------------
(* create.                                                                 *)

Fresh == {g \in Gens : gen[g].mach = "none"}

\* doCreate: agent.create of the session machine starts linking, and buildAgentScope its scope.
doCreate(o, id) ==
  /\ Fresh # {}
  /\ LET g == CHOOSE h \in Fresh : \A f \in Fresh : h <= f IN
     /\ gen' = [gen EXCEPT ![g] = [NoGen EXCEPT !.id = id, !.build = "seal", !.mach = "linking", !.scope = "up"]]
     /\ sess' = [sess EXCEPT ![id] = g] /\ roster' = [roster EXCEPT ![id] = g]
     /\ creating' = [creating EXCEPT ![id] = o]
     /\ ops' = [ops EXCEPT ![o].pc = "link", ![o].g = g]

\* Mutant: an agent that is still being closed is replaced.
CreateOverClosing(o) ==
  LET id == ops[o].id IN
  /\ ops[o].pc = "create"
  /\ \/ creating[id] # 0 /\ ops' = [ops EXCEPT ![o].pc = "link", ![o].g = ops[creating[id]].g] /\ UNCHANGED <<gen, roster, sess, creating>>
     \/ creating[id] = 0 /\ handleOf(id) # 0 /\ Goto(o, "handle") /\ UNCHANGED <<gen, roster, sess, creating>>
     \/ creating[id] = 0 /\ handleOf(id) = 0 /\ doCreate(o, id)
  /\ UNCHANGED <<meta, asks, cvars, ev, drains, odd>>

\* create, and the retry of createAgentAwaitingClose while the id is taken (a spawn has a new id).
create(o) ==
  LET id == ops[o].id IN
  /\ ops[o].pc = "create"
  /\ \/ creating[id] # 0 /\ ops' = [ops EXCEPT ![o].pc = "link", ![o].g = ops[creating[id]].g] /\ UNCHANGED <<gen, roster, sess, creating>>
     \/ creating[id] = 0 /\ handleOf(id) # 0 /\ Goto(o, "handle") /\ UNCHANGED <<gen, roster, sess, creating>>
     \/ /\ creating[id] = 0 /\ handleOf(id) = 0 /\ sess[id] # 0
        /\ Goto(o, IF ops[o].spawn THEN "failed" ELSE "poll") /\ UNCHANGED <<gen, roster, sess, creating>>
     \/ creating[id] = 0 /\ handleOf(id) = 0 /\ sess[id] = 0 /\ doCreate(o, id)
  /\ UNCHANGED <<meta, asks, cvars, ev, drains, odd>>

\* The poll of createAgentAwaitingClose, and its deadline.
Poll(o) ==
  /\ ops[o].pc = "poll" /\ \E pc \in {"create", "failed"} : Goto(o, pc)
  /\ UNCHANGED <<gen, lvars, cvars, ev, drains, odd>>

\* awaitLinked of the creator and of those who joined it.
awaitLinked(o) ==
  LET id == ops[o].id IN
  /\ ops[o].pc = "link" /\ gen[ops[o].g].mach # "linking"
  /\ Goto(o, IF gen[ops[o].g].build \in {"failing", "failed"} \/ roster[id] = 0 THEN "failed" ELSE "handle")
  /\ creating' = IF creating[id] = o THEN [creating EXCEPT ![id] = 0] ELSE creating
  /\ UNCHANGED <<gen, roster, sess, meta, asks, cvars, ev, drains, odd>>

----------------------------------------------------------------------------
(* buildAgentScope.                                                        *)

Set(g, r) == gen' = [gen EXCEPT ![g] = r]

\* seal() of the journal.
Sealed(g) ==
  /\ gen[g].build = "seal" /\ Set(g, [gen[g] EXCEPT !.build = "register"])
  /\ UNCHANGED <<lvars, ops, cvars, ev, drains, odd>>

\* registerAgent, then onDidCreate: the cache revives the id.
Registered(g) ==
  LET id == gen[g].id IN
  /\ gen[g].build = "register" /\ Set(g, [gen[g] EXCEPT !.build = "restore", !.created = TRUE])
  /\ meta' = meta \cup {id} /\ retired' = Without(id)
  /\ UNCHANGED <<roster, sess, creating, asks, ops, shut, passes, ev, drains, odd>>

\* restore(), then attachInteractionAgent; a disposed scope throws.
Restored(g) ==
  /\ gen[g].build = "restore" /\ gen[g].scope = "up" /\ Set(g, [gen[g] EXCEPT !.build = "boot"])
  /\ asks' = [asks EXCEPT ![gen[g].id] = g]
  /\ UNCHANGED <<roster, sess, creating, meta, ops, cvars, ev, drains, odd>>

\* bindBootstrap, activate, attachEngine: the machine is linked.
Built(g) ==
  /\ gen[g].build = "boot" /\ gen[g].scope = "up" /\ Set(g, [gen[g] EXCEPT !.build = "ok", !.mach = "ready"])
  /\ UNCHANGED <<lvars, ops, cvars, ev, drains, odd>>

\* Any of these throws; the scope is disposed of.
BuildFails(g) ==
  LET id == gen[g].id IN
  /\ gen[g].build \in Building
  /\ Set(g, [gen[g] EXCEPT !.build = "failing", !.closing = TRUE, !.scope = IF @ = "gone" THEN @ ELSE "going"])
  /\ roster' = IF roster[id] = g THEN [roster EXCEPT ![id] = 0] ELSE roster
  /\ UNCHANGED <<sess, creating, meta, asks, ops, cvars, ev, drains, odd>>

\* The rest of the catch block; onError of linking disposes of the machine.
BuildFailed(g) ==
  LET id == gen[g].id IN
  /\ gen[g].build = "failing" /\ gen[g].scope = "gone"
  /\ Set(g, [gen[g] EXCEPT !.build = "failed", !.mach = "disposed", !.closes = IF gen[g].created THEN @ + 1 ELSE @])
  /\ sess' = IF sess[id] = g THEN [sess EXCEPT ![id] = 0] ELSE sess
  /\ IF gen[g].created THEN DidClose(id) ELSE UNCHANGED <<cvars, asks>>
  /\ UNCHANGED <<roster, creating, meta, ops, ev, drains, odd>>

\* disposeAsync has ended; a machine that is closing is disposed and leaves the session's table.
ScopeDisposed(g) ==
  LET id == gen[g].id  over == gen[g].mach = "closing" IN
  /\ gen[g].scope = "going"
  /\ Set(g, [gen[g] EXCEPT !.scope = "gone", !.mach = IF over THEN "disposed" ELSE @])
  /\ sess' = IF over /\ sess[id] = g THEN [sess EXCEPT ![id] = 0] ELSE sess
  /\ UNCHANGED <<roster, creating, meta, asks, ops, cvars, ev, drains, odd>>

----------------------------------------------------------------------------
(* remove.                                                                 *)

\* removeManaged up to its first await; onWillClose tells the cache.
remove(g) ==
  /\ Set(g, [gen[g] EXCEPT !.closing = TRUE, !.removal = "quiesce"])
  /\ shut' = shut \cup {gen[g].id}
  /\ odd' = IF gen[g].mach = "linking" THEN odd \cup {"orphan"} ELSE odd

\* The session closes: drainAgents.
Drain(id) ==
  /\ drains < MaxDrains /\ handleOf(id) # 0 /\ remove(roster[id]) /\ drains' = drains + 1
  /\ UNCHANGED <<lvars, ops, retired, passes, ev>>

\* The loop is idle and held, or REMOVE_PROMPT_QUIESCE_TIMEOUT_MS is over; stopAllOnExit and flush follow.
Quiesced(g) ==
  /\ gen[g].removal = "quiesce" /\ Set(g, [gen[g] EXCEPT !.removal = "stop"])
  /\ UNCHANGED <<lvars, ops, cvars, ev, drains, odd>>

\* agent.stop goes to the machine that the session has under this id, and the removal waits for its own.
StopAgent(g) ==
  LET id == gen[g].id  h == sess[id]
      stopped == CASE h = 0 -> gen
                   [] h # 0 /\ gen[h].mach = "linking" -> [gen EXCEPT ![h].mach = "disposed", ![h].scope = IF @ = "gone" THEN @ ELSE "going"]
                   [] h # 0 /\ gen[h].mach = "ready" -> [gen EXCEPT ![h].mach = "closing", ![h].scope = "going"]
                   [] OTHER -> gen IN
  /\ gen[g].removal = "stop" /\ gen' = [stopped EXCEPT ![g].removal = "wait"]
  /\ sess' = IF h # 0 /\ gen[h].mach = "linking" THEN [sess EXCEPT ![id] = 0] ELSE sess
  /\ odd' = odd \cup (IF h # 0 /\ h # g THEN {"stray"} ELSE {}) \cup (IF h # 0 /\ gen[h].mach = "linking" THEN {"orphan"} ELSE {})
  /\ UNCHANGED <<roster, creating, meta, asks, ops, cvars, ev, drains>>

RemovalOver(g) ==
  LET id == gen[g].id IN
  /\ gen[g].removal = "wait" /\ gen[g].mach = "disposed"
  /\ Set(g, [gen[g] EXCEPT !.removal = "over", !.closes = @ + 1]) /\ DidClose(id)
  /\ roster' = IF roster[id] = g THEN [roster EXCEPT ![id] = 0] ELSE roster
  /\ UNCHANGED <<sess, creating, meta, ops, ev, drains, odd>>

----------------------------------------------------------------------------
(* The Agent tool.                                                         *)

NextOp(o) == ops[o].pc = "idle" /\ \A p \in 1 .. o - 1 : ops[p].pc # "idle"

\* A spawn takes an id that was never used.
Spawn(o, id) ==
  /\ NextOp(o) /\ \A p \in Ops : ops[p].id # id
  /\ ops' = [ops EXCEPT ![o] = [id |-> id, pc |-> "create", g |-> 0, spawn |-> TRUE]]
  /\ UNCHANGED <<gen, lvars, cvars, ev, drains, odd>>

Resume(o, id) ==
  /\ NextOp(o) /\ \E p \in Ops : ops[p].id = id
  /\ ops' = [ops EXCEPT ![o] = [id |-> id, pc |-> "meta", g |-> 0, spawn |-> FALSE]]
  /\ UNCHANGED <<gen, lvars, cvars, ev, drains, odd>>

\* The handle is looked up; an agent that runs is not resumed.
Target(o) == IF handleOf(ops[o].id) = 0 \/ Running(handleOf(ops[o].id)) THEN "failed" ELSE "target"

\* resolveResumeTarget has read the metadata.
resolveResumeTarget(o) ==
  /\ ops[o].pc = "meta"
  /\ Goto(o, IF ops[o].id \notin meta THEN "failed" ELSE IF handleOf(ops[o].id) # 0 THEN Target(o) ELSE "create")
  /\ UNCHANGED <<gen, lvars, cvars, ev, drains, odd>>

\* The agent was rebuilt or found.
Rebuilt(o) ==
  /\ ops[o].pc = "handle" /\ Goto(o, Target(o)) /\ UNCHANGED <<gen, lvars, cvars, ev, drains, odd>>

\* run and runAgentTurn: the prompt is submitted to whatever generation is live now.
run(o) ==
  /\ ops[o].pc = "target"
  /\ ops' = [ops EXCEPT ![o].g = handleOf(ops[o].id), ![o].pc = IF handleOf(ops[o].id) = 0 THEN "failed" ELSE "launch"]
  /\ UNCHANGED <<gen, lvars, cvars, ev, drains, odd>>

\* The turn starts; SubagentStarted revives the id.
Launched(o) ==
  LET g == ops[o].g IN
  /\ ops[o].pc = "launch" /\ gen[g].mach = "ready" /\ gen[g].removal \in {"none", "quiesce"} /\ ~Running(g)
  /\ Goto(o, "run") /\ retired' = Without(ops[o].id)
  /\ UNCHANGED <<gen, lvars, shut, passes, ev, drains, odd>>

\* The removal cancels the prompt, or the loop is disposed of.
LaunchFails(o) ==
  /\ ops[o].pc = "launch" /\ (gen[ops[o].g].closing \/ gen[ops[o].g].mach # "ready") /\ Goto(o, "failed")
  /\ UNCHANGED <<gen, lvars, cvars, ev, drains, odd>>

TurnEnds(o) == ops[o].pc = "run" /\ Goto(o, "ended") /\ UNCHANGED <<gen, lvars, cvars, ev, drains, odd>>

\* mirrorAgentRun: SubagentCompleted, Failed or Cancelled, and retire.
Finished(o) ==
  /\ ops[o].pc = "ended" /\ Goto(o, "done")
  /\ retired' = Append(Without(ops[o].id), [id |-> ops[o].id, tries |-> 0]) /\ passes' = passes + 1
  /\ UNCHANGED <<gen, lvars, shut, ev, drains, odd>>

----------------------------------------------------------------------------
(* Background tasks of an agent (its IAgentTaskService).  A removal stops  *)
(* them and the scope takes them along; from then on nobody asks for them. *)

Asked(g, gs) == gs[g].scope = "up" /\ ~gs[g].closing

\* A turn ends and leaves one behind, which a tool of it started or which it handed over.
LeavesTask(o) ==
  /\ TurnEnds(o) /\ Asked(ops[o].g, gen) /\ tasks' = tasks \cup {ops[o].g}

\* It ends or is stopped, which nobody tells the cache.
TaskEnds(g) ==
  /\ g \in tasks /\ tasks' = tasks \ {g}
  /\ UNCHANGED <<gen, lvars, ops, cvars, ev, drains, odd>>

----------------------------------------------------------------------------
(* The cache of subagents.                                                 *)

StartPass ==
  /\ ev.pc = "idle" /\ passes > 0 /\ passes' = passes - 1 /\ ev' = [NoPass EXCEPT !.pc = "loop"]
  /\ UNCHANGED <<gen, lvars, ops, retired, shut, drains, odd>>

Candidates == {i \in DOMAIN retired : retired[i].tries < MaxAttempts /\ retired[i].id \notin ev.skipped}

EndPass ==
  /\ ev.pc = "loop" /\ (Len(retired) <= Capacity \/ Candidates = {})
  /\ ev' = [NoPass EXCEPT !.putOff = ev.putOff]
  /\ UNCHANGED <<gen, lvars, ops, cvars, drains, odd>>

\* oldestCandidate; it leaves the map while it is being evicted.
oldestCandidate ==
  /\ ev.pc = "loop" /\ Len(retired) > Capacity /\ Candidates # {}
  /\ LET i == CHOOSE j \in Candidates : \A k \in Candidates : j <= k IN
     /\ ev' = [ev EXCEPT !.pc = "evict", !.id = retired[i].id, !.tries = retired[i].tries]
     /\ retired' = RemoveAt(retired, i)
  /\ UNCHANGED <<gen, lvars, ops, shut, passes, drains, odd>>

\* evictOverflow after evict: a subagent that is still there goes back to the end of the map.
Outcome(outcome) ==
  IF outcome \in {"removed", "missing"} THEN ev' = [ev EXCEPT !.pc = "loop"] /\ UNCHANGED retired
  ELSE /\ ev' = [ev EXCEPT !.pc = "loop", !.skipped = @ \cup {ev.id}]
       /\ retired' = IF Known(ev.id) THEN retired
                     ELSE Append(retired, [id |-> ev.id, tries |-> ev.tries + (IF outcome = "timeout" THEN 1 ELSE 0)])

Gone(id) == IF id \in shut THEN "closing" ELSE "missing"

\* A subagent that is busy goes back as it was; no pass follows the end of its task.
Defer(g) ==
  /\ ev' = [ev EXCEPT !.pc = "loop", !.skipped = @ \cup {ev.id},
                      !.putOff = IF g \in tasks THEN @ \cup {ev.id} ELSE @]
  /\ retired' = IF Known(ev.id) THEN retired ELSE Append(retired, [id |-> ev.id, tries |-> ev.tries])

\* evict up to the flush.
evict ==
  LET g == handleOf(ev.id) IN
  /\ ev.pc = "evict"
  /\ CASE g = 0 -> Outcome(Gone(ev.id))
       [] g # 0 /\ busy(g) -> Defer(g)
       [] OTHER -> ev' = [ev EXCEPT !.pc = "flush", !.g = g] /\ UNCHANGED retired
  /\ UNCHANGED <<gen, lvars, ops, shut, passes, drains, odd>>

\* Mutant: the agent is not looked at again after the flush.
RemoveUnseen ==
  /\ ev.pc = "flush" /\ ev' = [ev EXCEPT !.pc = "await"]
  /\ IF handleOf(ev.id) = ev.g THEN remove(ev.g) ELSE UNCHANGED <<gen, shut, odd>>
  /\ UNCHANGED <<lvars, ops, retired, passes, drains>>

\* The flush succeeded or failed; the agent may have run or gone meanwhile.
Flushed ==
  /\ ev.pc = "flush"
  /\ \/ Outcome("failed") /\ odd' = odd \cup {"flaky"} /\ UNCHANGED <<gen, shut>>
     \/ handleOf(ev.id) # ev.g /\ Outcome(Gone(ev.id)) /\ UNCHANGED <<gen, shut, odd>>
     \/ handleOf(ev.id) = ev.g /\ busy(ev.g) /\ Defer(ev.g) /\ UNCHANGED <<gen, shut, odd>>
     \/ /\ handleOf(ev.id) = ev.g /\ ~busy(ev.g) /\ remove(ev.g) /\ ev' = [ev EXCEPT !.pc = "await"]
        /\ UNCHANGED retired
  /\ UNCHANGED <<lvars, ops, passes, drains>>

\* The removal is over, perhaps with an error, or it takes too long.
Evicted ==
  /\ ev.pc = "await"
  /\ \/ gen[ev.g].removal = "over" /\ Outcome("removed") /\ UNCHANGED odd
     \/ /\ gen[ev.g].removal = "over" /\ (handleOf(ev.id) # 0 \/ ev.id \in shut) /\ Outcome("failed")
        /\ odd' = odd \cup {"flaky"}
     \/ gen[ev.g].removal # "over" /\ Outcome("timeout") /\ odd' = odd \cup {"flaky"}
  /\ UNCHANGED <<gen, lvars, ops, shut, passes, drains>>

----------------------------------------------------------------------------
\* Microtasks that are due.
Settled == \A g \in Gens : ~(gen[g].removal = "wait" /\ gen[g].mach = "disposed")

GenStep(g) ==
  \/ Sealed(g) \/ Registered(g) \/ Restored(g) \/ Built(g) \/ BuildFailed(g) \/ ScopeDisposed(g) \/ Quiesced(g) \/ StopAgent(g)

OpStep(o) ==
  \/ Poll(o) \/ awaitLinked(o) \/ resolveResumeTarget(o) \/ Rebuilt(o) \/ run(o) \/ Launched(o) \/ LaunchFails(o)
  \/ TurnEnds(o) \/ Finished(o)

CacheStep == StartPass \/ EndPass \/ oldestCandidate \/ evict \/ Flushed \/ Evicted

Quiet ==
  /\ \A o \in Ops : ops[o].pc \in {"idle", "done", "failed"}
  /\ \A g \in Gens : /\ gen[g].build \in {"none", "ok", "failed"} /\ gen[g].scope # "going"
                     /\ gen[g].removal \in {"none", "over"}
  /\ ev.pc = "idle" /\ passes = 0

AgentStep ==
  \/ \E g \in Gens : RemovalOver(g)
  \/ \E o \in Ops : create(o)
  \/ Settled /\ \E g \in Gens : GenStep(g) \/ BuildFails(g)
  \/ Settled /\ \E o \in Ops : OpStep(o) \/ \E id \in Ids : Spawn(o, id) \/ Resume(o, id)
  \/ Settled /\ \E id \in Ids : Drain(id)
  \/ Settled /\ CacheStep

TasksGo == tasks' = {g \in tasks : Asked(g, gen')}

Next ==
  \/ AgentStep /\ TasksGo
  \/ Settled /\ \E o \in Ops : LeavesTask(o)
  \/ Settled /\ \E g \in Gens : TaskEnds(g)
  \/ Quiet /\ UNCHANGED vars

Spec == Init /\ [][Next]_vars

----------------------------------------------------------------------------
(* An agent's journal has one writer: a new generation is built only when  *)
(* the scope of the last one is disposed of.  The exception is an agent    *)
(* that is removed while it is linking: its machine is gone at once, its   *)
(* scope and its build go on.                                              *)
OneWriter ==
  odd \cap {"orphan"} = {} =>
    \A g, h \in Gens : gen[g].id = gen[h].id /\ {gen[g].scope, gen[h].scope} \subseteq {"up", "going"} => g = h

(* The cache never removes a subagent that runs, has a prompt waiting or   *)
(* has a background task, whatever was started while it flushed.           *)
NeverCutShort == [][\A g \in Gens : ev.pc = "flush" /\ ~gen[g].closing /\ gen'[g].closing /\ gen'[g].removal = "quiesce" => ~busy(g) \/ drains' # drains]_vars

(* The interactions of a live agent, its approvals and questions, are      *)
(* attached to it, not to an earlier generation or to nobody.              *)
Attached ==
  odd \cap {"orphan"} = {} =>
    \A id \in Ids : handleOf(id) # 0 /\ gen[handleOf(id)].mach = "ready" => asks[id] = handleOf(id)

(* Nothing is left behind: once all is quiet the roster, the session's     *)
(* table and the cache agree on which agents live.                         *)
NothingLeft ==
  Quiet /\ odd \cap {"stray"} = {} =>
    /\ roster = sess /\ shut = {} /\ creating = None
    /\ \A g \in Gens : gen[g].scope = "up" => roster[gen[g].id] = g

(* A subagent whose run is over is known to the cache until it is removed, *)
(* so that it can be evicted.                                              *)
CacheKnows ==
  Quiet /\ odd \cap {"orphan"} = {} => \A o \in Ops : ops[o].pc = "done" /\ handleOf(ops[o].id) = ops[o].g => Known(ops[o].id)

(* Once all is quiet the cache knows no more live subagents than its       *)
(* capacity, or else the last pass put every one of them off because a     *)
(* background task of it ran then: the end of the task starts no new pass. *)
(* Exceptions are a flush or a removal that failed or timed out and an     *)
(* agent.stop that reached the wrong machine.                              *)
LiveRetired == {i \in DOMAIN retired : handleOf(retired[i].id) # 0}
WithinCapacity ==
  Quiet /\ odd \cap {"flaky", "stray"} = {} =>
    \/ Cardinality(LiveRetired) <= Capacity
    \/ \A i \in LiveRetired : retired[i].id \in ev.putOff

(* Every onDidCreate has its one onDidClose; same exception as above.      *)
ClosedOnce == odd \cap {"orphan"} = {} => \A g \in Gens : gen[g].closes <= 1 /\ (gen[g].closes = 1 => gen[g].created)

=============================================================================
