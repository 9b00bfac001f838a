----------------------------- MODULE SwarmBatch -----------------------------
(***************************************************************************)
(* AgentRunBatch (features/swarm/session/agentRunBatch.ts) with the        *)
(* launcher of SessionSwarmService and mirrorAgentRun: the tasks of one    *)
(* AgentSwarm call are queued, started a few at a time, retried with       *)
(* growing delays when the provider limits the rate, and reported.         *)
(*                                                                         *)
(* Each task goes through attempts, one at a time; attempt[t] is the place *)
(* the current one has reached:                                            *)
(*    spawn, resume, retry   the launcher prepares the subagent            *)
(*    start                  its turn has been submitted                   *)
(*    run                    its turn runs, the batch has the handle       *)
(*    over                   the promise of the attempt is settled         *)
(* An attempt goes on after the batch is finished; its events still count. *)
(*                                                                         *)
(* Times are kept relative to the clock: what the code stores as a moment  *)
(* is here the number of ticks left until it, 0 when it has passed.  A     *)
(* timer fires at some time after it is due.                               *)
(*                                                                         *)
(* A turn is ready as soon as it exists (loopService.ts:1264), so an       *)
(* attempt that runs is ready; the branch of requeueRateLimited for one    *)
(* that is not, which doubles globalRetryIntervalMs, cannot be reached.    *)
(***************************************************************************)
EXTENDS Integers, Sequences, FiniteSets, FiniteSetsExt

CONSTANTS NumTasks,
          Resumes,            \* the tasks of kind "resume"
          MaxConcurrency,     \* of the environment, or NoLimit
          InitialLaunchLimit, \* INITIAL_LAUNCH_LIMIT
          LaunchInterval,     \* INITIAL_LAUNCH_INTERVAL_MS, in ticks
          RetryBase,          \* RATE_LIMIT_RETRY_BASE_MS
          ShrinkInterval,     \* RATE_LIMIT_CAPACITY_SHRINK_INTERVAL_MS
          RecoveryInterval,   \* RATE_LIMIT_CAPACITY_RECOVERY_INTERVAL_MS
          MaxRateLimits,      \* bound on the rate limit errors of the provider
          Faults              \* what may go wrong besides them

Tasks == 1 .. NumTasks
NoLimit == 0
Off == -1      \* a timer that is not set

VARIABLES
  b,      \* the AgentRunBatch: queue, attempts, results, timers and rate limit state
  events  \* what the subagents' events told the parent agent

vars == <<b, events>>

Init ==
  /\ b = [pending |-> [i \in Tasks |-> i], active |-> {},
          attempt |-> [t \in Tasks |-> "none"],
          cut |-> [t \in Tasks |-> "no"],       \* why the attempt's controller was aborted, or "closed"
          closing |-> FALSE,                    \* the caller is closing: handleOf finds it no more
          agent |-> {},                         \* tasks with an agentId
          retry |-> {},                         \* tasks with a retryAgentId
          retries |-> [t \in Tasks |-> 0], retryIn |-> [t \in Tasks |-> 0],
          result |-> [t \in Tasks |-> "none"], settled |-> "no",
          launches |-> 0, normalTimer |-> Off, wakeTimer |-> Off,
          limited |-> FALSE, successes |-> 0, capacity |-> 1,
          launchIn |-> 0, recoverIn |-> 0, shrinkIn |-> 0, rateLimits |-> 0]
  /\ events = [spawned |-> {}, ended |-> [t \in Tasks |-> 0],
               terminalized |-> {}, refused |-> {}, lost |-> {}, vanished |-> {}]

Places == {"none", "spawn", "resume", "retry", "start", "run", "over"}

TypeOK ==
  /\ b.pending \in Seq(Tasks) /\ b.active \subseteq Tasks
  /\ b.attempt \in [Tasks -> Places]
  /\ b.cut \in [Tasks -> {"no", "timeout", "user", "fail", "closed"}] /\ b.closing \in BOOLEAN
  /\ b.retry \subseteq b.agent /\ b.agent \subseteq Tasks
  /\ b.result \in [Tasks -> {"none", "completed", "failed", "aborted"}]
  /\ b.settled \in {"no", "resolved", "cancelled", "rejected"}
  /\ b.capacity \in Nat \ {0} /\ b.launches \in 0 .. NumTasks
  /\ b.settled # "no" => b.active = {} /\ b.normalTimer = Off /\ b.wakeTimer = Off
  /\ \A t \in b.active : b.attempt[t] \in {"spawn", "resume", "retry", "start", "run"}
  /\ events.spawned \subseteq Tasks /\ events.ended \in [Tasks -> Nat]

Running(s) == Cardinality(s.active)

isAtConcurrencyLimit(s) == MaxConcurrency # NoLimit /\ Running(s) >= MaxConcurrency

----------------------------------------------------------------------------
(* Scheduling.  Every operator takes the batch and returns it changed.     *)

PlaceOf(s, t) == IF t \in s.retry THEN "retry" ELSE IF t \in Resumes THEN "resume" ELSE "spawn"

\* requireHandle of the caller throws in an attempt that begins when the caller is closing.
startAttempts(s, started) ==
  [s EXCEPT !.active = @ \cup started,
            !.attempt = [t \in Tasks |-> IF t \in started THEN PlaceOf(s, t) ELSE @[t]],
            !.cut = [t \in Tasks |-> IF t \notin started THEN @[t] ELSE IF s.closing THEN "closed" ELSE "no"]]

LaunchFirst(s, n) ==
  [startAttempts(s, {s.pending[i] : i \in 1 .. n})
     EXCEPT !.pending = SubSeq(@, n + 1, Len(@)), !.launches = @ + n]

Room(s) ==
  IF MaxConcurrency = NoLimit THEN Len(s.pending) ELSE Max({0, MaxConcurrency - Running(s)})

scheduleNormalLaunch(s) ==
  LET n == Max({0, Min({InitialLaunchLimit - s.launches, Len(s.pending), Room(s)})})
      l == LaunchFirst(s, n)
  IN IF l.pending = << >> \/ l.normalTimer # Off \/ isAtConcurrencyLimit(l)
     THEN l ELSE [l EXCEPT !.normalTimer = LaunchInterval]

recoverRateLimitCapacity(s) ==
  IF s.recoverIn > 0 THEN s
  ELSE [s EXCEPT !.capacity = @ + 1, !.recoverIn = RecoveryInterval, !.launchIn = 0]

nextPendingReadyIn(s) == Min({s.retryIn[s.pending[i]] : i \in DOMAIN s.pending})

NextWakeup(s) ==
  IF Running(s) >= s.capacity THEN s.recoverIn
  ELSE Min({Max({s.launchIn, nextPendingReadyIn(s)}), s.recoverIn})

scheduleRateLimitWakeup(s) ==
  IF s.pending = << >> \/ NextWakeup(s) = 0 THEN s ELSE [s EXCEPT !.wakeTimer = NextWakeup(s)]

LaunchReady(s) ==
  LET i == Min({k \in DOMAIN s.pending : s.retryIn[s.pending[k]] = 0})
      l == [startAttempts(s, {s.pending[i]})
              EXCEPT !.pending = SubSeq(@, 1, i - 1) \o SubSeq(@, i + 1, Len(@)),
                     !.launchIn = RetryBase]
  IN scheduleRateLimitWakeup(l)

\* Mutant: nothing wakes the batch when the next launch is not allowed yet.
LaunchWithoutWakeup(s) ==
  LET c == [s EXCEPT !.wakeTimer = Off]
      r == recoverRateLimitCapacity(c)
  IN IF s.pending = << >> THEN c
     ELSE IF Running(r) < r.capacity /\ NextWakeup(r) = 0 THEN LaunchReady(r) ELSE r

scheduleRateLimitLaunch(s) ==
  LET c == [s EXCEPT !.wakeTimer = Off]
      r == recoverRateLimitCapacity(c)
  IN IF s.pending = << >> THEN c
     ELSE IF Running(r) < r.capacity /\ NextWakeup(r) = 0
          THEN LaunchReady(r) ELSE scheduleRateLimitWakeup(r)

\* Nothing reads the queue and the rate limit state of a finished batch: they are cleared.
Finish(s, how) ==
  [s EXCEPT !.settled = how, !.active = {}, !.normalTimer = Off, !.wakeTimer = Off, !.pending = << >>,
            !.retry = {}, !.retries = [t \in Tasks |-> 0], !.retryIn = [t \in Tasks |-> 0],
            !.limited = FALSE, !.successes = 0, !.capacity = 1,
            !.launchIn = 0, !.recoverIn = 0, !.shrinkIn = 0]

schedule(s) ==
  IF s.settled # "no" THEN s
  ELSE IF \A t \in Tasks : s.result[t] # "none" THEN Finish(s, "resolved")
  ELSE IF s.limited THEN scheduleRateLimitLaunch(s) ELSE scheduleNormalLaunch(s)

----------------------------------------------------------------------------
(* Outcomes of attempts.                                                   *)

handleAttemptOutcome(s, t, status) ==
  IF t \notin s.active THEN [s EXCEPT !.attempt[t] = "over", !.cut[t] = "no"]
  ELSE schedule([s EXCEPT !.active = @ \ {t}, !.attempt[t] = "over", !.cut[t] = "no", !.result[t] = status])

shrinkRateLimitCapacity(s) ==
  [s EXCEPT !.capacity = Max({1, @ - 1}), !.shrinkIn = ShrinkInterval]

enterRateLimitMode(s) ==
  IF s.limited THEN IF s.shrinkIn > 0 THEN s ELSE shrinkRateLimitCapacity(s)
  ELSE shrinkRateLimitCapacity([s EXCEPT !.limited = TRUE, !.normalTimer = Off,
                                         !.capacity = Max({1, s.successes})])

requeueRateLimited(s, t) ==
  LET r == [s EXCEPT !.retry = @ \cup {t}, !.retries[t] = @ + 1, !.recoverIn = RecoveryInterval,
                     !.retryIn[t] = RetryBase * 2 ^ s.retries[t],
                     !.pending = <<t>> \o @]
  IN [enterRateLimitMode(r) EXCEPT !.launchIn = Max({@, RetryBase})]

isOnlyUnfinishedTask(s, t) == \A u \in Tasks \ {t} : s.result[u] # "none"

markAttemptReady(s, t) ==
  IF t \notin s.active THEN s
  ELSE IF s.limited THEN schedule([s EXCEPT !.launchIn = RetryBase])
  ELSE [s EXCEPT !.successes = @ + 1]

(* Terminal events go through the launcher's `terminalize`, once for each  *)
(* agent, and are dropped when the caller is closing: handleOf finds no    *)
(* dispatcher.  The event of a completed run goes to the dispatcher that   *)
(* the attempt found when it began.                                        *)

terminalize(e, ts) ==
  LET new == ts \ e.terminalized IN
  [e EXCEPT !.ended = [t \in Tasks |-> IF t \in new /\ ~b.closing THEN @[t] + 1 ELSE @[t]],
            !.lost = IF b.closing THEN @ \cup new ELSE @,
            !.terminalized = @ \cup ts]

\* Mutant: agents waiting for a retry are forgotten when the batch ends.
AbandonOnlyActive(s) == {t \in s.active : t \in s.agent /\ s.attempt[t] # "run"}

\* abandonSuspended: the agents it reports as cancelled.
Abandoned(s) ==
  {t \in s.agent : (\E i \in DOMAIN s.pending : s.pending[i] = t)
                   \/ (t \in s.active /\ s.attempt[t] # "run")}

----------------------------------------------------------------------------
Begun == b.launches > 0

\* No time passes between the closing of the caller and the abort of its turn.
Cancelling == b.closing /\ b.settled = "no"

\* run(): the first launches.
Run ==
  /\ b.launches = 0 /\ b.settled = "no" /\ b.active = {} /\ b.normalTimer = Off
  /\ b' = schedule(b)
  /\ UNCHANGED events

\* The signal of the tool call is aborted by the user or for another reason.
Abort(why) ==
  /\ why \in Faults \cap {"user", "fail"} /\ b.settled = "no" /\ (Cancelling => why = "fail")
  /\ LET cut == [b EXCEPT !.cut = [t \in Tasks |-> IF t \in b.active /\ @[t] = "no" THEN why ELSE @[t]]]
         open == {t \in Tasks : b.result[t] = "none"}
     IN b' = IF why = "fail" THEN Finish(cut, "rejected")
             ELSE Finish([cut EXCEPT !.result = [t \in Tasks |-> IF t \in open THEN "aborted" ELSE @[t]]],
                         "cancelled")
  /\ events' = terminalize(events, Abandoned(b))

\* subagents.run checks the signal before it submits the turn.
Submit(t, e) ==
  IF b.cut[t] = "no"
  THEN b' = [b EXCEPT !.attempt[t] = "start"] /\ events' = e
  ELSE b' = handleAttemptOutcome(b, t, "failed") /\ events' = terminalize(e, {t})

SpawnReturns(t) ==
  /\ b.attempt[t] = "spawn" /\ b.cut[t] # "closed"
  /\ Submit(t, [events EXCEPT !.spawned = @ \cup {t}])

SpawnFails(t) ==
  /\ b.attempt[t] = "spawn" /\ ("spawn" \in Faults \/ b.cut[t] # "no")
  /\ b' = handleAttemptOutcome(b, t, "failed")
  /\ UNCHANGED events

\* The new subagent is announced, but it is being removed already: requireHandle throws.
SpawnVanishes(t) ==
  /\ b.attempt[t] = "spawn" /\ b.cut[t] # "closed" /\ "vanish" \in Faults
  /\ b' = handleAttemptOutcome(b, t, "failed")
  /\ events' = [events EXCEPT !.spawned = @ \cup {t}, !.vanished = @ \cup {t}]

ResumeReturns(t) ==
  /\ b.attempt[t] \in {"resume", "retry"} /\ b.cut[t] # "closed"
  /\ Submit(t, IF b.attempt[t] = "resume" THEN [events EXCEPT !.spawned = @ \cup {t}] ELSE events)

\* The subagent is gone, cannot be rebuilt or is busy, or the caller is closing.
ResumeRefused(t) ==
  /\ b.attempt[t] \in {"resume", "retry"} /\ ("refused" \in Faults \/ b.closing)
  /\ b' = handleAttemptOutcome(b, t, "failed")
  /\ events' = [events EXCEPT !.refused = IF b.attempt[t] = "retry" THEN @ \cup {t} ELSE @]

TurnStarts(t) ==
  /\ b.attempt[t] = "start"
  /\ b' = [markAttemptReady([b EXCEPT !.attempt[t] = "run"], t) EXCEPT !.agent = @ \cup {t}]
  /\ UNCHANGED events

TurnNotStarted(t) ==
  /\ b.attempt[t] = "start" /\ "start" \in Faults
  /\ b' = handleAttemptOutcome(b, t, "failed")
  /\ events' = terminalize(events, {t})

\* The dispatcher of a closing caller may be disposed of already.
TurnCompletes(t) ==
  /\ b.attempt[t] = "run" /\ b.cut[t] = "no"
  /\ b' = handleAttemptOutcome(b, t, "completed")
  /\ \/ events' = [events EXCEPT !.ended[t] = @ + 1]
     \/ b.closing /\ events' = [events EXCEPT !.lost = @ \cup {t}]

\* The turn failed, or it ended after its signal was aborted.
TurnFails(t) ==
  /\ b.attempt[t] = "run" /\ ("error" \in Faults \/ b.cut[t] # "no")
  /\ b' = handleAttemptOutcome(b, t, "failed")
  /\ events' = terminalize(events, {t})

TurnRateLimited(t) ==
  /\ b.attempt[t] = "run" /\ b.cut[t] = "no" /\ b.rateLimits < MaxRateLimits
  /\ LET s == [b EXCEPT !.rateLimits = @ + 1, !.active = @ \ {t}, !.attempt[t] = "over", !.cut[t] = "no"]
     IN IF isOnlyUnfinishedTask(b, t)
        THEN /\ b' = schedule([s EXCEPT !.result[t] = "failed"])
             /\ events' = terminalize(events, {t})
        ELSE /\ b' = schedule(requeueRateLimited(s, t))
             /\ UNCHANGED events

AttemptTimesOut(t) ==
  /\ "timeout" \in Faults /\ t \in b.active /\ b.cut[t] = "no" /\ ~Cancelling
  /\ b' = [b EXCEPT !.cut[t] = "timeout"]
  /\ UNCHANGED events

\* remove of the caller, alone or with its session; a microtask later it cancels its turn (Abort).
CallerCloses ==
  /\ "close" \in Faults /\ Begun /\ ~b.closing
  /\ b' = [b EXCEPT !.closing = TRUE]
  /\ UNCHANGED events

NormalTimer ==
  /\ b.normalTimer = 0 /\ ~Cancelling
  /\ LET s == [b EXCEPT !.normalTimer = Off]
     IN b' = IF s.pending = << >> \/ isAtConcurrencyLimit(s) THEN s ELSE schedule(LaunchFirst(s, 1))
  /\ UNCHANGED events

WakeTimer ==
  /\ b.wakeTimer = 0 /\ ~Cancelling
  /\ b' = schedule([b EXCEPT !.wakeTimer = Off])
  /\ UNCHANGED events

\* Time passes.
Tick ==
  /\ b.settled = "no" /\ ~b.closing
  /\ \/ b.normalTimer > 0 \/ b.wakeTimer > 0
     \/ b.launchIn > 0 \/ b.recoverIn > 0 \/ b.shrinkIn > 0
     \/ \E t \in Tasks : b.retryIn[t] > 0
  /\ LET Less(n) == IF n > 0 THEN n - 1 ELSE n
     IN b' = [b EXCEPT !.normalTimer = Less(@), !.wakeTimer = Less(@), !.launchIn = Less(@),
                       !.recoverIn = Less(@), !.shrinkIn = Less(@),
                       !.retryIn = [t \in Tasks |-> Less(@[t])]]
  /\ UNCHANGED events

Done ==
  /\ b.settled # "no" /\ \A t \in Tasks : b.attempt[t] \in {"none", "over"}
  /\ UNCHANGED vars

AttemptStep(t) ==
  \/ SpawnReturns(t) \/ SpawnFails(t) \/ SpawnVanishes(t) \/ ResumeReturns(t) \/ ResumeRefused(t)
  \/ TurnStarts(t) \/ TurnNotStarted(t)
  \/ TurnCompletes(t) \/ TurnFails(t) \/ TurnRateLimited(t)

Next ==
  \/ Run \/ NormalTimer \/ WakeTimer \/ Tick \/ CallerCloses \/ Done
  \/ \E why \in {"user", "fail"} : Abort(why)
  \/ \E t \in Tasks : AttemptStep(t) \/ AttemptTimesOut(t)

Spec == Init /\ [][Next]_vars

----------------------------------------------------------------------------
Queued(t) == {i \in DOMAIN b.pending : b.pending[i] = t}

(* Through launches, rate limits, requeues and timers a task without a     *)
(* result is in the queue or under way, once and not both, and one with a  *)
(* result is in neither (pending, active and results of AgentRunBatch).    *)
NoTaskLostOrRepeated ==
  b.settled = "no" =>
    \A t \in Tasks :
      Cardinality(Queued(t)) + (IF t \in b.active THEN 1 ELSE 0) = (IF b.result[t] = "none" THEN 1 ELSE 0)

(* A batch that has begun and is not settled has an attempt under way or a *)
(* timer set: its queue is never left without anything that would look at  *)
(* it again (every early return of the two scheduleXxxLaunch methods).     *)
NeverStalls ==
  Begun /\ b.settled = "no" => b.active # {} \/ b.normalTimer # Off \/ b.wakeTimer # Off

(* The parent agent hears of the end of a subagent at most once, although  *)
(* abandonSuspended, the launcher and mirrorAgentRun all report it.        *)
AtMostOneEnd == \A t \in Tasks : events.ended[t] <= 1

(* When the batch and its attempts are over, every subagent that was       *)
(* announced has been reported as completed, failed or cancelled: none is  *)
(* shown as running or suspended for ever.  Exceptions, of the code: a     *)
(* suspended agent whose retry is refused before its turn is submitted, a  *)
(* subagent removed right after it was announced, and one whose end comes  *)
(* when the caller is closing, which is then told to nobody.               *)
EverySubagentEnds ==
  (b.settled # "no" /\ \A t \in Tasks : b.attempt[t] \in {"none", "over"})
    => \A t \in events.spawned \ (events.refused \cup events.lost \cup events.vanished) : events.ended[t] = 1

(* Outside of the rate limit mode no more attempts are under way than the  *)
(* environment allows, whichever of the loop and the timer starts them.    *)
LimitKeptInNormalMode ==
  MaxConcurrency # NoLimit /\ ~b.limited => Running(b) <= MaxConcurrency

=============================================================================
