--------------------------- MODULE SubagentProofs ---------------------------
(***************************************************************************)
(* Proofs about the subagents (MCSubagents).  SwarmIInv is inductive for a *)
(* batch of AgentSwarm; its parts say where each task is (QueueOK), what   *)
(* the place of an attempt means (AttemptsOK, AgentsOK), how many were     *)
(* launched (CountOK, CapOK), that something will look at the queue again  *)
(* (AwakeOK, OpenOK) and what the parent has heard (EventsOK).             *)
(*                                                                         *)
(* Whatever an outcome or a timer does to the batch, schedule has the last *)
(* word: ScheduleKeeps says what it makes of a batch in which nobody may   *)
(* be awake, through what a launch takes from the queue (Starts).          *)
(*                                                                         *)
(* The lives of the agents take two invariants.  For NeverCutShort,        *)
(* MarksIInv says no more than that a removal marks its generation first:  *)
(* what keeps a busy agent is the second look of the cache                 *)
(* (FlushedSpares), and that no other step marks one so.                   *)
(*                                                                         *)
(* For LivesAgree, AllInv says how build, machine, scope and removal of    *)
(* one generation go together (LifeOK, and OrderlyOK and StraightOK as     *)
(* long as nobody was removed while it linked and no agent.stop went       *)
(* astray), how the tables point at the generations (TablesOK, ShutOK,     *)
(* AsksOK), what a call of the Agent tool holds (CallsInv), and why the    *)
(* cache knows an id or may be over its capacity (KnownOK, OverflowOK: an  *)
(* entry it keeps is Excused).  Most steps touch one generation (Becomes,  *)
(* Ages) or one call (Move, Begins).                                       *)
(***************************************************************************)
EXTENDS MCSubagents, Integers, FiniteSetTheorems, SequenceTheorems, NaturalsInduction,
        WellFoundedInduction, TLAPS

Tasks == Swarm!Tasks
Live == {"spawn", "resume", "retry", "start", "run"}
Timers == Nat \cup {Swarm!Off}

Batches ==
  [pending : Seq(Tasks), active : SUBSET Tasks, attempt : [Tasks -> Swarm!Places],
   cut : [Tasks -> {"no", "timeout", "user", "fail", "closed"}], closing : BOOLEAN, agent : SUBSET Tasks, retry : SUBSET Tasks,
   retries : [Tasks -> Nat], retryIn : [Tasks -> Nat],
   result : [Tasks -> {"none", "completed", "failed", "aborted"}],
   settled : {"no", "resolved", "cancelled", "rejected"},
   launches : Nat, normalTimer : Timers, wakeTimer : Timers, limited : BOOLEAN,
   successes : Nat, capacity : Nat \ {0}, launchIn : Nat, recoverIn : Nat, shrinkIn : Nat,
   rateLimits : Nat]

Reports ==
  [spawned : SUBSET Tasks, ended : [Tasks -> Nat], terminalized : SUBSET Tasks, refused : SUBSET Tasks,
   lost : SUBSET Tasks, vanished : SUBSET Tasks]

First(q, n) == {q[i] : i \in 1 .. n}
Waiting(s) == First(s.pending, Len(s.pending))
Open(s) == {t \in Tasks : s.result[t] = "none"}
Unrepeated(q) == \A i, j \in 1 .. Len(q) : q[i] = q[j] => i = j

\* While the batch is open a task without a result is queued or under way,
\* once and not both.
QueueOK(s) == s.settled = "no" =>
  /\ Unrepeated(s.pending)
  /\ Waiting(s) \cap s.active = {}
  /\ Waiting(s) \cup s.active = Open(s)

\* What an attempt's place says about its task; an attempt that has left
\* active without being over was cut off.
AttemptsOK(s) ==
  /\ \A t \in s.active : s.attempt[t] \in Live
  /\ \A t \in Tasks : s.attempt[t] \in Live => t \in s.active \/ (s.settled \in {"cancelled", "rejected"} /\ s.cut[t] # "no")
  /\ s.settled = "no" => \A t \in Waiting(s) : s.attempt[t] = IF t \in s.retry THEN "over" ELSE "none"

\* Whoever runs or is to be resumed has an agent; agents is s.agent, or what it becomes.
AgentsOK(s, agents) ==
  s.retry \subseteq agents /\ \A t \in Tasks : s.attempt[t] \in {"run", "retry"} => t \in agents

\* Until the rate is limited every launch takes a task from the queue for good.
CountOK(s) ==
  /\ s.launches <= NumTasks
  /\ s.limited => s.normalTimer = Swarm!Off
  /\ s.settled = "no" /\ ~s.limited => s.launches + Len(s.pending) = NumTasks

CapOK(s) == MaxConcurrency # 0 /\ ~s.limited => Cardinality(s.active) <= MaxConcurrency

\* Something will look at the queue again.
Awake(s) == s.active # {} \/ s.normalTimer # Swarm!Off \/ s.wakeTimer # Swarm!Off

AwakeOK(s) ==
  /\ s.settled = "no" /\ s.launches > 0 => Awake(s)
  /\ s.settled # "no" => s.active = {} /\ s.normalTimer = Swarm!Off /\ s.wakeTimer = Swarm!Off

OpenOK(s) == s.settled = "no" /\ NumTasks > 0 => Open(s) # {}

\* Announced, and not one of the exceptions; what terminalize has dealt with was told or lost.
Shown(e) == e.spawned \ (e.refused \cup e.lost \cup e.vanished)
Said(e, t) == e.ended[t] = 1 \/ (e.ended[t] = 0 /\ t \in e.lost)

\* What the parent heard of a task, by the place of its attempt.
EventsOK(s, e) ==
  \A t \in Tasks :
    /\ t \in e.terminalized => Said(e, t)
    /\ t \notin e.terminalized => e.ended[t] = 0 \/ (e.ended[t] = 1 /\ s.attempt[t] = "over" /\ s.result[t] # "none")
    /\ s.settled = "no" /\ s.result[t] = "none" => t \notin e.terminalized
    /\ s.attempt[t] \in {"none", "spawn", "resume"} => t \notin e.spawned
    /\ t \in Shown(e) /\ e.ended[t] = 0
         => s.attempt[t] \in {"retry", "start", "run"} \/ (s.settled = "no" /\ t \in Waiting(s) /\ t \in s.retry)

----------------------------------------------------------------------------
(* Minima, maxima and powers.                                              *)

LEMMA PowerIsNatural == ASSUME NEW n \in Nat PROVE 2 ^ n \in Nat
<1>1. IsFiniteSet(1 .. n) /\ Cardinality(1 .. n) = n BY FS_Interval, Z3
<1>2. IsFiniteSet(SUBSET (1 .. n)) /\ Cardinality(SUBSET (1 .. n)) = 2 ^ n BY <1>1, FS_SUBSET, Zenon
<1> QED BY <1>2, FS_CardinalityType, Zenon

LEMMA MaxOfTwo ==
  ASSUME NEW m \in Int, NEW n \in Int PROVE Swarm!Max({m, n}) = IF m >= n THEN m ELSE n
<1>1. CASE m >= n
  <2>1. m \in {m, n} /\ \A y \in {m, n} : m >= y BY <1>1
  <2>2. \A x \in {m, n} : (\A y \in {m, n} : x >= y) => x = m BY <1>1
  <2> QED BY <2>1, <2>2, <1>1 DEF Swarm!Max
<1>2. CASE ~(m >= n)
  <2>1. n \in {m, n} /\ \A y \in {m, n} : n >= y BY <1>2
  <2>2. \A x \in {m, n} : (\A y \in {m, n} : x >= y) => x = n BY <1>2
  <2> QED BY <2>1, <2>2, <1>2 DEF Swarm!Max
<1> QED BY <1>1, <1>2

LEMMA MinOfThree ==
  ASSUME NEW k \in Int, NEW m \in Int, NEW n \in Int
  PROVE  LET x == Swarm!Min({k, m, n}) IN x \in {k, m, n} /\ x <= k /\ x <= m /\ x <= n
<1>1. \E x \in {k, m, n} : \A y \in {k, m, n} : x <= y OBVIOUS
<1> QED BY <1>1 DEF Swarm!Min

LEMMA NaturalsHaveMinimum ==
  ASSUME NEW S \in SUBSET Nat, S # {} PROVE Swarm!Min(S) \in S /\ \A y \in S : Swarm!Min(S) <= y
<1>1. \E x \in S : \A y \in S : ~ (<<y, x>> \in OpToRel(<, Nat))
  BY NatLessThanWellFounded, WFMin
<1>2. PICK x \in S : \A y \in S : ~ (<<y, x>> \in OpToRel(<, Nat)) BY <1>1
<1>3. \A y \in S : ~(y < x) BY <1>2, Zenon DEF OpToRel
<1>4. \A y \in S : x <= y BY <1>3
<1> QED BY <1>4 DEF Swarm!Min

LEMMA CountsAgree == \A S : Swarm!Cardinality(S) = Cardinality(S)
BY DEF Swarm!Cardinality, Cardinality

LEMMA TasksAreFinite == IsFiniteSet(Tasks) /\ Cardinality(Tasks) = NumTasks
<1>1. NumTasks \in Nat BY BatchAssumption
<1>2. Tasks = 1 .. NumTasks BY DEF Tasks, Swarm!Tasks
<1> QED BY <1>1, <1>2, FS_Interval, Z3

LEMMA RunningIsCounted ==
  ASSUME NEW s \in Batches
  PROVE  /\ Swarm!Running(s) = Cardinality(s.active) /\ Cardinality(s.active) \in Nat
         /\ IsFiniteSet(s.active) /\ (Cardinality(s.active) = 0 <=> s.active = {})
<1>1. s.active \in SUBSET Tasks BY DEF Batches
<1>2. IsFiniteSet(s.active) BY <1>1, TasksAreFinite, FS_Subset, Zenon
<1> QED BY <1>2, CountsAgree, FS_CardinalityType, FS_EmptySet, Zenon DEF Swarm!Running
----------------------------------------------------------------------------
(* Launches.                                                               *)

\* r is s after the attempts of the tasks ts were started.
Starts(s, r, ts) ==
  /\ ts \subseteq Waiting(s) /\ r.active = s.active \cup ts /\ Waiting(r) = Waiting(s) \ ts
  /\ Unrepeated(r.pending)
  /\ r.attempt = [t \in Tasks |-> IF t \in ts THEN Swarm!PlaceOf(s, t) ELSE s.attempt[t]]
  /\ r.agent = s.agent /\ r.retry = s.retry /\ r.result = s.result /\ r.settled = s.settled
  /\ r.limited = s.limited /\ (s.limited => r.normalTimer = s.normalTimer)

LEMMA QueueType ==
  ASSUME NEW s \in Batches
  PROVE  s.pending \in Seq(Tasks) /\ DOMAIN s.pending = 1 .. Len(s.pending) /\ Len(s.pending) \in Nat
         /\ \A k \in 1 .. Len(s.pending) : s.pending[k] \in Tasks
<1>1. s.pending \in Seq(Tasks) BY DEF Batches
<1> QED BY <1>1

LEMMA WaitingAreTasks ==
  ASSUME NEW s \in Batches PROVE Waiting(s) \in SUBSET Tasks /\ Len(s.pending) \in Nat
<1>1. s.pending \in Seq(Tasks) BY DEF Batches
<1> QED BY <1>1 DEF Waiting, First

LEMMA StartedType ==
  ASSUME NEW s \in Batches, NEW active \in SUBSET Tasks, NEW attempt \in [Tasks -> Swarm!Places],
         NEW cut \in [Tasks -> {"no", "timeout", "user", "fail", "closed"}]
  PROVE  [s EXCEPT !.active = active, !.attempt = attempt, !.cut = cut] \in Batches
<1>1. PICK r : r = [s EXCEPT !.active = active, !.attempt = attempt, !.cut = cut] OBVIOUS
<1>2. r \in Batches BY <1>1 DEF Batches
<1> QED BY <1>1, <1>2

LEMMA StartAttemptsType ==
  ASSUME NEW s \in Batches, NEW ts \in SUBSET Tasks
  PROVE  LET r == Swarm!startAttempts(s, ts) IN
         /\ r \in Batches
         /\ r.active = s.active \cup ts
         /\ r.attempt = [t \in Tasks |-> IF t \in ts THEN Swarm!PlaceOf(s, t) ELSE s.attempt[t]]
         /\ r.cut = [t \in Tasks |-> IF t \notin ts THEN s.cut[t] ELSE IF s.closing THEN "closed" ELSE "no"]
         /\ r.pending = s.pending /\ r.agent = s.agent /\ r.retry = s.retry /\ r.retryIn = s.retryIn
         /\ r.result = s.result /\ r.settled = s.settled /\ r.launches = s.launches
         /\ r.normalTimer = s.normalTimer /\ r.wakeTimer = s.wakeTimer /\ r.limited = s.limited
         /\ r.capacity = s.capacity /\ r.launchIn = s.launchIn /\ r.recoverIn = s.recoverIn
<1> DEFINE att == [t \in Tasks |-> IF t \in ts THEN Swarm!PlaceOf(s, t) ELSE s.attempt[t]]
           cut == [t \in Tasks |-> IF t \notin ts THEN s.cut[t] ELSE IF s.closing THEN "closed" ELSE "no"]
<1>1. att \in [Tasks -> Swarm!Places]
  BY DEF Batches, Swarm!PlaceOf, Swarm!Places
<1>2. cut \in [Tasks -> {"no", "timeout", "user", "fail", "closed"}] BY DEF Batches
<1>3. s.active \cup ts \in SUBSET Tasks BY DEF Batches
<1>4. Swarm!startAttempts(s, ts) = [s EXCEPT !.active = s.active \cup ts, !.attempt = att, !.cut = cut]
  BY DEF Swarm!startAttempts, Batches, Tasks
<1> HIDE DEF att, cut
<1>5. Swarm!startAttempts(s, ts) \in Batches
  <2>1. PICK active \in SUBSET Tasks : active = s.active \cup ts BY <1>3
  <2>2. [s EXCEPT !.active = active, !.attempt = att, !.cut = cut] \in Batches BY <1>1, <1>2, StartedType, Zenon
  <2> QED BY <1>4, <2>1, <2>2
<1>6. LET r == Swarm!startAttempts(s, ts) IN
         /\ r.active = s.active \cup ts /\ r.attempt = att /\ r.cut = cut
         /\ r.pending = s.pending /\ r.agent = s.agent /\ r.retry = s.retry /\ r.retryIn = s.retryIn
         /\ r.result = s.result /\ r.settled = s.settled /\ r.launches = s.launches
         /\ r.normalTimer = s.normalTimer /\ r.wakeTimer = s.wakeTimer /\ r.limited = s.limited
         /\ r.capacity = s.capacity /\ r.launchIn = s.launchIn /\ r.recoverIn = s.recoverIn
  BY <1>4 DEF Batches
<1> QED BY <1>5, <1>6, Zenon DEF att, cut

\* What leaves the queue, and what it leaves.
LEMMA FirstOfQueue ==
  ASSUME NEW q \in Seq(Tasks), Unrepeated(q), NEW n \in 0 .. Len(q),
         NEW rest, rest = SubSeq(q, n + 1, Len(q))
  PROVE  /\ rest \in Seq(Tasks) /\ Len(rest) = Len(q) - n /\ Unrepeated(rest)
         /\ First(q, n) \subseteq Tasks /\ First(q, n) \subseteq First(q, Len(q))
         /\ First(rest, Len(rest)) = First(q, Len(q)) \ First(q, n)
         /\ IsFiniteSet(First(q, n)) /\ Cardinality(First(q, n)) <= n /\ (n > 0 => First(q, n) # {})
<1>1. Len(q) \in Nat /\ \A i \in 1 .. Len(q) : q[i] \in Tasks OBVIOUS
<1>2. rest \in Seq(Tasks) /\ Len(rest) = Len(q) - n /\ \A i \in 1 .. Len(q) - n : rest[i] = q[n + i]
  BY SubSeqProperties
<1>3. Unrepeated(rest)
  BY <1>1, <1>2 DEF Unrepeated
<1>4. First(rest, Len(rest)) = First(q, Len(q)) \ First(q, n)
  <2>1. ASSUME NEW x \in First(rest, Len(rest)) PROVE x \in First(q, Len(q)) \ First(q, n)
    <3>0. PICK i \in 1 .. Len(rest) : x = rest[i] BY DEF First
    <3>1. n + i \in 1 .. Len(q) /\ rest[i] = q[n + i] BY <1>1, <1>2
    <3>2. \A j \in 1 .. n : q[j] # q[n + i] BY <1>1, <3>1 DEF Unrepeated
    <3> QED BY <3>0, <3>1, <3>2 DEF First
  <2>2. ASSUME NEW x \in First(q, Len(q)), x \notin First(q, n) PROVE x \in First(rest, Len(rest))
    <3>0. PICK j \in 1 .. Len(q) : x = q[j] BY DEF First
    <3>1. j > n BY <2>2, <1>1, <3>0 DEF First
    <3>2. j - n \in 1 .. Len(rest) /\ rest[j - n] = q[j] BY <3>1, <1>1, <1>2
    <3> QED BY <3>0, <3>2 DEF First
  <2> QED BY <2>1, <2>2, Zenon
<1>5. IsFiniteSet(First(q, n)) /\ Cardinality(First(q, n)) <= n
  <2>1. IsFiniteSet(1 .. n) /\ Cardinality(1 .. n) = n BY FS_Interval, <1>1
  <2>2. [i \in 1 .. n |-> q[i]] \in Surjection(1 .. n, First(q, n)) BY DEF Surjection, First
  <2> QED BY <2>1, <2>2, FS_Surjection
<1>6. First(q, n) \subseteq Tasks /\ First(q, n) \subseteq First(q, Len(q)) /\ (n > 0 => First(q, n) # {}) BY <1>1 DEF First
<1> QED BY <1>2, <1>3, <1>4, <1>5, <1>6

LEMMA FirstLaunched ==
  ASSUME NEW s \in Batches, Unrepeated(s.pending), NEW n \in 0 .. Len(s.pending)
  PROVE  LET r == Swarm!LaunchFirst(s, n)  ts == First(s.pending, n) IN
         /\ r \in Batches /\ Starts(s, r, ts) /\ IsFiniteSet(ts) /\ Cardinality(ts) <= n /\ (n > 0 => ts # {})
         /\ Len(r.pending) = Len(s.pending) - n /\ r.launches = s.launches + n
         /\ r.normalTimer = s.normalTimer /\ r.wakeTimer = s.wakeTimer
<1> DEFINE ts == First(s.pending, n)
           m == Swarm!startAttempts(s, ts)
           r == Swarm!LaunchFirst(s, n)
<1>1. PICK rest : rest = SubSeq(s.pending, n + 1, Len(s.pending)) OBVIOUS
<1>a. r = [m EXCEPT !.pending = SubSeq(m.pending, n + 1, Len(m.pending)), !.launches = m.launches + n]
  BY DEF Swarm!LaunchFirst, First
<1>2. s.pending \in Seq(Tasks) BY DEF Batches
<1>3. /\ rest \in Seq(Tasks) /\ Len(rest) = Len(s.pending) - n /\ Unrepeated(rest)
      /\ ts \subseteq Tasks /\ ts \subseteq First(s.pending, Len(s.pending))
      /\ First(rest, Len(rest)) = First(s.pending, Len(s.pending)) \ ts
      /\ IsFiniteSet(ts) /\ Cardinality(ts) <= n /\ (n > 0 => ts # {})
  BY <1>1, <1>2, FirstOfQueue
<1>4. /\ m \in Batches
      /\ m.active = s.active \cup ts
      /\ m.attempt = [t \in Tasks |-> IF t \in ts THEN Swarm!PlaceOf(s, t) ELSE s.attempt[t]]
      /\ m.cut = [t \in Tasks |-> IF t \notin ts THEN s.cut[t] ELSE IF s.closing THEN "closed" ELSE "no"]
      /\ m.pending = s.pending /\ m.agent = s.agent /\ m.retry = s.retry
      /\ m.result = s.result /\ m.settled = s.settled /\ m.launches = s.launches
      /\ m.normalTimer = s.normalTimer /\ m.wakeTimer = s.wakeTimer /\ m.limited = s.limited
  BY <1>3, StartAttemptsType
<1> HIDE DEF ts, m, r
<1>5. r = [m EXCEPT !.pending = rest, !.launches = s.launches + n]
  BY <1>1, <1>4, <1>a
<1>6. s.launches + n \in Nat BY DEF Batches
<1>7. r \in Batches BY <1>4, <1>5, <1>6, <1>3 DEF Batches
<1>8. /\ r.pending = rest /\ r.launches = s.launches + n /\ r.active = m.active /\ r.attempt = m.attempt
      /\ r.cut = m.cut /\ r.agent = m.agent /\ r.retry = m.retry /\ r.result = m.result /\ r.settled = m.settled
      /\ r.limited = m.limited /\ r.normalTimer = m.normalTimer /\ r.wakeTimer = m.wakeTimer
  BY <1>4, <1>5 DEF Batches
<1>9. Starts(s, r, ts)
  <2>1. Waiting(r) = Waiting(s) \ ts /\ ts \subseteq Waiting(s) /\ Unrepeated(r.pending) BY <1>3, <1>8 DEF Waiting
  <2> QED BY <2>1, <1>4, <1>8, Zenon DEF Starts
<1> QED BY <1>3, <1>4, <1>7, <1>8, <1>9 DEF ts, r

LEMMA CapAfterStarts ==
  ASSUME NEW s \in Batches, NEW ts \in SUBSET Tasks, NEW n \in Nat, Cardinality(ts) <= n,
         Cardinality(s.active) + n <= MaxConcurrency
  PROVE  Cardinality(s.active \cup ts) <= MaxConcurrency
<1>1. IsFiniteSet(ts) BY TasksAreFinite, FS_Subset, Zenon
<1>2. IsFiniteSet(s.active) /\ Cardinality(s.active) \in Nat BY RunningIsCounted
<1>3. Cardinality(s.active \cup ts) = Cardinality(s.active) + Cardinality(ts) - Cardinality(s.active \cap ts)
  BY <1>1, <1>2, FS_Union, Zenon
<1>4. IsFiniteSet(s.active \cap ts) BY <1>2, FS_Intersection, Zenon
<1>5. Cardinality(s.active \cap ts) \in Nat /\ Cardinality(ts) \in Nat BY <1>1, <1>4, FS_CardinalityType, Zenon
<1>6. MaxConcurrency \in Nat BY BatchAssumption
<1> QED BY <1>2, <1>3, <1>5, <1>6

LEMMA LimitIsPositive ==
  ASSUME NEW s \in Batches, Swarm!isAtConcurrencyLimit(s)
  PROVE  s.active # {}
<1>1. MaxConcurrency \in Nat BY BatchAssumption
<1> QED BY <1>1, RunningIsCounted DEF Swarm!isAtConcurrencyLimit, Swarm!NoLimit

LEMMA EmptyQueueStarted ==
  ASSUME NEW s \in Batches, NEW r \in Batches, NEW ts, Starts(s, r, ts), r.pending = << >>,
         Waiting(s) \cup s.active # {}
  PROVE  r.active # {}
<1>1. Waiting(r) = {} BY DEF Waiting, First
<1> QED BY <1>1 DEF Starts

LEMMA NormalRoom ==
  ASSUME NEW s \in Batches
  PROVE  LET n == Swarm!Max({0, Swarm!Min({InitialLaunchLimit - s.launches, Len(s.pending), Swarm!Room(s)})}) IN
         /\ n \in 0 .. Len(s.pending)
         /\ MaxConcurrency # 0 /\ Cardinality(s.active) <= MaxConcurrency => Cardinality(s.active) + n <= MaxConcurrency
<1> DEFINE room == Swarm!Room(s)
           low == Swarm!Min({InitialLaunchLimit - s.launches, Len(s.pending), room})
           n == Swarm!Max({0, low})
<1>1. MaxConcurrency \in Nat /\ InitialLaunchLimit \in Nat BY BatchAssumption
<1>2. Len(s.pending) \in Nat /\ s.launches \in Nat BY WaitingAreTasks DEF Batches
<1>3. Cardinality(s.active) \in Nat /\ Swarm!Running(s) = Cardinality(s.active) BY RunningIsCounted
<1>4. room \in Int /\ (MaxConcurrency # 0 => room = IF 0 >= MaxConcurrency - Cardinality(s.active) THEN 0 ELSE MaxConcurrency - Cardinality(s.active))
  <2>1. CASE MaxConcurrency = 0 BY <2>1, <1>2 DEF Swarm!Room, Swarm!NoLimit
  <2>2. CASE MaxConcurrency # 0
    <3>1. room = Swarm!Max({0, MaxConcurrency - Cardinality(s.active)}) BY <2>2, <1>3 DEF Swarm!Room, Swarm!NoLimit
    <3>2. MaxConcurrency - Cardinality(s.active) \in Int BY <1>1, <1>3
    <3> QED BY <3>1, <3>2, MaxOfTwo
  <2> QED BY <2>1, <2>2
<1> HIDE DEF room
<1>5. InitialLaunchLimit - s.launches \in Int BY <1>1, <1>2
<1>6. low \in Int /\ low <= Len(s.pending) /\ low <= room
  <2>1. Len(s.pending) \in Int /\ room \in Int BY <1>2, <1>4
  <2>2. low \in {InitialLaunchLimit - s.launches, Len(s.pending), room} /\ low <= Len(s.pending) /\ low <= room
    BY <1>5, <2>1, MinOfThree, Zenon
  <2> HIDE DEF low
  <2> QED BY <1>5, <2>1, <2>2
<1> HIDE DEF low
<1>7. n = IF 0 >= low THEN 0 ELSE low BY <1>6, MaxOfTwo
<1> HIDE DEF n
<1>8. n \in 0 .. Len(s.pending) BY <1>2, <1>6, <1>7
<1>9. MaxConcurrency # 0 /\ Cardinality(s.active) <= MaxConcurrency => Cardinality(s.active) + n <= MaxConcurrency
  BY <1>1, <1>3, <1>4, <1>6, <1>7
<1> QED BY <1>8, <1>9 DEF n, low, room

LEMMA NormalLaunch ==
  ASSUME NEW s \in Batches, Unrepeated(s.pending), Waiting(s) \cup s.active # {}, CapOK(s), s.limited = FALSE
  PROVE  LET r == Swarm!scheduleNormalLaunch(s) IN
         /\ r \in Batches /\ CapOK(r) /\ Awake(r)
         /\ r.launches + Len(r.pending) = s.launches + Len(s.pending)
         /\ \E ts \in SUBSET Tasks : Starts(s, r, ts)
<1> DEFINE n == Swarm!Max({0, Swarm!Min({InitialLaunchLimit - s.launches, Len(s.pending), Swarm!Room(s)})})
           l == Swarm!LaunchFirst(s, n)
           r == Swarm!scheduleNormalLaunch(s)
           ts == First(s.pending, n)
<1>1. /\ n \in 0 .. Len(s.pending)
      /\ MaxConcurrency # 0 /\ Cardinality(s.active) <= MaxConcurrency => Cardinality(s.active) + n <= MaxConcurrency
  BY NormalRoom
<1>2. r = IF l.pending = << >> \/ l.normalTimer # Swarm!Off \/ Swarm!isAtConcurrencyLimit(l)
          THEN l ELSE [l EXCEPT !.normalTimer = LaunchInterval]
  BY DEF Swarm!scheduleNormalLaunch
<1> HIDE DEF n
<1>3. /\ l \in Batches /\ Starts(s, l, ts) /\ IsFiniteSet(ts) /\ Cardinality(ts) <= n
      /\ Len(l.pending) = Len(s.pending) - n /\ l.launches = s.launches + n
  BY <1>1, FirstLaunched
<1> HIDE DEF l, r, ts
<1>4. LaunchInterval \in Nat BY BatchAssumption
<1>5. /\ r \in Batches /\ r.active = l.active /\ r.pending = l.pending /\ r.launches = l.launches /\ r.limited = l.limited
      /\ r.attempt = l.attempt /\ r.cut = l.cut /\ r.agent = l.agent /\ r.retry = l.retry /\ r.result = l.result
      /\ r.settled = l.settled
  BY <1>2, <1>3, <1>4 DEF Batches, Timers
<1>6. Starts(s, r, ts)
  <2>1. Waiting(r) = Waiting(l) BY <1>5 DEF Waiting
  <2>2. l.limited = FALSE BY <1>3 DEF Starts
  <2> QED BY <1>3, <1>5, <2>1, <2>2 DEF Starts
<1>7. ts \in SUBSET Tasks /\ r.active = s.active \cup ts BY <1>6, WaitingAreTasks DEF Starts
<1>8. r.launches + Len(r.pending) = s.launches + Len(s.pending)
  <2>1. s.launches \in Nat /\ Len(s.pending) \in Nat BY WaitingAreTasks DEF Batches
  <2> QED BY <2>1, <1>1, <1>3, <1>5
<1>9. CapOK(r)
  <2> SUFFICES ASSUME MaxConcurrency # 0 PROVE Cardinality(r.active) <= MaxConcurrency BY DEF CapOK
  <2>1. Cardinality(s.active) <= MaxConcurrency BY DEF CapOK
  <2>2. n \in Nat BY <1>1, WaitingAreTasks
  <2> QED BY <2>1, <2>2, <1>1, <1>3, <1>7, CapAfterStarts
<1>10. Awake(r)
  <2>1. CASE l.pending = << >> BY <2>1, <1>3, <1>5, EmptyQueueStarted DEF Awake
  <2>2. CASE l.normalTimer # Swarm!Off /\ r = l BY <2>2 DEF Awake
  <2>3. CASE Swarm!isAtConcurrencyLimit(l) BY <2>3, <1>3, <1>5, LimitIsPositive DEF Awake
  <2>4. CASE r = [l EXCEPT !.normalTimer = LaunchInterval]
    <3>1. r.normalTimer = LaunchInterval BY <2>4, <1>3 DEF Batches
    <3> QED BY <3>1, <1>4 DEF Awake, Swarm!Off
  <2> QED BY <1>2, <2>1, <2>2, <2>3, <2>4
<1> QED BY <1>5, <1>6, <1>7, <1>8, <1>9, <1>10 DEF r

LEMMA StartsAfter ==
  ASSUME NEW s \in Batches, NEW m \in Batches, NEW r \in Batches, NEW ts, Starts(s, m, {}), Starts(m, r, ts)
  PROVE  Starts(s, r, ts)
<1>1. s.attempt \in [Tasks -> Swarm!Places]
  BY DEF Batches
<1>2. m.attempt = s.attempt BY <1>1 DEF Starts
<1>3. Waiting(m) = Waiting(s) /\ m.active = s.active BY DEF Starts
<1>4. \A t : Swarm!PlaceOf(m, t) = Swarm!PlaceOf(s, t) BY DEF Swarm!PlaceOf, Starts
<1>5. r.attempt = [t \in Tasks |-> IF t \in ts THEN Swarm!PlaceOf(s, t) ELSE s.attempt[t]]
  BY <1>2, <1>4 DEF Starts
<1>7. /\ ts \subseteq Waiting(s) /\ r.active = s.active \cup ts /\ Waiting(r) = Waiting(s) \ ts /\ Unrepeated(r.pending)
      /\ r.agent = s.agent /\ r.retry = s.retry /\ r.result = s.result /\ r.settled = s.settled
      /\ r.limited = s.limited
  BY <1>3 DEF Starts
<1>8. s.limited => r.normalTimer = s.normalTimer BY DEF Starts
<1> QED BY <1>5, <1>7, <1>8, Zenon DEF Starts

LEMMA StartsNone ==
  ASSUME NEW s \in Batches, NEW r \in Batches, Unrepeated(s.pending),
         r.pending = s.pending, r.active = s.active, r.attempt = s.attempt, r.cut = s.cut, r.agent = s.agent,
         r.retry = s.retry, r.result = s.result, r.settled = s.settled, r.limited = s.limited,
         r.normalTimer = s.normalTimer
  PROVE  Starts(s, r, {})
<1>1. s.attempt = [t \in Tasks |-> s.attempt[t]] BY DEF Batches
<1> QED BY <1>1 DEF Starts, Waiting

LEMMA WakeupIsSet ==
  ASSUME NEW s \in Batches, s.pending # << >>
  PROVE  /\ Swarm!NextWakeup(s) \in Nat
         /\ Cardinality(s.active) < s.capacity /\ s.recoverIn > 0 /\ Swarm!NextWakeup(s) = 0
              => \E i \in 1 .. Len(s.pending) : s.retryIn[s.pending[i]] = 0
<1> DEFINE waits == {s.retryIn[s.pending[i]] : i \in DOMAIN s.pending}
           low == Swarm!Min(waits)
           high == Swarm!Max({s.launchIn, low})
           next == Swarm!Min({high, s.recoverIn})
<1>1. s.pending \in Seq(Tasks) /\ s.retryIn \in [Tasks -> Nat] /\ s.launchIn \in Nat /\ s.recoverIn \in Nat /\ s.capacity \in Nat
  BY DEF Batches
<1>2. DOMAIN s.pending = 1 .. Len(s.pending) /\ \A i \in 1 .. Len(s.pending) : s.pending[i] \in Tasks BY <1>1
<1>3. waits \in SUBSET Nat /\ waits # {}
  <2>1. 1 \in DOMAIN s.pending BY <1>1, <1>2
  <2> QED BY <1>1, <1>2, <2>1
<1>4. low \in waits BY <1>3, NaturalsHaveMinimum, Zenon
<1>5. low \in Nat /\ \E i \in 1 .. Len(s.pending) : low = s.retryIn[s.pending[i]] BY <1>2, <1>3, <1>4
<1> HIDE DEF low
<1>6. high \in Nat /\ high >= low
  <2>1. s.launchIn \in Int /\ low \in Int BY <1>1, <1>5
  <2>2. high = IF s.launchIn >= low THEN s.launchIn ELSE low BY <2>1, MaxOfTwo, Zenon
  <2> HIDE DEF high
  <2> QED BY <1>1, <1>5, <2>2
<1> HIDE DEF high
<1>7. {high, s.recoverIn} \in SUBSET Nat /\ {high, s.recoverIn} # {} BY <1>1, <1>6
<1>8. next \in {high, s.recoverIn} BY <1>7, NaturalsHaveMinimum, Zenon
<1> HIDE DEF next
<1>9. Swarm!NextWakeup(s) = IF Cardinality(s.active) >= s.capacity THEN s.recoverIn ELSE next
  BY RunningIsCounted DEF Swarm!NextWakeup, Swarm!nextPendingReadyIn, next, high, low
<1>10. Cardinality(s.active) \in Nat BY RunningIsCounted
<1>11. Swarm!NextWakeup(s) \in Nat BY <1>1, <1>6, <1>8, <1>9
<1>12. Cardinality(s.active) < s.capacity /\ s.recoverIn > 0 /\ Swarm!NextWakeup(s) = 0 => low = 0
  BY <1>1, <1>5, <1>6, <1>8, <1>9, <1>10
<1> QED BY <1>5, <1>11, <1>12

LEMMA WakeupScheduled ==
  ASSUME NEW s \in Batches, Unrepeated(s.pending)
  PROVE  LET r == Swarm!scheduleRateLimitWakeup(s) IN
         /\ r \in Batches /\ Starts(s, r, {}) /\ r.launches = s.launches
         /\ r.wakeTimer = IF s.pending = << >> \/ Swarm!NextWakeup(s) = 0 THEN s.wakeTimer ELSE Swarm!NextWakeup(s)
<1> DEFINE r == Swarm!scheduleRateLimitWakeup(s)
<1>1. CASE s.pending = << >> \/ Swarm!NextWakeup(s) = 0
  <2>1. r = s BY <1>1 DEF Swarm!scheduleRateLimitWakeup
  <2> QED BY <1>1, <2>1, StartsNone
<1>2. CASE ~(s.pending = << >> \/ Swarm!NextWakeup(s) = 0)
  <2>1. r = [s EXCEPT !.wakeTimer = Swarm!NextWakeup(s)] BY <1>2 DEF Swarm!scheduleRateLimitWakeup
  <2>2. Swarm!NextWakeup(s) \in Timers BY <1>2, WakeupIsSet DEF Timers
  <2> HIDE DEF r
  <2>3. r \in Batches BY <2>1, <2>2 DEF Batches
  <2>4. /\ r.pending = s.pending /\ r.active = s.active /\ r.attempt = s.attempt /\ r.cut = s.cut /\ r.agent = s.agent
        /\ r.retry = s.retry /\ r.result = s.result /\ r.settled = s.settled /\ r.limited = s.limited
        /\ r.launches = s.launches /\ r.normalTimer = s.normalTimer /\ r.wakeTimer = Swarm!NextWakeup(s)
    BY <2>1 DEF Batches
  <2> QED BY <1>2, <2>3, <2>4, StartsNone DEF r
<1> QED BY <1>1, <1>2

\* C is P, of length m, followed by Q, of length n.
IsJoined(C, P, Q, m, n) ==
  /\ Len(C) = m + n
  /\ \A i \in 1 .. m : C[i] = P[i]
  /\ \A i \in m + 1 .. m + n : C[i] = Q[i - m]

LEMMA Concatenation ==
  ASSUME NEW S, NEW P \in Seq(S), NEW Q \in Seq(S), NEW m \in Nat, m = Len(P), NEW n \in Nat, n = Len(Q),
         NEW C, C = P \o Q
  PROVE  C \in Seq(S) /\ IsJoined(C, P, Q, m, n)
<1>1. C \in Seq(S) /\ Len(C) = m + n BY ConcatProperties
<1>2. \A i \in 1 .. m + n : C[i] = IF i <= m THEN P[i] ELSE Q[i - m] BY ConcatProperties
<1>3. \A i \in 1 .. m : C[i] = P[i] BY ONLY <1>2, m \in Nat, n \in Nat
<1>4. \A i \in m + 1 .. m + n : C[i] = Q[i - m] BY ONLY <1>2, m \in Nat, n \in Nat
<1> QED BY <1>1, <1>3, <1>4 DEF IsJoined

\* rest is q, a sequence of length len, without its k-th element.
IsWithout(rest, q, k, len) ==
  /\ Len(rest) = len - 1
  /\ \A i \in 1 .. k - 1 : rest[i] = q[i]
  /\ \A i \in k .. len - 1 : rest[i] = q[i + 1]

LEMMA TakenOut ==
  ASSUME NEW S, NEW q \in Seq(S), NEW len \in Nat, len = Len(q), NEW k \in 1 .. len,
         NEW rest, rest = SubSeq(q, 1, k - 1) \o SubSeq(q, k + 1, Len(q))
  PROVE  rest \in Seq(S) /\ IsWithout(rest, q, k, len)
<1>1. PICK P : P = SubSeq(q, 1, k - 1) OBVIOUS
<1>2. PICK Q : Q = SubSeq(q, k + 1, Len(q)) OBVIOUS
<1>3. P \in Seq(S) /\ Len(P) = k - 1 /\ \A i \in 1 .. k - 1 : P[i] = q[i] BY <1>1, SubSeqProperties
<1>4. Q \in Seq(S) /\ Len(Q) = len - k /\ \A i \in 1 .. len - k : Q[i] = q[k + i] BY <1>2, SubSeqProperties
<1>5. PICK m \in Nat, n \in Nat : m = k - 1 /\ n = len - k
  <2>1. k - 1 \in Nat /\ len - k \in Nat BY ONLY k \in 1 .. len, len \in Nat
  <2> QED BY ONLY <2>1
<1>6. rest = P \o Q BY <1>1, <1>2
<1>7. /\ rest \in Seq(S) /\ Len(rest) = m + n
      /\ \A i \in 1 .. m : rest[i] = P[i]
      /\ \A i \in m + 1 .. m + n : rest[i] = Q[i - m]
  <2>1. P \in Seq(S) /\ Q \in Seq(S) /\ m = Len(P) /\ n = Len(Q) BY <1>3, <1>4, <1>5
  <2>2. rest \in Seq(S) /\ IsJoined(rest, P, Q, m, n)
    BY ONLY <2>1, <1>6, m \in Nat, n \in Nat, Concatenation, Zenon
  <2> QED BY ONLY <2>2 DEF IsJoined
<1>8. k \in Nat /\ len \in Nat OBVIOUS
<1>9. ASSUME NEW i \in k .. len - 1 PROVE rest[i] = q[i + 1]
  <2>1. i \in m + 1 .. m + n /\ i - m \in 1 .. len - k /\ k + (i - m) = i + 1 BY ONLY <1>5, <1>8, i \in k .. len - 1
  <2>2. rest[i] = Q[i - m] BY ONLY <1>7, <2>1
  <2>3. Q[i - m] = q[k + (i - m)] BY ONLY <1>4, <2>1
  <2> QED BY ONLY <2>1, <2>2, <2>3
<1>10. \A i \in 1 .. k - 1 : rest[i] = q[i] BY ONLY <1>3, <1>5, <1>7
<1>11. Len(rest) = len - 1 BY ONLY <1>5, <1>7, <1>8
<1> QED BY <1>7, <1>9, <1>10, <1>11 DEF IsWithout

LEMMA TakenFromQueue ==
  ASSUME NEW S, NEW q \in Seq(S), Unrepeated(q), NEW len \in Nat, len = Len(q), NEW k \in 1 .. len,
         NEW rest, IsWithout(rest, q, k, len)
  PROVE  Unrepeated(rest) /\ First(rest, Len(rest)) = First(q, Len(q)) \ {q[k]}
<1> DEFINE at(i) == IF i < k THEN i ELSE i + 1
<1>0. /\ Len(rest) = len - 1
      /\ \A i \in 1 .. k - 1 : rest[i] = q[i]
      /\ \A i \in k .. len - 1 : rest[i] = q[i + 1]
  BY DEF IsWithout
<1>1. k \in Nat /\ len \in Nat OBVIOUS
<1>2. ASSUME NEW i \in 1 .. len - 1 PROVE at(i) \in 1 .. len /\ at(i) # k /\ rest[i] = q[at(i)]
  <2>1. CASE i < k BY <1>0, <1>1, <2>1
  <2>2. CASE ~(i < k) BY <1>0, <1>1, <2>2
  <2> QED BY <2>1, <2>2
<1>3. \A i, j \in 1 .. len : q[i] = q[j] => i = j BY DEF Unrepeated
<1>4. Unrepeated(rest)
  <2>1. ASSUME NEW i \in 1 .. len - 1, NEW j \in 1 .. len - 1, rest[i] = rest[j] PROVE i = j
    <3>1. at(i) \in 1 .. len /\ at(j) \in 1 .. len /\ q[at(i)] = q[at(j)] BY ONLY <1>2, <2>1, i \in 1 .. len - 1, j \in 1 .. len - 1
    <3>2. at(i) = at(j) BY ONLY <1>3, <3>1
    <3> QED BY ONLY <3>2, <1>1, i \in 1 .. len - 1, j \in 1 .. len - 1
  <2> QED BY <1>0, <2>1 DEF Unrepeated
<1>5. ASSUME NEW x \in First(rest, Len(rest)) PROVE x \in First(q, Len(q)) \ {q[k]}
  <2>1. PICK i \in 1 .. len - 1 : x = rest[i] BY <1>0 DEF First
  <2>2. PICK j \in 1 .. len : j # k /\ x = q[j] BY <1>2, <2>1
  <2>3. x # q[k] BY <1>3, <2>2
  <2> QED BY <2>2, <2>3 DEF First
<1>6. ASSUME NEW x \in First(q, Len(q)), x # q[k] PROVE x \in First(rest, Len(rest))
  <2>1. PICK i \in 1 .. len : x = q[i] BY DEF First
  <2>2. CASE i < k
    <3>1. i \in 1 .. k - 1 /\ i \in 1 .. len - 1 BY ONLY <1>1, <2>2, i \in 1 .. len, k \in 1 .. len
    <3>2. rest[i] = q[i] BY <1>0, <3>1
    <3> QED BY <1>0, <2>1, <3>1, <3>2 DEF First
  <2>3. CASE i > k
    <3>1. i - 1 \in k .. len - 1 /\ i - 1 \in 1 .. len - 1 /\ (i - 1) + 1 = i BY ONLY <1>1, <2>3, i \in 1 .. len, k \in 1 .. len
    <3>2. rest[i - 1] = q[(i - 1) + 1] BY <1>0, <3>1
    <3>3. x = rest[i - 1] BY <2>1, <3>1, <3>2
    <3> QED BY <1>0, <3>1, <3>3 DEF First
  <2> QED BY <1>1, <1>6, <2>1, <2>2, <2>3
<1> QED BY <1>4, <1>5, <1>6, Zenon

LEMMA ReadyLaunched ==
  ASSUME NEW s \in Batches, Unrepeated(s.pending), \E i \in 1 .. Len(s.pending) : s.retryIn[s.pending[i]] = 0
  PROVE  LET r == Swarm!LaunchReady(s) IN
         /\ r \in Batches /\ r.launches = s.launches /\ r.active # {}
         /\ \E ts \in SUBSET Tasks : Starts(s, r, ts)
<1> DEFINE ready == {k \in DOMAIN s.pending : s.retryIn[s.pending[k]] = 0}
           i == Swarm!Min(ready)
           t == s.pending[i]
           m == Swarm!startAttempts(s, {t})
           rest == SubSeq(s.pending, 1, i - 1) \o SubSeq(s.pending, i + 1, Len(s.pending))
           l == [m EXCEPT !.pending = SubSeq(m.pending, 1, i - 1) \o SubSeq(m.pending, i + 1, Len(m.pending)),
                          !.launchIn = RetryBase]
           r == Swarm!LaunchReady(s)
<1>1. s.pending \in Seq(Tasks) /\ DOMAIN s.pending = 1 .. Len(s.pending) /\ Len(s.pending) \in Nat
      /\ \A k \in 1 .. Len(s.pending) : s.pending[k] \in Tasks
  BY QueueType
<1>2. ready \in SUBSET Nat /\ ready # {} /\ ready \subseteq 1 .. Len(s.pending) BY <1>1
<1>3. i \in ready BY <1>2, NaturalsHaveMinimum, Zenon
<1>4. i \in 1 .. Len(s.pending) BY <1>2, <1>3
<1>5. r = Swarm!scheduleRateLimitWakeup(l) BY DEF Swarm!LaunchReady
<1>6. t \in Tasks /\ t \in Waiting(s) BY <1>1, <1>4 DEF Waiting, First
<1> HIDE DEF i, ready
<1>7. rest \in Seq(Tasks) /\ Unrepeated(rest) /\ First(rest, Len(rest)) = Waiting(s) \ {t}
  <2>1. PICK q \in Seq(Tasks) : q = s.pending BY <1>1
  <2>2. PICK len \in Nat : len = Len(q) /\ len = Len(s.pending) BY <1>1, <2>1
  <2>3. PICK k \in 1 .. len : k = i BY <1>4, <2>2
  <2>4. rest = SubSeq(q, 1, k - 1) \o SubSeq(q, k + 1, Len(q)) /\ t = q[k] /\ Unrepeated(q) BY <2>1, <2>3
  <2> HIDE DEF rest, t
  <2>5. rest \in Seq(Tasks) /\ IsWithout(rest, q, k, len)
    BY ONLY <2>2, <2>4, q \in Seq(Tasks), len \in Nat, k \in 1 .. len, TakenOut, Zenon
  <2>6. Unrepeated(rest) /\ First(rest, Len(rest)) = First(q, Len(q)) \ {q[k]}
    BY ONLY <2>2, <2>4, <2>5, q \in Seq(Tasks), len \in Nat, k \in 1 .. len, TakenFromQueue, Zenon
  <2> QED BY <2>1, <2>4, <2>5, <2>6 DEF Waiting
<1> HIDE DEF t
<1>9. {t} \in SUBSET Tasks BY <1>6
<1>10. /\ m \in Batches
       /\ m.active = s.active \cup {t}
       /\ m.attempt = [u \in Tasks |-> IF u \in {t} THEN Swarm!PlaceOf(s, u) ELSE s.attempt[u]]
       /\ m.cut = [u \in Tasks |-> IF u \notin {t} THEN s.cut[u] ELSE IF s.closing THEN "closed" ELSE "no"]
       /\ m.pending = s.pending /\ m.agent = s.agent /\ m.retry = s.retry
       /\ m.result = s.result /\ m.settled = s.settled /\ m.launches = s.launches /\ m.limited = s.limited
       /\ m.normalTimer = s.normalTimer
  BY <1>9, StartAttemptsType
<1> HIDE DEF m
<1>11. l = [m EXCEPT !.pending = rest, !.launchIn = RetryBase] BY <1>10 DEF rest
<1>12. RetryBase \in Nat BY BatchAssumption
<1> HIDE DEF l, r
<1>13. l \in Batches BY <1>7, <1>10, <1>11, <1>12 DEF Batches
<1>14. /\ l.pending = rest /\ l.launches = m.launches /\ l.active = m.active /\ l.attempt = m.attempt
       /\ l.cut = m.cut /\ l.agent = m.agent /\ l.retry = m.retry /\ l.result = m.result /\ l.settled = m.settled
       /\ l.limited = m.limited /\ l.normalTimer = m.normalTimer
  BY <1>10, <1>11 DEF Batches
<1>15. Starts(s, l, {t})
  <2>1. Waiting(l) = Waiting(s) \ {t} /\ {t} \subseteq Waiting(s) /\ Unrepeated(l.pending)
    BY <1>6, <1>7, <1>14 DEF Waiting
  <2> QED BY <2>1, <1>10, <1>14, Zenon DEF Starts
<1>16. r \in Batches /\ Starts(l, r, {}) /\ r.launches = l.launches
  BY <1>5, <1>7, <1>13, <1>14, WakeupScheduled
<1>17. Starts(s, r, {t})
  <2>1. /\ r.active = l.active /\ Waiting(r) = Waiting(l) /\ Unrepeated(r.pending) /\ r.agent = l.agent /\ r.retry = l.retry
        /\ r.result = l.result /\ r.settled = l.settled /\ r.limited = l.limited
        /\ (l.limited => r.normalTimer = l.normalTimer)
    BY <1>16 DEF Starts
  <2>2. l.attempt = [u \in Tasks |-> l.attempt[u]] BY <1>13 DEF Batches
  <2>3. r.attempt = l.attempt BY <2>2, <1>16 DEF Starts
  <2> QED BY <2>1, <2>3, <1>15, Zenon DEF Starts
<1>18. r.active # {} BY <1>17 DEF Starts
<1> QED BY <1>9, <1>10, <1>14, <1>16, <1>17, <1>18 DEF r

LEMMA CapacityRecovered ==
  ASSUME NEW s \in Batches, Unrepeated(s.pending)
  PROVE  LET r == Swarm!recoverRateLimitCapacity(s) IN
         /\ r \in Batches /\ Starts(s, r, {}) /\ r.launches = s.launches /\ r.recoverIn > 0 /\ r.pending = s.pending
<1> DEFINE r == Swarm!recoverRateLimitCapacity(s)
<1>1. CASE s.recoverIn > 0
  <2>1. r = s BY <1>1 DEF Swarm!recoverRateLimitCapacity
  <2> QED BY <1>1, <2>1, StartsNone
<1>2. CASE ~(s.recoverIn > 0)
  <2>1. r = [s EXCEPT !.capacity = s.capacity + 1, !.recoverIn = RecoveryInterval, !.launchIn = 0]
    BY <1>2 DEF Swarm!recoverRateLimitCapacity
  <2>2. RecoveryInterval \in Nat /\ RecoveryInterval > 0 BY BatchAssumption
  <2>3. s.capacity + 1 \in Nat \ {0} BY DEF Batches
  <2> HIDE DEF r
  <2>4. r \in Batches BY <2>1, <2>2, <2>3 DEF Batches
  <2>5. /\ r.pending = s.pending /\ r.active = s.active /\ r.attempt = s.attempt /\ r.cut = s.cut /\ r.agent = s.agent
        /\ r.retry = s.retry /\ r.result = s.result /\ r.settled = s.settled /\ r.limited = s.limited
        /\ r.launches = s.launches /\ r.normalTimer = s.normalTimer /\ r.recoverIn = RecoveryInterval
    BY <2>1 DEF Batches
  <2> QED BY <2>2, <2>4, <2>5, StartsNone DEF r
<1> QED BY <1>1, <1>2

LEMMA LimitedLaunch ==
  ASSUME NEW s \in Batches, Unrepeated(s.pending), Waiting(s) \cup s.active # {}
  PROVE  LET r == Swarm!scheduleRateLimitLaunch(s) IN
         /\ r \in Batches /\ r.launches = s.launches /\ Awake(r)
         /\ \E ts \in SUBSET Tasks : Starts(s, r, ts)
<1> DEFINE c == [s EXCEPT !.wakeTimer = Swarm!Off]
           m == Swarm!recoverRateLimitCapacity(c)
           r == Swarm!scheduleRateLimitLaunch(s)
<1>1. r = IF s.pending = << >> THEN c
          ELSE IF Swarm!Running(m) < m.capacity /\ Swarm!NextWakeup(m) = 0
               THEN Swarm!LaunchReady(m) ELSE Swarm!scheduleRateLimitWakeup(m)
  BY DEF Swarm!scheduleRateLimitLaunch
<1>2. c \in Batches BY DEF Batches, Timers
<1>3. /\ c.pending = s.pending /\ c.active = s.active /\ c.attempt = s.attempt /\ c.cut = s.cut /\ c.agent = s.agent
      /\ c.retry = s.retry /\ c.result = s.result /\ c.settled = s.settled /\ c.limited = s.limited
      /\ c.launches = s.launches /\ c.normalTimer = s.normalTimer
  BY DEF Batches
<1> HIDE DEF c, r
<1>4. Starts(s, c, {}) BY <1>2, <1>3, StartsNone
<1>5. /\ m \in Batches /\ Starts(c, m, {}) /\ m.launches = c.launches /\ m.recoverIn > 0 /\ m.pending = c.pending
  BY <1>2, <1>3, CapacityRecovered
<1> HIDE DEF m
<1>6. Starts(s, m, {}) BY <1>2, <1>4, <1>5, StartsAfter
<1>7. Unrepeated(m.pending) BY <1>6 DEF Starts
<1>8. CASE s.pending = << >>
  <2>1. r = c BY <1>1, <1>8
  <2>2. Waiting(s) = {} BY <1>8 DEF Waiting, First
  <2>3. Awake(r) BY <2>1, <2>2, <1>3 DEF Awake
  <2> QED BY <2>1, <2>3, <1>2, <1>3, <1>4 DEF r
<1>9. CASE s.pending # << >> /\ Swarm!Running(m) < m.capacity /\ Swarm!NextWakeup(m) = 0
  <2>1. r = Swarm!LaunchReady(m) BY <1>1, <1>9
  <2>2. m.pending # << >> BY <1>3, <1>5, <1>9
  <2>3. \E i \in 1 .. Len(m.pending) : m.retryIn[m.pending[i]] = 0
    BY <1>5, <1>9, <2>2, WakeupIsSet, RunningIsCounted
  <2>4. r \in Batches /\ r.launches = m.launches /\ r.active # {} /\ \E ts \in SUBSET Tasks : Starts(m, r, ts)
    BY <1>5, <1>7, <2>1, <2>3, ReadyLaunched
  <2>5. PICK ts \in SUBSET Tasks : Starts(m, r, ts) BY <2>4
  <2>6. Starts(s, r, ts) BY <1>5, <1>6, <2>4, <2>5, StartsAfter
  <2> QED BY <2>4, <2>6, <1>3, <1>5 DEF r, Awake
<1>10. CASE s.pending # << >> /\ ~(Swarm!Running(m) < m.capacity /\ Swarm!NextWakeup(m) = 0)
  <2>1. r = Swarm!scheduleRateLimitWakeup(m) BY <1>1, <1>10
  <2>2. m.pending # << >> BY <1>3, <1>5, <1>10
  <2>3. /\ r \in Batches /\ Starts(m, r, {}) /\ r.launches = m.launches
        /\ r.wakeTimer = IF m.pending = << >> \/ Swarm!NextWakeup(m) = 0 THEN m.wakeTimer ELSE Swarm!NextWakeup(m)
    BY <1>5, <1>7, <2>1, WakeupScheduled
  <2>4. Starts(s, r, {}) BY <1>5, <1>6, <2>3, StartsAfter
  <2>5. Awake(r)
    <3>1. CASE Swarm!NextWakeup(m) = 0
      <4>0. Swarm!Running(m) = Cardinality(m.active) /\ Cardinality(m.active) \in Nat BY <1>5, RunningIsCounted
      <4>1. Cardinality(m.active) >= m.capacity /\ m.capacity \in Nat \ {0} /\ Cardinality(m.active) \in Nat
        BY <1>5, <1>10, <3>1, <4>0 DEF Batches
      <4>2. m.active # {} BY <4>1, <1>5, RunningIsCounted
      <4> QED BY <4>2, <2>3 DEF Awake, Starts
    <3>2. CASE Swarm!NextWakeup(m) # 0
      <4>1. r.wakeTimer = Swarm!NextWakeup(m) /\ Swarm!NextWakeup(m) \in Nat BY <1>5, <2>2, <2>3, <3>2, WakeupIsSet
      <4> QED BY <4>1 DEF Awake, Swarm!Off
    <3> QED BY <3>1, <3>2
  <2> QED BY <2>3, <2>4, <2>5, <1>3, <1>5 DEF r
<1> QED BY <1>8, <1>9, <1>10
----------------------------------------------------------------------------
(* Scheduling keeps the invariant.                                         *)

SwarmOK(s, e) == QueueOK(s) /\ AttemptsOK(s) /\ CountOK(s) /\ CapOK(s) /\ EventsOK(s, e)
StoppedOK(s) ==
  s.settled # "no" => s.active = {} /\ s.normalTimer = Swarm!Off /\ s.wakeTimer = Swarm!Off

LEMMA StartsKeepQueue ==
  ASSUME NEW s \in Batches, NEW r \in Batches, NEW ts, Starts(s, r, ts), QueueOK(s), AttemptsOK(s), s.settled = "no",
         NEW agents, AgentsOK(s, agents)
  PROVE  QueueOK(r) /\ AttemptsOK(r) /\ AgentsOK(r, agents) /\ r.agent = s.agent
<1>1. Waiting(s) \in SUBSET Tasks /\ ts \in SUBSET Tasks BY WaitingAreTasks DEF Starts
<1>2. /\ ts \subseteq Waiting(s) /\ r.active = s.active \cup ts /\ Waiting(r) = Waiting(s) \ ts /\ Unrepeated(r.pending)
      /\ \A t \in Tasks : r.attempt[t] = IF t \in ts THEN Swarm!PlaceOf(s, t) ELSE s.attempt[t]
      /\ r.agent = s.agent /\ r.retry = s.retry /\ r.result = s.result /\ r.settled = "no"
  BY DEF Starts
<1>3. QueueOK(r) BY <1>1, <1>2 DEF QueueOK, Open
<1>4. \A t \in ts : Swarm!PlaceOf(s, t) \in {"retry", "resume", "spawn"} /\ (Swarm!PlaceOf(s, t) = "retry" => t \in s.retry)
  BY DEF Swarm!PlaceOf
<1>5. s.active \in SUBSET Tasks BY DEF Batches
<1>6. AttemptsOK(r) BY <1>1, <1>2, <1>4, <1>5 DEF AttemptsOK, Live
<1>7. AgentsOK(r, agents) BY <1>1, <1>2, <1>4 DEF AgentsOK
<1> QED BY <1>2, <1>3, <1>6, <1>7

LEMMA StartsKeepEvents ==
  ASSUME NEW s \in Batches, NEW r \in Batches, NEW ts, Starts(s, r, ts), QueueOK(s), AttemptsOK(s), s.settled = "no",
         NEW e \in Reports, EventsOK(s, e)
  PROVE  EventsOK(r, e)
<1>1. Waiting(s) \in SUBSET Tasks /\ ts \in SUBSET Tasks BY WaitingAreTasks DEF Starts
<1>2. /\ ts \subseteq Waiting(s) /\ Waiting(r) = Waiting(s) \ ts
      /\ \A t \in Tasks : r.attempt[t] = IF t \in ts THEN Swarm!PlaceOf(s, t) ELSE s.attempt[t]
      /\ r.retry = s.retry /\ r.result = s.result /\ r.settled = "no"
  BY DEF Starts
<1>3. \A t \in ts : s.result[t] = "none" /\ s.attempt[t] = IF t \in s.retry THEN "over" ELSE "none"
  BY <1>1, <1>2 DEF QueueOK, Open, AttemptsOK
<1>4. SUFFICES ASSUME NEW t \in Tasks
      PROVE /\ t \in e.terminalized => Said(e, t)
            /\ t \notin e.terminalized => e.ended[t] = 0 \/ (e.ended[t] = 1 /\ r.attempt[t] = "over" /\ r.result[t] # "none")
            /\ r.settled = "no" /\ r.result[t] = "none" => t \notin e.terminalized
            /\ r.attempt[t] \in {"none", "spawn", "resume"} => t \notin e.spawned
            /\ t \in Shown(e) /\ e.ended[t] = 0
                 => r.attempt[t] \in {"retry", "start", "run"} \/ (r.settled = "no" /\ t \in Waiting(r) /\ t \in r.retry)
  BY DEF EventsOK
<1>5. /\ t \in e.terminalized => Said(e, t)
      /\ t \notin e.terminalized => e.ended[t] = 0 \/ (e.ended[t] = 1 /\ s.attempt[t] = "over" /\ s.result[t] # "none")
      /\ s.result[t] = "none" => t \notin e.terminalized
      /\ s.attempt[t] \in {"none", "spawn", "resume"} => t \notin e.spawned
      /\ t \in Shown(e) /\ e.ended[t] = 0
           => s.attempt[t] \in {"retry", "start", "run"} \/ (t \in Waiting(s) /\ t \in s.retry)
  BY DEF EventsOK
<1>6. CASE t \notin ts
  <2>1. r.attempt[t] = s.attempt[t] BY <1>2, <1>6
  <2>2. t \in Waiting(r) <=> t \in Waiting(s) BY <1>2, <1>6
  <2> QED BY <1>2, <1>5, <2>1, <2>2
<1>7. CASE t \in ts /\ t \in s.retry
  <2>1. r.attempt[t] = "retry" BY <1>2, <1>7 DEF Swarm!PlaceOf
  <2> QED BY <1>2, <1>3, <1>5, <1>7, <2>1
<1>8. CASE t \in ts /\ t \notin s.retry
  <2>1. r.attempt[t] \in {"spawn", "resume"} BY <1>2, <1>8 DEF Swarm!PlaceOf
  <2>2. t \notin e.spawned BY <1>3, <1>5, <1>8
  <2> QED BY <1>2, <1>3, <1>5, <1>8, <2>1, <2>2
<1> QED BY <1>6, <1>7, <1>8

LEMMA ClearedType ==
  ASSUME NEW s \in Batches, NEW n \in Nat \ {0}, NEW m \in Nat
  PROVE  [s EXCEPT !.capacity = n, !.launchIn = m, !.recoverIn = m, !.shrinkIn = m] \in Batches
<1>1. PICK r : r = [s EXCEPT !.capacity = n, !.launchIn = m] OBVIOUS
<1>2. r \in Batches BY <1>1 DEF Batches
<1>3. PICK x : x = [r EXCEPT !.recoverIn = m, !.shrinkIn = m] OBVIOUS
<1>4. x \in Batches BY <1>2, <1>3 DEF Batches
<1> QED BY <1>1, <1>3, <1>4

LEMMA FinishFacts ==
  ASSUME NEW s \in Batches, NEW how \in {"resolved", "cancelled", "rejected"}
  PROVE  LET r == Swarm!Finish(s, how) IN
         /\ r \in Batches /\ r.settled = how /\ r.active = {} /\ r.normalTimer = Swarm!Off /\ r.wakeTimer = Swarm!Off
         /\ r.attempt = s.attempt /\ r.cut = s.cut /\ r.agent = s.agent /\ r.retry = {}
         /\ r.result = s.result /\ r.launches = s.launches
<1> DEFINE r == Swarm!Finish(s, how)
<1>a. PICK none \in Seq(Tasks) : none = << >>
  <2>1. << >> \in Seq(Tasks) BY EmptySeq
  <2> QED BY <2>1
<1>b. PICK zero \in [Tasks -> Nat] : zero = [t \in Tasks |-> 0]
  <2>1. [t \in Tasks |-> 0] \in [Tasks -> Nat] OBVIOUS
  <2> QED BY <2>1
<1>1. r = [s EXCEPT !.settled = how, !.active = {}, !.normalTimer = Swarm!Off, !.wakeTimer = Swarm!Off, !.pending = none,
                    !.retry = {}, !.retries = zero, !.retryIn = zero, !.limited = FALSE, !.successes = 0,
                    !.capacity = 1, !.launchIn = 0, !.recoverIn = 0, !.shrinkIn = 0]
  BY <1>a, <1>b DEF Swarm!Finish, Tasks
<1>c. PICK x : x = [s EXCEPT !.settled = how, !.active = {}, !.normalTimer = Swarm!Off, !.wakeTimer = Swarm!Off,
                           !.pending = none, !.retry = {}, !.retries = zero] OBVIOUS
<1>d. r = [x EXCEPT !.retryIn = zero, !.limited = FALSE, !.successes = 0, !.capacity = 1, !.launchIn = 0,
                    !.recoverIn = 0, !.shrinkIn = 0]
  BY <1>1, <1>c DEF Batches
<1> HIDE DEF r
<1>e. x \in Batches BY <1>c DEF Batches, Timers
<1>2. r \in Batches
  <2>1. PICK y : y = [x EXCEPT !.retryIn = zero, !.limited = FALSE, !.successes = 0] OBVIOUS
  <2>2. y \in Batches BY <1>e, <2>1 DEF Batches
  <2>3. r = [y EXCEPT !.capacity = 1, !.launchIn = 0, !.recoverIn = 0, !.shrinkIn = 0] BY <1>d, <2>1
  <2>4. 1 \in Nat \ {0} /\ 0 \in Nat OBVIOUS
  <2> QED BY <2>2, <2>3, <2>4, ClearedType, Zenon
<1>3. /\ r.settled = how /\ r.active = {} /\ r.normalTimer = Swarm!Off /\ r.wakeTimer = Swarm!Off
      /\ r.attempt = s.attempt /\ r.cut = s.cut /\ r.agent = s.agent /\ r.retry = {}
      /\ r.result = s.result /\ r.launches = s.launches
  BY <1>1 DEF Batches
<1> QED BY <1>2, <1>3 DEF r

LEMMA CapWhenIdle == ASSUME NEW r, r.active = {} PROVE CapOK(r)
<1>1. Cardinality(r.active) = 0 BY FS_EmptySet
<1> QED BY <1>1, BatchAssumption DEF CapOK

\* A batch that is over has no attempts under way but those cut off.
LEMMA FinishKeeps ==
  ASSUME NEW s \in Batches, NEW e \in Reports, SwarmOK(s, e), s.settled = "no", Open(s) = {}
  PROVE  LET r == Swarm!Finish(s, "resolved") IN SwarmOK(r, e) /\ AwakeOK(r) /\ OpenOK(r)
<1> DEFINE r == Swarm!Finish(s, "resolved")
<1>1. /\ r \in Batches /\ r.settled = "resolved" /\ r.active = {} /\ r.normalTimer = Swarm!Off /\ r.wakeTimer = Swarm!Off
      /\ r.attempt = s.attempt /\ r.cut = s.cut /\ r.agent = s.agent /\ r.retry = {}
      /\ r.result = s.result /\ r.launches = s.launches
  BY FinishFacts
<1> HIDE DEF r
<1>2. s.active = {} /\ Waiting(s) = {} BY DEF SwarmOK, QueueOK
<1>3. \A t \in Tasks : s.attempt[t] \notin Live BY <1>2 DEF SwarmOK, AttemptsOK
<1>4. QueueOK(r) BY <1>1 DEF QueueOK
<1>5. AttemptsOK(r) BY <1>1, <1>2, <1>3 DEF SwarmOK, AttemptsOK
<1>6. CountOK(r) BY <1>1 DEF SwarmOK, CountOK, Timers
<1>7. CapOK(r) BY <1>1, CapWhenIdle
<1>8. EventsOK(r, e)
  <2>1. EventsOK(s, e) BY DEF SwarmOK
  <2>2. \A t \in Tasks : s.attempt[t] \notin {"retry", "start", "run"} BY <1>3 DEF Live
  <2> QED BY <1>1, <1>2, <2>1, <2>2 DEF EventsOK
<1> QED BY <1>1, <1>4, <1>5, <1>6, <1>7, <1>8 DEF SwarmOK, AwakeOK, OpenOK, r

LEMMA ScheduleKeeps ==
  ASSUME NEW s \in Batches, NEW e \in Reports, SwarmOK(s, e), StoppedOK(s), NEW agents, AgentsOK(s, agents)
  PROVE  LET r == Swarm!schedule(s) IN
         /\ r \in Batches /\ SwarmOK(r, e) /\ AwakeOK(r) /\ OpenOK(r)
         /\ AgentsOK(r, agents) /\ r.agent = s.agent
<1> DEFINE r == Swarm!schedule(s)
<1>1. CASE s.settled # "no"
  <2>1. r = s BY <1>1 DEF Swarm!schedule
  <2> QED BY <1>1, <2>1 DEF AwakeOK, OpenOK, StoppedOK
<1>2. CASE s.settled = "no" /\ Open(s) = {}
  <2>1. \A t \in Tasks : s.result[t] # "none" BY <1>2 DEF Open
  <2>2. r = Swarm!Finish(s, "resolved") BY <1>2, <2>1 DEF Swarm!schedule, Tasks
  <2>3. r \in Batches /\ r.retry = {} /\ r.attempt = s.attempt /\ r.agent = s.agent BY <2>2, FinishFacts
  <2>4. AgentsOK(r, agents) BY <2>3 DEF AgentsOK
  <2> QED BY <1>2, <2>2, <2>3, <2>4, FinishKeeps
<1>3. CASE s.settled = "no" /\ Open(s) # {}
  <2>1. ~(\A t \in Tasks : s.result[t] # "none") BY <1>3 DEF Open
  <2>2. r = IF s.limited THEN Swarm!scheduleRateLimitLaunch(s) ELSE Swarm!scheduleNormalLaunch(s)
    BY <1>3, <2>1 DEF Swarm!schedule, Tasks
  <2> HIDE DEF r
  <2>3. QueueOK(s) /\ AttemptsOK(s) /\ CountOK(s) /\ CapOK(s) /\ EventsOK(s, e) BY DEF SwarmOK
  <2>4. Unrepeated(s.pending) /\ Waiting(s) \cup s.active # {} BY <1>3, <2>3 DEF QueueOK
  <2>5. s.limited \in BOOLEAN BY DEF Batches
  <2>6. /\ r \in Batches /\ Awake(r) /\ CapOK(r) /\ CountOK(r)
        /\ \E ts \in SUBSET Tasks : Starts(s, r, ts)
    <3>1. CASE s.limited
      <4>1. r \in Batches /\ r.launches = s.launches /\ Awake(r) /\ \E ts \in SUBSET Tasks : Starts(s, r, ts)
        BY <2>2, <2>4, <3>1, LimitedLaunch
      <4>2. r.limited = s.limited /\ r.normalTimer = s.normalTimer BY <3>1, <4>1 DEF Starts
      <4> QED BY <4>1, <4>2, <3>1, <2>3 DEF CapOK, CountOK
    <3>2. CASE s.limited = FALSE
      <4>1. /\ r \in Batches /\ CapOK(r) /\ Awake(r)
            /\ r.launches + Len(r.pending) = s.launches + Len(s.pending)
            /\ \E ts \in SUBSET Tasks : Starts(s, r, ts)
        BY <2>2, <2>3, <2>4, <3>2, NormalLaunch
      <4>2. s.launches + Len(s.pending) = NumTasks BY <1>3, <2>3, <3>2 DEF CountOK
      <4>3. r.launches \in Nat /\ Len(r.pending) \in Nat BY <4>1, WaitingAreTasks DEF Batches
      <4>4. CountOK(r)
        <5>1. NumTasks \in Nat BY BatchAssumption
        <5>2. r.launches <= NumTasks BY <4>1, <4>2, <4>3, <5>1
        <5>3. r.limited = FALSE BY <3>2, <4>1 DEF Starts
        <5> QED BY <4>1, <4>2, <5>2, <5>3 DEF CountOK
      <4> QED BY <4>1, <4>4
    <3> QED BY <2>5, <3>1, <3>2
  <2>7. PICK ts \in SUBSET Tasks : Starts(s, r, ts) BY <2>6
  <2>8. QueueOK(r) /\ AttemptsOK(r) /\ AgentsOK(r, agents) /\ r.agent = s.agent BY <1>3, <2>3, <2>6, <2>7, StartsKeepQueue
  <2>9. EventsOK(r, e) BY <1>3, <2>3, <2>6, <2>7, StartsKeepEvents
  <2>10. r.settled = "no" /\ r.result = s.result BY <1>3, <2>7 DEF Starts
  <2> QED BY <2>6, <2>8, <2>9, <2>10, <1>3 DEF SwarmOK, AwakeOK, OpenOK, Open, r
<1> QED BY <1>1, <1>2, <1>3
----------------------------------------------------------------------------
(* Outcomes of attempts.                                                   *)

BatchIInv(s, e) ==
  s \in Batches /\ e \in Reports /\ SwarmOK(s, e) /\ AgentsOK(s, s.agent) /\ AwakeOK(s) /\ OpenOK(s)

\* e2 is e after the parent heard of the end of t's attempt, or need not.
Told(s, e, e2, t) ==
  /\ \A u \in Tasks \ {t} : /\ e2.ended[u] = e.ended[u]
                            /\ (u \in e2.terminalized <=> u \in e.terminalized)
                            /\ (u \in e2.spawned <=> u \in e.spawned)
                            /\ (u \in e2.refused <=> u \in e.refused)
                            /\ (u \in e2.lost <=> u \in e.lost)
                            /\ (u \in e2.vanished <=> u \in e.vanished)
  /\ t \in e2.terminalized => Said(e2, t)
  /\ t \notin e2.terminalized => e2.ended[t] = 0 \/ (e2.ended[t] = 1 /\ t \in s.active)
  /\ t \in Shown(e2) => e2.ended[t] = 1

LEMMA ActiveIsOpen ==
  ASSUME NEW s, NEW e, BatchIInv(s, e), NEW t \in s.active
  PROVE  s.settled = "no" /\ t \in Tasks /\ s.result[t] = "none" /\ t \notin Waiting(s) /\ t \notin e.terminalized
         /\ e.ended[t] = 0
<1>1. s.settled = "no" BY DEF BatchIInv, AwakeOK
<1>2. t \in Tasks BY DEF BatchIInv, Batches
<1>3. s.result[t] = "none" /\ t \notin Waiting(s) BY <1>1 DEF BatchIInv, SwarmOK, QueueOK, Open
<1>4. s.attempt[t] # "over" BY DEF BatchIInv, SwarmOK, AttemptsOK, Live
<1>5. t \notin e.terminalized /\ e.ended[t] = 0 BY <1>1, <1>2, <1>3 DEF BatchIInv, SwarmOK, EventsOK
<1> QED BY <1>1, <1>2, <1>3, <1>5

\* An attempt that was not cut off is still counted as under way.
LEMMA UncutIsActive ==
  ASSUME NEW s, NEW e, BatchIInv(s, e), NEW t \in Tasks, s.attempt[t] \in Live, s.cut[t] = "no"
  PROVE  t \in s.active
BY DEF BatchIInv, SwarmOK, AttemptsOK

LEMMA CapWithFewer ==
  ASSUME NEW s \in Batches, CapOK(s), NEW r, r.limited = s.limited, r.active \subseteq s.active
  PROVE  CapOK(r)
<1>1. IsFiniteSet(s.active) /\ Cardinality(s.active) \in Nat BY RunningIsCounted
<1>2. r.active \in SUBSET s.active OBVIOUS
<1>3. Cardinality(r.active) <= Cardinality(s.active) /\ IsFiniteSet(r.active) BY <1>1, <1>2, FS_Subset, Zenon
<1>4. Cardinality(r.active) \in Nat /\ MaxConcurrency \in Nat BY <1>3, FS_CardinalityType, BatchAssumption
<1> QED BY <1>1, <1>3, <1>4 DEF CapOK

\* x is s with t's attempt over and its result known.
Closes(s, x, t, status) ==
  /\ x.pending = s.pending /\ x.active = s.active \ {t} /\ x.agent = s.agent /\ x.retry = s.retry
  /\ x.settled = s.settled /\ x.limited = s.limited /\ x.launches = s.launches
  /\ x.normalTimer = s.normalTimer
  /\ \A u \in Tasks : x.attempt[u] = IF u = t THEN "over" ELSE s.attempt[u]
  /\ \A u \in Tasks \ {t} : x.cut[u] = s.cut[u]
  /\ \A u \in Tasks : x.result[u] = IF u = t THEN status ELSE s.result[u]

LEMMA ResultKeeps ==
  ASSUME NEW s, NEW e, BatchIInv(s, e), NEW e2 \in Reports, NEW t \in s.active,
         NEW status \in {"completed", "failed"}, Told(s, e, e2, t), NEW x \in Batches, Closes(s, x, t, status)
  PROVE  BatchIInv(Swarm!schedule(x), e2)
<1>1. /\ s \in Batches /\ QueueOK(s) /\ AttemptsOK(s) /\ CountOK(s) /\ CapOK(s) /\ EventsOK(s, e) /\ AwakeOK(s)
      /\ OpenOK(s) /\ AgentsOK(s, s.agent)
  BY DEF BatchIInv, SwarmOK
<1>2. /\ x.pending = s.pending /\ x.active = s.active \ {t} /\ x.agent = s.agent /\ x.retry = s.retry
      /\ x.settled = s.settled /\ x.limited = s.limited /\ x.launches = s.launches
      /\ x.normalTimer = s.normalTimer
      /\ \A u \in Tasks : x.attempt[u] = IF u = t THEN "over" ELSE s.attempt[u]
      /\ \A u \in Tasks \ {t} : x.cut[u] = s.cut[u]
      /\ \A u \in Tasks : x.result[u] = IF u = t THEN status ELSE s.result[u]
  BY DEF Closes
<1>3. s.settled = "no" /\ s.result[t] = "none" /\ t \notin Waiting(s) BY ActiveIsOpen
<1>4. Waiting(x) = Waiting(s) /\ Waiting(s) \in SUBSET Tasks BY <1>1, <1>2, WaitingAreTasks DEF Waiting
<1>5. QueueOK(x)
  <2>1. Open(x) = Open(s) \ {t} BY <1>2 DEF Open
  <2> QED BY <1>1, <1>2, <1>3, <1>4, <2>1 DEF QueueOK
<1>6. AttemptsOK(x)
  <2>1. s.active \in SUBSET Tasks BY <1>1 DEF Batches
  <2> QED BY <1>1, <1>2, <1>3, <1>4, <2>1 DEF AttemptsOK, Live
<1>7. CountOK(x) BY <1>1, <1>2 DEF CountOK
<1>8. CapOK(x) BY <1>1, <1>2, CapWithFewer
<1>9. EventsOK(x, e2)
  <2>1. ASSUME NEW u \in Tasks
        PROVE /\ u \in e2.terminalized => Said(e2, u)
              /\ u \notin e2.terminalized => e2.ended[u] = 0 \/ (e2.ended[u] = 1 /\ x.attempt[u] = "over" /\ x.result[u] # "none")
              /\ x.settled = "no" /\ x.result[u] = "none" => u \notin e2.terminalized
              /\ x.attempt[u] \in {"none", "spawn", "resume"} => u \notin e2.spawned
              /\ u \in Shown(e2) /\ e2.ended[u] = 0
                   => x.attempt[u] \in {"retry", "start", "run"} \/ (x.settled = "no" /\ u \in Waiting(x) /\ u \in x.retry)
    <3>1. CASE u = t BY <1>2, <3>1 DEF Told
    <3>2. CASE u # t
      <4>1. /\ e2.ended[u] = e.ended[u] /\ (u \in e2.terminalized <=> u \in e.terminalized)
            /\ (u \in e2.spawned <=> u \in e.spawned) /\ (u \in e2.refused <=> u \in e.refused)
            /\ (u \in e2.lost <=> u \in e.lost) /\ (u \in e2.vanished <=> u \in e.vanished)
        BY <3>2 DEF Told
      <4> QED BY <1>1, <1>2, <1>3, <1>4, <3>2, <4>1 DEF EventsOK, Said, Shown
    <3> QED BY <3>1, <3>2
  <2> QED BY <2>1 DEF EventsOK
<1>10. StoppedOK(x) BY <1>2, <1>3 DEF StoppedOK
<1>11. AgentsOK(x, x.agent) BY <1>1, <1>2 DEF AgentsOK
<1> QED BY <1>5, <1>6, <1>7, <1>8, <1>9, <1>10, <1>11, ScheduleKeeps DEF SwarmOK, BatchIInv

LEMMA OutcomeKeeps ==
  ASSUME NEW s, NEW e, BatchIInv(s, e), NEW e2 \in Reports, NEW t \in Tasks, s.attempt[t] \in Live,
         NEW status \in {"completed", "failed"}, Told(s, e, e2, t)
  PROVE  BatchIInv(Swarm!handleAttemptOutcome(s, t, status), e2)
<1> DEFINE r == Swarm!handleAttemptOutcome(s, t, status)
<1>1. /\ s \in Batches /\ QueueOK(s) /\ AttemptsOK(s) /\ CountOK(s) /\ CapOK(s) /\ EventsOK(s, e) /\ AwakeOK(s)
      /\ OpenOK(s) /\ AgentsOK(s, s.agent)
  BY DEF BatchIInv, SwarmOK
<1>2. "over" \in Swarm!Places BY DEF Swarm!Places
<1>3. CASE t \notin s.active
  <2>1. r = [s EXCEPT !.attempt[t] = "over", !.cut[t] = "no"] BY <1>3 DEF Swarm!handleAttemptOutcome
  <2> HIDE DEF r
  <2>2. r \in Batches BY <1>1, <1>2, <2>1 DEF Batches
  <2>3. /\ r.pending = s.pending /\ r.active = s.active /\ r.agent = s.agent /\ r.retry = s.retry
        /\ r.result = s.result /\ r.settled = s.settled /\ r.limited = s.limited /\ r.launches = s.launches
        /\ r.normalTimer = s.normalTimer /\ r.wakeTimer = s.wakeTimer
        /\ \A u \in Tasks : r.attempt[u] = IF u = t THEN "over" ELSE s.attempt[u]
        /\ \A u \in Tasks \ {t} : r.cut[u] = s.cut[u]
    BY <1>1, <2>1 DEF Batches
  <2>4. s.settled # "no" /\ r.settled # "no" BY <1>1, <1>3, <2>3 DEF AttemptsOK
  <2>5. QueueOK(r) /\ CountOK(r) /\ CapOK(r) /\ AwakeOK(r) /\ OpenOK(r)
    BY <1>1, <2>3, <2>4 DEF QueueOK, CountOK, CapOK, AwakeOK, OpenOK
  <2>6. AttemptsOK(r)
    <3>1. s.active = {} BY <1>1, <2>4 DEF AwakeOK
    <3> QED BY <1>1, <2>3, <2>4, <3>1 DEF AttemptsOK, Live
  <2>7. EventsOK(r, e2)
    <3>1. ASSUME NEW u \in Tasks
          PROVE /\ u \in e2.terminalized => Said(e2, u)
                /\ u \notin e2.terminalized => e2.ended[u] = 0 \/ (e2.ended[u] = 1 /\ r.attempt[u] = "over" /\ r.result[u] # "none")
                /\ r.attempt[u] \in {"none", "spawn", "resume"} => u \notin e2.spawned
                /\ u \in Shown(e2) /\ e2.ended[u] = 0 => r.attempt[u] \in {"retry", "start", "run"}
      <4>1. CASE u = t BY <1>3, <2>3, <4>1 DEF Told
      <4>2. CASE u # t
        <5>1. /\ e2.ended[u] = e.ended[u] /\ (u \in e2.terminalized <=> u \in e.terminalized)
              /\ (u \in e2.spawned <=> u \in e.spawned) /\ (u \in e2.refused <=> u \in e.refused)
              /\ (u \in e2.lost <=> u \in e.lost) /\ (u \in e2.vanished <=> u \in e.vanished)
          BY <4>2 DEF Told
        <5> QED BY <1>1, <2>3, <2>4, <4>2, <5>1 DEF EventsOK, Said, Shown
      <4> QED BY <4>1, <4>2
    <3> QED BY <2>4, <3>1 DEF EventsOK
  <2>8. AgentsOK(r, r.agent) BY <1>1, <2>3 DEF AgentsOK
  <2> QED BY <2>2, <2>5, <2>6, <2>7, <2>8 DEF BatchIInv, SwarmOK, r
<1>4. CASE t \in s.active
  <2> DEFINE x == [s EXCEPT !.active = s.active \ {t}, !.attempt[t] = "over", !.cut[t] = "no", !.result[t] = status]
  <2>1. r = Swarm!schedule(x) BY <1>4 DEF Swarm!handleAttemptOutcome
  <2>2. x \in Batches BY <1>1, <1>2 DEF Batches
  <2>3. Closes(s, x, t, status) BY <1>1 DEF Batches, Closes
  <2> QED BY <1>4, <2>1, <2>2, <2>3, ResultKeeps
<1> QED BY <1>3, <1>4

----------------------------------------------------------------------------
(* A rate limit.                                                           *)

LEMMA CapacityType ==
  ASSUME NEW s \in Batches, NEW n \in Nat \ {0}, NEW d \in Nat
  PROVE  [s EXCEPT !.capacity = n, !.shrinkIn = d] \in Batches
<1>1. PICK r : r = [s EXCEPT !.capacity = n, !.shrinkIn = d] OBVIOUS
<1>2. r \in Batches BY <1>1 DEF Batches
<1> QED BY <1>1, <1>2

LEMMA ModeEntered ==
  ASSUME NEW s \in Batches
  PROVE  LET r == Swarm!enterRateLimitMode(s) IN
         /\ r \in Batches /\ r.limited = TRUE
         /\ r.pending = s.pending /\ r.active = s.active /\ r.attempt = s.attempt /\ r.cut = s.cut /\ r.agent = s.agent
         /\ r.retry = s.retry /\ r.result = s.result /\ r.settled = s.settled /\ r.launches = s.launches
         /\ (IF s.limited THEN r.normalTimer = s.normalTimer ELSE r.normalTimer = Swarm!Off)
<1> DEFINE r == Swarm!enterRateLimitMode(s)
           start == [s EXCEPT !.limited = TRUE, !.normalTimer = Swarm!Off, !.capacity = Swarm!Max({1, s.successes})]
<1>1. \A n \in Nat : Swarm!Max({1, n}) \in Nat \ {0} BY MaxOfTwo
<1>2. ShrinkInterval \in Nat BY BatchAssumption
<1>3. ASSUME NEW m \in Batches
      PROVE  LET q == Swarm!shrinkRateLimitCapacity(m) IN
             /\ q \in Batches /\ q.limited = m.limited
             /\ q.pending = m.pending /\ q.active = m.active /\ q.attempt = m.attempt /\ q.cut = m.cut /\ q.agent = m.agent
             /\ q.retry = m.retry /\ q.result = m.result /\ q.settled = m.settled /\ q.launches = m.launches
             /\ q.normalTimer = m.normalTimer
  <2>1. m.capacity - 1 \in Nat BY DEF Batches
  <2>2. PICK c \in Nat \ {0} : c = Swarm!Max({1, m.capacity - 1}) BY <1>1, <2>1
  <2>3. Swarm!shrinkRateLimitCapacity(m) = [m EXCEPT !.capacity = c, !.shrinkIn = ShrinkInterval]
    BY <2>2 DEF Swarm!shrinkRateLimitCapacity
  <2>4. PICK q : q = Swarm!shrinkRateLimitCapacity(m) OBVIOUS
  <2>5. q \in Batches
    <3>1. [m EXCEPT !.capacity = c, !.shrinkIn = ShrinkInterval] \in Batches BY <1>2, CapacityType, Zenon
    <3> QED BY <2>3, <2>4, <3>1
  <2>6. /\ q.limited = m.limited
        /\ q.pending = m.pending /\ q.active = m.active /\ q.attempt = m.attempt /\ q.cut = m.cut /\ q.agent = m.agent
        /\ q.retry = m.retry /\ q.result = m.result /\ q.settled = m.settled /\ q.launches = m.launches
        /\ q.normalTimer = m.normalTimer
    BY <2>3, <2>4 DEF Batches
  <2> QED BY <2>4, <2>5, <2>6
<1>4. CASE s.limited = TRUE
  <2>1. r = IF s.shrinkIn > 0 THEN s ELSE Swarm!shrinkRateLimitCapacity(s)
    BY <1>4 DEF Swarm!enterRateLimitMode
  <2> QED BY <2>1, <1>3, <1>4
<1>5. CASE s.limited = FALSE
  <2>1. r = Swarm!shrinkRateLimitCapacity(start) BY <1>5 DEF Swarm!enterRateLimitMode
  <2>2. PICK c \in Nat \ {0} : c = Swarm!Max({1, s.successes}) BY <1>1 DEF Batches
  <2>3. start = [s EXCEPT !.limited = TRUE, !.normalTimer = Swarm!Off, !.capacity = c] BY <2>2
  <2> HIDE DEF start, r
  <2>4. start \in Batches BY <2>3 DEF Batches, Timers
  <2>5. /\ start.limited = TRUE /\ start.pending = s.pending /\ start.active = s.active /\ start.attempt = s.attempt
        /\ start.cut = s.cut /\ start.agent = s.agent
        /\ start.normalTimer = Swarm!Off /\ start.retry = s.retry /\ start.result = s.result /\ start.settled = s.settled /\ start.launches = s.launches
    BY <2>3 DEF Batches
  <2>6. /\ r \in Batches /\ r.limited = start.limited
        /\ r.pending = start.pending /\ r.active = start.active /\ r.attempt = start.attempt /\ r.cut = start.cut
        /\ r.agent = start.agent /\ r.retry = start.retry /\ r.result = start.result /\ r.settled = start.settled
        /\ r.launches = start.launches /\ r.normalTimer = start.normalTimer
    BY <2>1, <2>4, <1>3
  <2> QED BY <2>5, <2>6, <1>5 DEF r
<1>6. s.limited \in BOOLEAN BY DEF Batches
<1> QED BY <1>4, <1>5, <1>6

\* One in front of the queue.
LEMMA PutInFront ==
  ASSUME NEW q \in Seq(Tasks), NEW t \in Tasks, NEW rest, rest = <<t>> \o q
  PROVE  /\ rest \in Seq(Tasks)
         /\ First(rest, Len(rest)) = First(q, Len(q)) \cup {t}
         /\ Unrepeated(q) /\ t \notin First(q, Len(q)) => Unrepeated(rest)
<1>1. PICK one : one = <<t>> OBVIOUS
<1>2. one \in Seq(Tasks) /\ Len(one) = 1 /\ one[1] = t BY <1>1
<1>3. PICK n \in Nat : n = Len(q) OBVIOUS
<1>4. 1 \in Nat /\ rest = one \o q BY <1>1
<1>5. /\ rest \in Seq(Tasks) /\ Len(rest) = 1 + n
      /\ \A i \in 1 .. 1 : rest[i] = one[i]
      /\ \A i \in 1 + 1 .. 1 + n : rest[i] = q[i - 1]
  <2>1. PICK m \in Nat : m = 1 OBVIOUS
  <2>2. one \in Seq(Tasks) /\ m = Len(one) BY <1>2, <2>1
  <2>3. rest \in Seq(Tasks) /\ IsJoined(rest, one, q, m, n)
    BY ONLY <1>3, <1>4, <2>2, q \in Seq(Tasks), m \in Nat, n \in Nat, Concatenation, Zenon
  <2> QED BY ONLY <2>1, <2>3 DEF IsJoined
<1>6. rest[1] = t BY <1>2, <1>5
<1>7. ASSUME NEW x \in First(rest, Len(rest)) PROVE x \in First(q, Len(q)) \cup {t}
  <2>1. PICK i \in 1 .. 1 + n : x = rest[i] BY <1>5 DEF First
  <2>2. CASE i = 1 BY <1>6, <2>1, <2>2
  <2>3. CASE i # 1
    <3>1. i \in 1 + 1 .. 1 + n /\ i - 1 \in 1 .. n BY ONLY <2>3, i \in 1 .. 1 + n, n \in Nat
    <3>2. x = q[i - 1] BY <1>5, <2>1, <3>1
    <3> QED BY <1>3, <3>1, <3>2 DEF First
  <2> QED BY <2>2, <2>3
<1>8. ASSUME NEW x \in First(q, Len(q)) \cup {t} PROVE x \in First(rest, Len(rest))
  <2>1. CASE x = t
    <3>1. 1 \in 1 .. 1 + n BY ONLY n \in Nat
    <3> QED BY <1>5, <1>6, <2>1, <3>1 DEF First
  <2>2. CASE x \in First(q, Len(q))
    <3>1. PICK i \in 1 .. n : x = q[i] BY <1>3, <2>2 DEF First
    <3>2. i + 1 \in 1 + 1 .. 1 + n /\ i + 1 \in 1 .. 1 + n /\ (i + 1) - 1 = i BY ONLY i \in 1 .. n, n \in Nat
    <3>3. rest[i + 1] = q[(i + 1) - 1] BY ONLY <1>5, <3>2
    <3>4. x = rest[i + 1] BY <3>1, <3>2, <3>3
    <3> QED BY <1>5, <3>2, <3>4 DEF First
  <2> QED BY <2>1, <2>2
<1>9. ASSUME Unrepeated(q), t \notin First(q, Len(q)) PROVE Unrepeated(rest)
  <2>1. ASSUME NEW i \in 1 .. 1 + n, NEW j \in 1 .. 1 + n, rest[i] = rest[j] PROVE i = j
    <3>1. \A k \in 1 .. 1 + n : k # 1 => k - 1 \in 1 .. n /\ k \in 1 + 1 .. 1 + n BY ONLY n \in Nat
    <3>2. \A k \in 1 .. 1 + n : k # 1 => rest[k] = q[k - 1] BY ONLY <1>5, <3>1
    <3>3. \A k \in 1 .. n : q[k] # t BY <1>3, <1>9 DEF First
    <3>4. CASE i = 1 /\ j = 1 BY <3>4
    <3>5. CASE i = 1 /\ j # 1 BY <1>6, <2>1, <3>1, <3>2, <3>3, <3>5
    <3>6. CASE i # 1 /\ j = 1 BY <1>6, <2>1, <3>1, <3>2, <3>3, <3>6
    <3>7. CASE i # 1 /\ j # 1
      <4>1. q[i - 1] = q[j - 1] BY <2>1, <3>2, <3>7
      <4>2. i - 1 = j - 1 BY <1>3, <1>9, <3>1, <3>7, <4>1 DEF Unrepeated
      <4> QED BY ONLY <4>2, i \in 1 .. 1 + n, j \in 1 .. 1 + n, n \in Nat
    <3> QED BY <3>4, <3>5, <3>6, <3>7
  <2> QED BY <1>5, <2>1 DEF Unrepeated
<1> QED BY <1>5, <1>7, <1>8, <1>9, Zenon

\* t's attempt is over, and t is in front of the queue to be resumed.
Requeues(s, x, t) ==
  /\ x.pending = <<t>> \o s.pending /\ x.active = s.active \ {t} /\ x.agent = s.agent
  /\ x.retry = s.retry \cup {t} /\ x.settled = s.settled /\ x.limited = TRUE /\ x.launches = s.launches
  /\ x.result = s.result
  /\ (s.limited => x.normalTimer = s.normalTimer) /\ (~s.limited => x.normalTimer = Swarm!Off)
  /\ \A u \in Tasks : x.attempt[u] = IF u = t THEN "over" ELSE s.attempt[u]
  /\ \A u \in Tasks \ {t} : x.cut[u] = s.cut[u]

LEMMA RequeueKeeps ==
  ASSUME NEW s, NEW e, BatchIInv(s, e), NEW t \in s.active, s.attempt[t] = "run",
         NEW x \in Batches, Requeues(s, x, t)
  PROVE  BatchIInv(Swarm!schedule(x), e)
<1>1. /\ s \in Batches /\ QueueOK(s) /\ AttemptsOK(s) /\ CountOK(s) /\ CapOK(s) /\ EventsOK(s, e) /\ AwakeOK(s)
      /\ OpenOK(s) /\ AgentsOK(s, s.agent)
  BY DEF BatchIInv, SwarmOK
<1>2. /\ x.pending = <<t>> \o s.pending /\ x.active = s.active \ {t} /\ x.agent = s.agent
      /\ x.retry = s.retry \cup {t} /\ x.settled = s.settled /\ x.limited = TRUE /\ x.launches = s.launches
      /\ x.result = s.result
      /\ (s.limited => x.normalTimer = s.normalTimer) /\ (~s.limited => x.normalTimer = Swarm!Off)
      /\ \A u \in Tasks : x.attempt[u] = IF u = t THEN "over" ELSE s.attempt[u]
      /\ \A u \in Tasks \ {t} : x.cut[u] = s.cut[u]
  BY DEF Requeues
<1>3. /\ s.settled = "no" /\ t \in Tasks /\ s.result[t] = "none" /\ t \notin Waiting(s) /\ t \notin e.terminalized
      /\ e.ended[t] = 0
  BY ActiveIsOpen
<1>4. Waiting(s) \in SUBSET Tasks /\ s.active \in SUBSET Tasks BY <1>1, WaitingAreTasks DEF Batches
<1>5. Waiting(x) = Waiting(s) \cup {t} /\ Unrepeated(x.pending)
  <2>1. s.pending \in Seq(Tasks) BY <1>1 DEF Batches
  <2>2. Unrepeated(s.pending) BY <1>1, <1>3 DEF QueueOK
  <2> QED BY <1>2, <1>3, <2>1, <2>2, PutInFront, Zenon DEF Waiting
<1>6. QueueOK(x)
  <2>1. Open(x) = Open(s) BY <1>2 DEF Open
  <2>2. /\ Waiting(s) \cap s.active = {} /\ Waiting(s) \cup s.active = Open(s) BY <1>1, <1>3 DEF QueueOK
  <2> QED BY <1>2, <1>3, <1>4, <1>5, <2>1, <2>2 DEF QueueOK
<1>7. AttemptsOK(x) BY <1>1, <1>2, <1>3, <1>4, <1>5 DEF AttemptsOK, Live
<1>8. CountOK(x) BY <1>1, <1>2 DEF CountOK
<1>9. CapOK(x) BY <1>2 DEF CapOK
<1>10. EventsOK(x, e)
  <2>1. ASSUME NEW u \in Tasks
        PROVE /\ u \in e.terminalized => Said(e, u)
              /\ u \notin e.terminalized => e.ended[u] = 0 \/ (e.ended[u] = 1 /\ x.attempt[u] = "over" /\ x.result[u] # "none")
              /\ x.settled = "no" /\ x.result[u] = "none" => u \notin e.terminalized
              /\ x.attempt[u] \in {"none", "spawn", "resume"} => u \notin e.spawned
              /\ u \in Shown(e) /\ e.ended[u] = 0
                   => x.attempt[u] \in {"retry", "start", "run"} \/ (x.settled = "no" /\ u \in Waiting(x) /\ u \in x.retry)
    <3>1. CASE u = t BY <1>2, <1>3, <1>5, <3>1
    <3>2. CASE u # t BY <1>1, <1>2, <1>3, <1>5, <3>2 DEF EventsOK
    <3> QED BY <3>1, <3>2
  <2> QED BY <2>1 DEF EventsOK
<1>11. StoppedOK(x) BY <1>2, <1>3 DEF StoppedOK
<1>12. AgentsOK(x, x.agent) BY <1>1, <1>2, <1>3 DEF AgentsOK
<1>13. e \in Reports BY DEF BatchIInv
<1> QED BY <1>6, <1>7, <1>8, <1>9, <1>10, <1>11, <1>12, <1>13, ScheduleKeeps DEF SwarmOK, BatchIInv

LEMMA RetriedType ==
  ASSUME NEW s \in Batches, NEW t \in Tasks, NEW retry \in SUBSET Tasks, NEW n \in Nat, NEW d \in Nat, NEW w \in Nat,
         NEW q \in Seq(Tasks)
  PROVE  [s EXCEPT !.retry = retry, !.retries[t] = n, !.recoverIn = d, !.retryIn[t] = w, !.pending = q] \in Batches
<1>1. PICK f \in [Tasks -> Nat] : f = [s.retries EXCEPT ![t] = n] BY DEF Batches
<1>2. PICK g \in [Tasks -> Nat] : g = [s.retryIn EXCEPT ![t] = w] BY DEF Batches
<1>3. PICK r : r = [s EXCEPT !.retry = retry, !.retries = f, !.recoverIn = d, !.retryIn = g, !.pending = q] OBVIOUS
<1>4. r \in Batches BY <1>3 DEF Batches
<1> QED BY <1>1, <1>2, <1>3, <1>4

LEMMA Requeued ==
  ASSUME NEW s \in Batches, NEW t \in Tasks
  PROVE  LET q == [s EXCEPT !.rateLimits = s.rateLimits + 1, !.active = s.active \ {t}, !.attempt[t] = "over", !.cut[t] = "no"]
             x == Swarm!requeueRateLimited(q, t)
         IN x \in Batches /\ Requeues(s, x, t)
<1> DEFINE q == [s EXCEPT !.rateLimits = s.rateLimits + 1, !.active = s.active \ {t}, !.attempt[t] = "over", !.cut[t] = "no"]
           r == [q EXCEPT !.retry = q.retry \cup {t}, !.retries[t] = q.retries[t] + 1, !.recoverIn = RecoveryInterval,
                          !.retryIn[t] = RetryBase * 2 ^ q.retries[t], !.pending = <<t>> \o q.pending]
           m == Swarm!enterRateLimitMode(r)
           x == Swarm!requeueRateLimited(q, t)
<1>1. "over" \in Swarm!Places BY DEF Swarm!Places
<1>2. q \in Batches
  <2>1. PICK n \in Nat : n = s.rateLimits + 1 BY DEF Batches
  <2>2. q = [s EXCEPT !.rateLimits = n, !.active = s.active \ {t}, !.attempt[t] = "over", !.cut[t] = "no"] BY <2>1
  <2> HIDE DEF q
  <2> QED BY <1>1, <2>2 DEF Batches
<1>3. /\ q.pending = s.pending /\ q.active = s.active \ {t} /\ q.agent = s.agent
      /\ q.retry = s.retry /\ q.settled = s.settled /\ q.launches = s.launches /\ q.result = s.result
      /\ q.limited = s.limited /\ q.normalTimer = s.normalTimer
      /\ \A u \in Tasks : q.attempt[u] = IF u = t THEN "over" ELSE s.attempt[u]
      /\ \A u \in Tasks \ {t} : q.cut[u] = s.cut[u]
  BY DEF Batches
<1>4. x = [m EXCEPT !.launchIn = Swarm!Max({m.launchIn, RetryBase})] BY DEF Swarm!requeueRateLimited
<1> HIDE DEF q, x
<1>5. RecoveryInterval \in Nat /\ RetryBase \in Nat BY BatchAssumption
<1>6. PICK wait \in Nat : wait = RetryBase * 2 ^ q.retries[t]
  <2>1. q.retries[t] \in Nat BY <1>2 DEF Batches
  <2>2. PICK p \in Nat : p = 2 ^ q.retries[t] BY <2>1, PowerIsNatural
  <2>3. RetryBase * p \in Nat BY <1>5
  <2> QED BY <2>2, <2>3
<1>7. PICK queue \in Seq(Tasks) : queue = <<t>> \o q.pending
  <2>1. q.pending \in Seq(Tasks) BY <1>2 DEF Batches
  <2> QED BY <2>1, PutInFront, Zenon
<1>a. PICK tries \in Nat : tries = q.retries[t] + 1
  <2>1. q.retries[t] \in Nat BY <1>2 DEF Batches
  <2> QED BY <2>1
<1>8. r = [q EXCEPT !.retry = q.retry \cup {t}, !.retries[t] = tries, !.recoverIn = RecoveryInterval,
                    !.retryIn[t] = wait, !.pending = queue]
  BY <1>6, <1>7, <1>a
<1> HIDE DEF r
<1>9. r \in Batches
  <2>1. q.retry \cup {t} \in SUBSET Tasks BY <1>2 DEF Batches
  <2> QED BY <1>2, <1>5, <1>6, <1>7, <1>a, <1>8, <2>1, RetriedType, Zenon
<1>10. /\ r.pending = queue /\ r.active = q.active /\ r.cut = q.cut /\ r.agent = q.agent
       /\ r.retry = q.retry \cup {t} /\ r.settled = q.settled /\ r.launches = q.launches /\ r.result = q.result
       /\ r.attempt = q.attempt /\ r.limited = q.limited /\ r.normalTimer = q.normalTimer
  BY <1>2, <1>8 DEF Batches
<1>11. /\ m \in Batches /\ m.limited = TRUE
       /\ m.pending = r.pending /\ m.active = r.active /\ m.attempt = r.attempt /\ m.cut = r.cut /\ m.agent = r.agent
       /\ m.retry = r.retry /\ m.result = r.result /\ m.settled = r.settled /\ m.launches = r.launches
       /\ (IF r.limited THEN m.normalTimer = r.normalTimer ELSE m.normalTimer = Swarm!Off)
  BY <1>9, ModeEntered
<1> HIDE DEF m
<1>12. Swarm!Max({m.launchIn, RetryBase}) \in Nat
  <2>1. m.launchIn \in Nat BY <1>11 DEF Batches
  <2>2. m.launchIn \in Int /\ RetryBase \in Int BY <1>5, <2>1
  <2>3. Swarm!Max({m.launchIn, RetryBase}) \in {m.launchIn, RetryBase} BY <2>2, MaxOfTwo
  <2> QED BY <1>5, <2>1, <2>3
<1>13. x \in Batches BY <1>4, <1>11, <1>12 DEF Batches
<1>14. /\ x.limited = TRUE
       /\ x.pending = m.pending /\ x.active = m.active /\ x.attempt = m.attempt /\ x.cut = m.cut /\ x.agent = m.agent
       /\ x.retry = m.retry /\ x.result = m.result /\ x.settled = m.settled /\ x.launches = m.launches
       /\ x.normalTimer = m.normalTimer
  BY <1>4, <1>11 DEF Batches
<1>15. Requeues(s, x, t) BY <1>3, <1>7, <1>10, <1>11, <1>14 DEF Requeues
<1> QED BY <1>13, <1>15 DEF x, q
----------------------------------------------------------------------------
(* What the parent hears, and changes the invariant does not notice.       *)

LEMMA Terminalized ==
  ASSUME NEW e \in Reports, NEW ts \in SUBSET Tasks, b.closing \in BOOLEAN
  PROVE  LET r == Swarm!terminalize(e, ts) IN
         /\ r \in Reports /\ r.spawned = e.spawned /\ r.refused = e.refused /\ r.vanished = e.vanished
         /\ r.terminalized = e.terminalized \cup ts
         /\ \/ /\ r.lost = e.lost
               /\ \A t \in Tasks : r.ended[t] = IF t \in ts \ e.terminalized THEN e.ended[t] + 1 ELSE e.ended[t]
            \/ r.lost = e.lost \cup (ts \ e.terminalized) /\ r.ended = e.ended
<1> DEFINE new == ts \ e.terminalized
           f == [t \in Tasks |-> IF t \in new THEN e.ended[t] + 1 ELSE e.ended[t]]
           r == Swarm!terminalize(e, ts)
           F(g, l) == [e EXCEPT !.ended = g, !.lost = l, !.terminalized = e.terminalized \cup ts]
<1>0. e.ended \in [Tasks -> Nat] /\ new \in SUBSET Tasks BY DEF Reports
<1>1. f \in [Tasks -> Nat]
  <2>1. ASSUME NEW t \in Tasks PROVE e.ended[t] \in Nat /\ e.ended[t] + 1 \in Nat BY <1>0
  <2> QED BY <2>1
<1>2. PICK g \in [Tasks -> Nat], l \in SUBSET Tasks :
        /\ \/ g = f /\ l = e.lost
           \/ g = e.ended /\ l = e.lost \cup new
        /\ r = F(g, l)
  <2>1. CASE b.closing = TRUE
    <3>1. [t \in Tasks |-> e.ended[t]] = e.ended BY <1>0
    <3>2. r = [e EXCEPT !.ended = [t \in Tasks |-> e.ended[t]], !.lost = e.lost \cup new,
                        !.terminalized = e.terminalized \cup ts]
      BY <2>1 DEF Swarm!terminalize, Tasks
    <3>3. e.lost \cup new \in SUBSET Tasks BY <1>0 DEF Reports
    <3>4. r = F(e.ended, e.lost \cup new) BY <3>1, <3>2
    <3> HIDE DEF r, new, f, F
    <3> QED BY <1>0, <3>3, <3>4
  <2>2. CASE b.closing = FALSE
    <3>1. r = F(f, e.lost)
      BY <2>2 DEF Swarm!terminalize, Tasks
    <3>2. e.lost \in SUBSET Tasks BY DEF Reports
    <3> HIDE DEF r, f, new, F
    <3> QED BY <1>1, <3>1, <3>2
  <2> HIDE DEF r, f, new, F
  <2> QED BY <2>1, <2>2
<1>3. g = f => \A t \in Tasks : g[t] = IF t \in new THEN e.ended[t] + 1 ELSE e.ended[t] OBVIOUS
<1> HIDE DEF r, f
<1>4. r \in Reports BY <1>2 DEF Reports
<1>5. /\ r.spawned = e.spawned /\ r.refused = e.refused /\ r.terminalized = e.terminalized \cup ts /\ r.ended = g
      /\ r.lost = l /\ r.vanished = e.vanished
  BY <1>2 DEF Reports
<1> QED BY <1>2, <1>3, <1>4, <1>5 DEF r

\* The end of a subagent whose attempt is not over has not been told yet, or once.
LEMMA TerminalizedIsTold ==
  ASSUME NEW s, NEW e, BatchIInv(s, e), NEW t \in Tasks, s.attempt[t] \in Live,
         NEW e1 \in Reports, e1.ended = e.ended, e1.terminalized = e.terminalized, e1.refused = e.refused,
         e1.lost = e.lost, e1.vanished = e.vanished,
         e1.spawned = e.spawned \/ e1.spawned = e.spawned \cup {t}, b.closing \in BOOLEAN
  PROVE  Swarm!terminalize(e1, {t}) \in Reports /\ Told(s, e, Swarm!terminalize(e1, {t}), t)
<1> DEFINE r == Swarm!terminalize(e1, {t})
<1>1. /\ r \in Reports /\ r.spawned = e1.spawned /\ r.refused = e1.refused /\ r.vanished = e1.vanished
      /\ r.terminalized = e1.terminalized \cup {t}
      /\ \/ /\ r.lost = e1.lost
            /\ \A u \in Tasks : r.ended[u] = IF u \in {t} \ e1.terminalized THEN e1.ended[u] + 1 ELSE e1.ended[u]
         \/ r.lost = e1.lost \cup ({t} \ e1.terminalized) /\ r.ended = e1.ended
  <2>1. {t} \in SUBSET Tasks OBVIOUS
  <2> QED BY <2>1, Terminalized, Zenon
<1> HIDE DEF r
<1>2. /\ t \in e.terminalized => Said(e, t)
      /\ t \notin e.terminalized => e.ended[t] = 0
  BY DEF BatchIInv, SwarmOK, EventsOK, Live
<1>3. Said(r, t) BY <1>1, <1>2 DEF Said
<1>4. \A u \in Tasks \ {t} : /\ r.ended[u] = e.ended[u]
                             /\ (u \in r.terminalized <=> u \in e.terminalized)
                             /\ (u \in r.spawned <=> u \in e.spawned)
                             /\ (u \in r.refused <=> u \in e.refused)
                             /\ (u \in r.lost <=> u \in e.lost)
                             /\ (u \in r.vanished <=> u \in e.vanished)
  BY <1>1
<1>5. t \in r.terminalized BY <1>1
<1> QED BY <1>1, <1>3, <1>4, <1>5 DEF Told, Said, Shown, r

\* x differs from s in nothing the parts of the invariant look at.
Alike(s, x) ==
  /\ x.pending = s.pending /\ x.active = s.active /\ x.attempt = s.attempt /\ x.retry = s.retry
  /\ x.result = s.result /\ x.settled = s.settled /\ x.limited = s.limited /\ x.launches = s.launches
  /\ (s.normalTimer = Swarm!Off => x.normalTimer = Swarm!Off)
  /\ \A u \in Tasks : s.cut[u] # "no" => x.cut[u] # "no"

LEMMA AlikeKeeps ==
  ASSUME NEW s \in Batches, NEW x \in Batches, Alike(s, x), NEW e \in Reports, SwarmOK(s, e), OpenOK(s),
         NEW agents, AgentsOK(s, agents)
  PROVE  SwarmOK(x, e) /\ OpenOK(x) /\ AgentsOK(x, agents)
<1>1. /\ x.pending = s.pending /\ x.active = s.active /\ x.attempt = s.attempt /\ x.retry = s.retry
      /\ x.result = s.result /\ x.settled = s.settled /\ x.limited = s.limited /\ x.launches = s.launches
      /\ (s.normalTimer = Swarm!Off => x.normalTimer = Swarm!Off)
      /\ \A u \in Tasks : s.cut[u] # "no" => x.cut[u] # "no"
  BY DEF Alike
<1>2. QueueOK(s) /\ AttemptsOK(s) /\ CountOK(s) /\ CapOK(s) /\ EventsOK(s, e) BY DEF SwarmOK
<1>3. Waiting(x) = Waiting(s) /\ Open(x) = Open(s) BY <1>1 DEF Waiting, Open
<1>4. QueueOK(x) BY <1>1, <1>2, <1>3 DEF QueueOK
<1>5. AttemptsOK(x) BY <1>1, <1>2, <1>3 DEF AttemptsOK
<1>6. CountOK(x) BY <1>1, <1>2 DEF CountOK
<1>7. CapOK(x) BY <1>1, <1>2 DEF CapOK
<1>8. EventsOK(x, e) BY <1>1, <1>2, <1>3 DEF EventsOK
<1>9. OpenOK(x) BY <1>1, <1>3 DEF OpenOK
<1>10. AgentsOK(x, agents) BY <1>1 DEF AgentsOK
<1> QED BY <1>4, <1>5, <1>6, <1>7, <1>8, <1>9, <1>10 DEF SwarmOK

LEMMA AlikeIsAwake ==
  ASSUME NEW s, NEW x, Alike(s, x), AwakeOK(s),
         x.normalTimer = Swarm!Off <=> s.normalTimer = Swarm!Off, x.wakeTimer = Swarm!Off <=> s.wakeTimer = Swarm!Off
  PROVE  AwakeOK(x)
BY DEF Alike, AwakeOK, Awake

\* t's attempt, not over, has got to another place.
Moves(s, x, t, place) ==
  /\ x.pending = s.pending /\ x.active = s.active /\ x.retry = s.retry /\ x.cut = s.cut
  /\ x.result = s.result /\ x.settled = s.settled /\ x.limited = s.limited /\ x.launches = s.launches
  /\ x.normalTimer = s.normalTimer /\ x.wakeTimer = s.wakeTimer /\ x.agent = s.agent
  /\ \A u \in Tasks : x.attempt[u] = IF u = t THEN place ELSE s.attempt[u]

LEMMA MoveKeeps ==
  ASSUME NEW s, NEW e, BatchIInv(s, e), NEW t \in Tasks, s.attempt[t] \in Live, NEW place \in {"start", "run"},
         NEW x \in Batches, Moves(s, x, t, place),
         NEW e1 \in Reports, e1.ended = e.ended, e1.terminalized = e.terminalized, e1.refused = e.refused,
         e1.lost = e.lost, e1.vanished = e.vanished,
         e1.spawned = e.spawned \/ e1.spawned = e.spawned \cup {t}
  PROVE  /\ SwarmOK(x, e1) /\ OpenOK(x) /\ AwakeOK(x) /\ StoppedOK(x)
         /\ AgentsOK(x, s.agent \cup {t}) /\ (place = "start" => AgentsOK(x, s.agent))
<1>1. /\ s \in Batches /\ QueueOK(s) /\ AttemptsOK(s) /\ CountOK(s) /\ CapOK(s) /\ EventsOK(s, e) /\ AwakeOK(s)
      /\ OpenOK(s) /\ AgentsOK(s, s.agent)
  BY DEF BatchIInv, SwarmOK
<1>2. /\ x.pending = s.pending /\ x.active = s.active /\ x.retry = s.retry /\ x.cut = s.cut
      /\ x.result = s.result /\ x.settled = s.settled /\ x.limited = s.limited /\ x.launches = s.launches
      /\ x.normalTimer = s.normalTimer /\ x.wakeTimer = s.wakeTimer /\ x.agent = s.agent
      /\ \A u \in Tasks : x.attempt[u] = IF u = t THEN place ELSE s.attempt[u]
  BY DEF Moves
<1>3. Waiting(x) = Waiting(s) /\ Open(x) = Open(s) /\ Waiting(s) \in SUBSET Tasks /\ s.active \in SUBSET Tasks
  <2>1. Waiting(x) = Waiting(s) /\ Open(x) = Open(s) BY <1>2 DEF Waiting, Open
  <2>2. s.active \in SUBSET Tasks BY <1>1 DEF Batches
  <2> QED BY <1>1, <2>1, <2>2, WaitingAreTasks
<1>4. s.settled = "no" => t \in s.active /\ t \notin Waiting(s) BY <1>1 DEF AttemptsOK, QueueOK
<1>5. QueueOK(x) BY <1>1, <1>2, <1>3 DEF QueueOK
<1>6. AttemptsOK(x)
  <2>1. \A u \in x.active : x.attempt[u] \in Live BY <1>1, <1>2, <1>3 DEF AttemptsOK, Live
  <2>2. ASSUME NEW u \in Tasks, x.attempt[u] \in Live
        PROVE u \in x.active \/ (x.settled \in {"cancelled", "rejected"} /\ x.cut[u] # "no")
    <3>1. s.attempt[u] \in Live BY <1>2, <2>2
    <3> QED BY <1>1, <1>2, <3>1 DEF AttemptsOK
  <2>3. x.settled = "no" => \A u \in Waiting(x) : x.attempt[u] = IF u \in x.retry THEN "over" ELSE "none"
    BY <1>1, <1>2, <1>3, <1>4 DEF AttemptsOK
  <2> QED BY <2>1, <2>2, <2>3 DEF AttemptsOK
<1>7. CountOK(x) BY <1>1, <1>2 DEF CountOK
<1>8. CapOK(x) BY <1>1, <1>2 DEF CapOK
<1>9. EventsOK(x, e1)
  <2>1. ASSUME NEW u \in Tasks
        PROVE /\ u \in e1.terminalized => Said(e1, u)
              /\ u \notin e1.terminalized => e1.ended[u] = 0 \/ (e1.ended[u] = 1 /\ x.attempt[u] = "over" /\ x.result[u] # "none")
              /\ x.settled = "no" /\ x.result[u] = "none" => u \notin e1.terminalized
              /\ x.attempt[u] \in {"none", "spawn", "resume"} => u \notin e1.spawned
              /\ u \in Shown(e1) /\ e1.ended[u] = 0
                   => x.attempt[u] \in {"retry", "start", "run"} \/ (x.settled = "no" /\ u \in Waiting(x) /\ u \in x.retry)
    <3>1. CASE u = t BY <1>1, <1>2, <3>1 DEF EventsOK, Live, Said, Shown
    <3>2. CASE u # t BY <1>1, <1>2, <1>3, <3>2 DEF EventsOK, Said, Shown
    <3> QED BY <3>1, <3>2
  <2> QED BY <2>1 DEF EventsOK
<1>10. OpenOK(x) BY <1>1, <1>2, <1>3 DEF OpenOK
<1>11. AwakeOK(x) BY <1>1, <1>2 DEF AwakeOK, Awake
<1>12. StoppedOK(x) BY <1>11 DEF StoppedOK, AwakeOK
<1>13. AgentsOK(x, s.agent \cup {t}) /\ (place = "start" => AgentsOK(x, s.agent)) BY <1>1, <1>2 DEF AgentsOK
<1> QED BY <1>5, <1>6, <1>7, <1>8, <1>9, <1>10, <1>11, <1>12, <1>13 DEF SwarmOK
----------------------------------------------------------------------------
(* The steps of the batch and of its timers.                               *)

LEMMA RunKeeps ==
  ASSUME BatchIInv(b, events), Swarm!Run PROVE BatchIInv(b', events')
<1>1. b.settled = "no" /\ b' = Swarm!schedule(b) /\ events' = events BY DEF Swarm!Run
<1>2. b \in Batches /\ events \in Reports /\ SwarmOK(b, events) /\ AgentsOK(b, b.agent) BY DEF BatchIInv
<1>3. StoppedOK(b) BY <1>1 DEF StoppedOK
<1>4. PICK r : r = Swarm!schedule(b) OBVIOUS
<1>5. r \in Batches /\ SwarmOK(r, events) /\ AwakeOK(r) /\ OpenOK(r) /\ AgentsOK(r, b.agent) /\ r.agent = b.agent
  BY <1>2, <1>3, <1>4, ScheduleKeeps
<1> QED BY <1>1, <1>2, <1>4, <1>5 DEF BatchIInv

LEMMA NormalTimerKeeps ==
  ASSUME BatchIInv(b, events), Swarm!NormalTimer PROVE BatchIInv(b', events')
<1> DEFINE x == [b EXCEPT !.normalTimer = Swarm!Off]
           l == Swarm!LaunchFirst(x, 1)
<1>1. /\ b.normalTimer = 0 /\ events' = events
      /\ b' = IF x.pending = << >> \/ Swarm!isAtConcurrencyLimit(x) THEN x ELSE Swarm!schedule(l)
  BY DEF Swarm!NormalTimer
<1>2. /\ b \in Batches /\ events \in Reports /\ SwarmOK(b, events) /\ AgentsOK(b, b.agent) /\ AwakeOK(b) /\ OpenOK(b)
  BY DEF BatchIInv
<1>3. b.normalTimer # Swarm!Off BY <1>1 DEF Swarm!Off
<1>4. b.settled = "no" /\ b.limited = FALSE
  <2>1. b.limited \in BOOLEAN BY <1>2 DEF Batches
  <2> QED BY <1>2, <1>3, <2>1 DEF AwakeOK, SwarmOK, CountOK
<1>5. x \in Batches BY <1>2 DEF Batches, Timers
<1>6. Alike(b, x) /\ x.agent = b.agent /\ x.normalTimer = Swarm!Off BY <1>2 DEF Batches, Alike
<1> HIDE DEF x
<1>7. SwarmOK(x, events) /\ OpenOK(x) /\ AgentsOK(x, b.agent) BY <1>2, <1>5, <1>6, AlikeKeeps
<1>8. x.settled = "no" /\ x.limited = FALSE /\ x.launches = b.launches BY <1>4, <1>6 DEF Alike
<1>9. QueueOK(x) /\ AttemptsOK(x) /\ CountOK(x) /\ CapOK(x) /\ EventsOK(x, events) BY <1>7 DEF SwarmOK
<1>10. NumTasks \in Nat /\ MaxConcurrency \in Nat BY BatchAssumption
<1>11. CASE x.pending = << >> \/ Swarm!isAtConcurrencyLimit(x)
  <2>1. b' = x BY <1>1, <1>11
  <2>2. ASSUME x.launches > 0 PROVE x.active # {}
    <3>1. CASE x.pending = << >>
      <4>1. Waiting(x) = {} BY <3>1 DEF Waiting, First
      <4>2. NumTasks > 0
        <5>1. x.launches \in Nat /\ x.launches <= NumTasks BY <1>5, <1>9 DEF Batches, CountOK
        <5> QED BY <1>10, <2>2, <5>1
      <4>3. Open(x) # {} BY <1>7, <1>8, <4>2 DEF OpenOK
      <4> QED BY <1>8, <1>9, <4>1, <4>3 DEF QueueOK
    <3>2. CASE Swarm!isAtConcurrencyLimit(x) BY <1>5, <3>2, LimitIsPositive
    <3> QED BY <1>11, <3>1, <3>2
  <2>3. AwakeOK(x) BY <1>8, <2>2 DEF AwakeOK, Awake
  <2> QED BY <1>1, <1>2, <1>5, <1>6, <1>7, <2>1, <2>3 DEF BatchIInv
<1>12. CASE ~(x.pending = << >> \/ Swarm!isAtConcurrencyLimit(x))
  <2> DEFINE ts == First(x.pending, 1)
  <2>1. b' = Swarm!schedule(l) BY <1>1, <1>12
  <2>2. Unrepeated(x.pending) BY <1>8, <1>9 DEF QueueOK
  <2>3. x.pending \in Seq(Tasks) BY <1>5 DEF Batches
  <2>4. 1 \in 0 .. Len(x.pending) BY <1>12, <2>3
  <2>5. /\ l \in Batches /\ Starts(x, l, ts) /\ IsFiniteSet(ts) /\ Cardinality(ts) <= 1
        /\ Len(l.pending) = Len(x.pending) - 1 /\ l.launches = x.launches + 1
    BY <1>5, <2>2, <2>4, FirstLaunched
  <2> HIDE DEF l, ts
  <2>6. QueueOK(l) /\ AttemptsOK(l) /\ AgentsOK(l, b.agent) /\ l.agent = x.agent
    BY <1>5, <1>7, <1>8, <1>9, <2>5, StartsKeepQueue
  <2>7. EventsOK(l, events) BY <1>2, <1>5, <1>8, <1>9, <2>5, StartsKeepEvents
  <2>8. ts \in SUBSET Tasks /\ l.active = x.active \cup ts /\ l.settled = "no" /\ l.limited = FALSE
    BY <1>5, <1>8, <2>5, WaitingAreTasks DEF Starts
  <2>9. CountOK(l)
    <3>1. x.launches + Len(x.pending) = NumTasks BY <1>8, <1>9 DEF CountOK
    <3>2. x.launches \in Nat /\ Len(x.pending) \in Nat /\ Len(x.pending) >= 1 BY <1>5, <2>3, <2>4 DEF Batches
    <3>3. l.launches <= NumTasks /\ l.launches + Len(l.pending) = NumTasks BY <1>10, <2>5, <3>1, <3>2
    <3> QED BY <2>8, <3>3 DEF CountOK
  <2>10. CapOK(l)
    <3>1. ASSUME MaxConcurrency # 0 PROVE Cardinality(l.active) <= MaxConcurrency
      <4>1. ~(Swarm!Running(x) >= MaxConcurrency) BY <1>12, <3>1 DEF Swarm!isAtConcurrencyLimit, Swarm!NoLimit
      <4>2. Swarm!Running(x) = Cardinality(x.active) /\ Cardinality(x.active) \in Nat BY <1>5, RunningIsCounted
      <4>3. Cardinality(x.active) + 1 <= MaxConcurrency BY <1>10, <4>1, <4>2
      <4> QED BY <1>5, <2>5, <2>8, <4>3, CapAfterStarts
    <3> QED BY <3>1 DEF CapOK
  <2>11. StoppedOK(l) /\ SwarmOK(l, events) BY <2>6, <2>7, <2>8, <2>9, <2>10 DEF SwarmOK, StoppedOK
  <2>12. PICK r : r = Swarm!schedule(l) OBVIOUS
  <2>13. r \in Batches /\ SwarmOK(r, events) /\ AwakeOK(r) /\ OpenOK(r) /\ AgentsOK(r, b.agent) /\ r.agent = l.agent
    BY <1>2, <2>5, <2>6, <2>11, <2>12, ScheduleKeeps
  <2> QED BY <1>1, <1>2, <1>6, <2>1, <2>6, <2>12, <2>13 DEF BatchIInv
<1> QED BY <1>11, <1>12

LEMMA WakeTimerKeeps ==
  ASSUME BatchIInv(b, events), Swarm!WakeTimer PROVE BatchIInv(b', events')
<1> DEFINE x == [b EXCEPT !.wakeTimer = Swarm!Off]
<1>1. b.wakeTimer = 0 /\ b' = Swarm!schedule(x) /\ events' = events BY DEF Swarm!WakeTimer
<1>2. /\ b \in Batches /\ events \in Reports /\ SwarmOK(b, events) /\ AgentsOK(b, b.agent) /\ AwakeOK(b) /\ OpenOK(b)
  BY DEF BatchIInv
<1>3. b.settled = "no" BY <1>1, <1>2 DEF AwakeOK, Swarm!Off
<1>4. x \in Batches BY <1>2 DEF Batches, Timers
<1>5. Alike(b, x) /\ x.agent = b.agent /\ x.settled = b.settled BY <1>2 DEF Batches, Alike
<1> HIDE DEF x
<1>6. SwarmOK(x, events) /\ OpenOK(x) /\ AgentsOK(x, b.agent) BY <1>2, <1>4, <1>5, AlikeKeeps
<1>7. StoppedOK(x) BY <1>3, <1>5 DEF StoppedOK
<1>8. PICK r : r = Swarm!schedule(x) OBVIOUS
<1>9. r \in Batches /\ SwarmOK(r, events) /\ AwakeOK(r) /\ OpenOK(r) /\ AgentsOK(r, b.agent) /\ r.agent = x.agent
  BY <1>2, <1>4, <1>6, <1>7, <1>8, ScheduleKeeps
<1> QED BY <1>1, <1>2, <1>5, <1>8, <1>9 DEF BatchIInv

LEMMA TickKeeps ==
  ASSUME BatchIInv(b, events), Swarm!Tick PROVE BatchIInv(b', events')
<1> DEFINE Less(n) == IF n > 0 THEN n - 1 ELSE n
<1>1. /\ events' = events
      /\ b' = [b EXCEPT !.normalTimer = Less(b.normalTimer), !.wakeTimer = Less(b.wakeTimer),
                        !.launchIn = Less(b.launchIn), !.recoverIn = Less(b.recoverIn), !.shrinkIn = Less(b.shrinkIn),
                        !.retryIn = [t \in Tasks |-> Less(b.retryIn[t])]]
  BY DEF Swarm!Tick, Tasks
<1>2. /\ b \in Batches /\ events \in Reports /\ SwarmOK(b, events) /\ AgentsOK(b, b.agent) /\ AwakeOK(b) /\ OpenOK(b)
  BY DEF BatchIInv
<1>3. \A n \in Nat : Less(n) \in Nat OBVIOUS
<1>4. \A n \in Timers : Less(n) \in Timers /\ (Less(n) = Swarm!Off <=> n = Swarm!Off) BY DEF Timers, Swarm!Off
<1>5. b.normalTimer \in Timers /\ b.wakeTimer \in Timers /\ b.launchIn \in Nat /\ b.recoverIn \in Nat /\ b.shrinkIn \in Nat
      /\ \A t \in Tasks : b.retryIn[t] \in Nat
  BY <1>2 DEF Batches
<1>6. PICK n1 \in Timers : n1 = Less(b.normalTimer) /\ (n1 = Swarm!Off <=> b.normalTimer = Swarm!Off) BY <1>4, <1>5
<1>7. PICK n2 \in Timers : n2 = Less(b.wakeTimer) /\ (n2 = Swarm!Off <=> b.wakeTimer = Swarm!Off) BY <1>4, <1>5
<1>8. PICK n3 \in Nat : n3 = Less(b.launchIn) BY <1>3, <1>5
<1>9. PICK n4 \in Nat : n4 = Less(b.recoverIn) BY <1>3, <1>5
<1>10. PICK n5 \in Nat : n5 = Less(b.shrinkIn) BY <1>3, <1>5
<1>11. PICK f \in [Tasks -> Nat] : f = [t \in Tasks |-> Less(b.retryIn[t])]
  <2>1. [t \in Tasks |-> Less(b.retryIn[t])] \in [Tasks -> Nat] BY <1>3, <1>5
  <2> QED BY <2>1
<1>12. b' = [b EXCEPT !.normalTimer = n1, !.wakeTimer = n2, !.launchIn = n3, !.recoverIn = n4, !.shrinkIn = n5, !.retryIn = f]
  BY <1>1, <1>6, <1>7, <1>8, <1>9, <1>10, <1>11
<1> HIDE DEF Less
<1>13. PICK x : x = b' OBVIOUS
<1>14. x \in Batches BY <1>2, <1>12, <1>13 DEF Batches
<1>15. Alike(b, x) /\ x.agent = b.agent /\ x.normalTimer = n1 /\ x.wakeTimer = n2
  BY <1>2, <1>6, <1>12, <1>13 DEF Batches, Alike
<1>16. SwarmOK(x, events) /\ OpenOK(x) /\ AgentsOK(x, b.agent) BY <1>2, <1>14, <1>15, AlikeKeeps
<1>17. AwakeOK(x) BY <1>2, <1>6, <1>7, <1>15, AlikeIsAwake
<1> QED BY <1>1, <1>2, <1>13, <1>14, <1>15, <1>16, <1>17 DEF BatchIInv

LEMMA AttemptTimesOutKeeps ==
  ASSUME BatchIInv(b, events), NEW t \in Tasks, Swarm!AttemptTimesOut(t) PROVE BatchIInv(b', events')
<1>1. b' = [b EXCEPT !.cut[t] = "timeout"] /\ events' = events BY DEF Swarm!AttemptTimesOut
<1>2. /\ b \in Batches /\ events \in Reports /\ SwarmOK(b, events) /\ AgentsOK(b, b.agent) /\ AwakeOK(b) /\ OpenOK(b)
  BY DEF BatchIInv
<1>3. PICK x : x = b' OBVIOUS
<1>4. x \in Batches BY <1>1, <1>2, <1>3 DEF Batches
<1>5. Alike(b, x) /\ x.agent = b.agent /\ x.normalTimer = b.normalTimer /\ x.wakeTimer = b.wakeTimer
  BY <1>1, <1>2, <1>3 DEF Batches, Alike
<1>6. SwarmOK(x, events) /\ OpenOK(x) /\ AgentsOK(x, b.agent) BY <1>2, <1>4, <1>5, AlikeKeeps
<1>7. AwakeOK(x) BY <1>2, <1>5, AlikeIsAwake
<1> QED BY <1>1, <1>2, <1>3, <1>4, <1>5, <1>6, <1>7 DEF BatchIInv

LEMMA CallerClosesKeeps ==
  ASSUME BatchIInv(b, events), Swarm!CallerCloses PROVE BatchIInv(b', events')
<1>1. b' = [b EXCEPT !.closing = TRUE] /\ events' = events BY DEF Swarm!CallerCloses
<1>2. /\ b \in Batches /\ events \in Reports /\ SwarmOK(b, events) /\ AgentsOK(b, b.agent) /\ AwakeOK(b) /\ OpenOK(b)
  BY DEF BatchIInv
<1>3. PICK x : x = b' OBVIOUS
<1>4. x \in Batches BY <1>1, <1>2, <1>3 DEF Batches
<1>5. Alike(b, x) /\ x.agent = b.agent /\ x.normalTimer = b.normalTimer /\ x.wakeTimer = b.wakeTimer
  BY <1>1, <1>2, <1>3 DEF Batches, Alike
<1>6. SwarmOK(x, events) /\ OpenOK(x) /\ AgentsOK(x, b.agent) BY <1>2, <1>4, <1>5, AlikeKeeps
<1>7. AwakeOK(x) BY <1>2, <1>5, AlikeIsAwake
<1> QED BY <1>1, <1>2, <1>3, <1>4, <1>5, <1>6, <1>7 DEF BatchIInv

\* Whoever is told of the abort is waiting for a retry or has a turn submitted;
\* nobody else waits to be told.
LEMMA AbortKeeps ==
  ASSUME BatchIInv(b, events), NEW why \in {"user", "fail"}, Swarm!Abort(why) PROVE BatchIInv(b', events')
<1> DEFINE cuts == [t \in Tasks |-> IF t \in b.active /\ b.cut[t] = "no" THEN why ELSE b.cut[t]]
           aborted == [t \in Tasks |-> IF t \in Open(b) THEN "aborted" ELSE b.result[t]]
           c == [b EXCEPT !.cut = cuts]
           d == [c EXCEPT !.result = aborted]
           gone == Swarm!Abandoned(b)
<1>1. /\ b.settled = "no" /\ events' = Swarm!terminalize(events, gone)
      /\ b' = IF why = "fail" THEN Swarm!Finish(c, "rejected") ELSE Swarm!Finish(d, "cancelled")
  BY DEF Swarm!Abort, Open, Tasks
<1>2. /\ b \in Batches /\ events \in Reports /\ QueueOK(b) /\ AttemptsOK(b) /\ CountOK(b) /\ CapOK(b) /\ EventsOK(b, events)
      /\ AgentsOK(b, b.agent) /\ AwakeOK(b) /\ OpenOK(b)
  BY DEF BatchIInv, SwarmOK
<1>3. cuts \in [Tasks -> {"no", "timeout", "user", "fail", "closed"}] BY <1>2 DEF Batches
<1>4. aborted \in [Tasks -> {"none", "completed", "failed", "aborted"}] BY <1>2 DEF Batches
<1>5. /\ \A t \in Tasks : b.cut[t] # "no" \/ t \in b.active => cuts[t] # "no"
      /\ \A t \in Tasks : b.result[t] # "none" => aborted[t] # "none"
  OBVIOUS
<1> HIDE DEF cuts, aborted
<1>6. c \in Batches /\ d \in Batches BY <1>2, <1>3, <1>4 DEF Batches
<1>7. /\ c.pending = b.pending /\ c.attempt = b.attempt /\ c.cut = cuts /\ c.agent = b.agent /\ c.retry = b.retry
      /\ c.result = b.result /\ c.limited = b.limited /\ c.launches = b.launches
      /\ d.pending = b.pending /\ d.attempt = b.attempt /\ d.cut = cuts /\ d.agent = b.agent /\ d.retry = b.retry
      /\ d.result = aborted /\ d.limited = b.limited /\ d.launches = b.launches
  BY <1>2 DEF Batches
<1> HIDE DEF c, d
<1>8. PICK x : x = b' OBVIOUS
<1>9. /\ x \in Batches /\ x.settled \in {"cancelled", "rejected"} /\ x.active = {} /\ x.normalTimer = Swarm!Off
      /\ x.wakeTimer = Swarm!Off
      /\ x.attempt = b.attempt /\ x.cut = cuts /\ x.agent = b.agent /\ x.retry = {} /\ x.launches = b.launches
      /\ \A t \in Tasks : b.result[t] # "none" => x.result[t] # "none"
  <2>1. CASE why = "fail"
    <3>1. x = Swarm!Finish(c, "rejected") BY <1>1, <1>8, <2>1
    <3> QED BY <1>5, <1>6, <1>7, <3>1, FinishFacts
  <2>2. CASE why = "user"
    <3>1. x = Swarm!Finish(d, "cancelled") BY <1>1, <1>8, <2>2
    <3> QED BY <1>5, <1>6, <1>7, <3>1, FinishFacts
  <2> QED BY <2>1, <2>2
<1>10. Waiting(b) \in SUBSET Tasks /\ b.active \in SUBSET Tasks /\ b.agent \in SUBSET Tasks
  BY <1>2, WaitingAreTasks DEF Batches
<1>11. gone = {t \in b.agent : t \in Waiting(b) \/ (t \in b.active /\ b.attempt[t] # "run")}
  <2>1. DOMAIN b.pending = 1 .. Len(b.pending) BY <1>2 DEF Batches
  <2>2. \A t : t \in Waiting(b) <=> \E i \in DOMAIN b.pending : b.pending[i] = t BY <2>1 DEF Waiting, First
  <2> QED BY <2>2 DEF Swarm!Abandoned
<1> HIDE DEF gone
<1>12. gone \in SUBSET Tasks BY <1>10, <1>11
<1>13. PICK e : e = events' OBVIOUS
<1>14. /\ e \in Reports /\ e.spawned = events.spawned /\ e.refused = events.refused /\ e.vanished = events.vanished
       /\ e.terminalized = events.terminalized \cup gone
       /\ \/ /\ e.lost = events.lost
             /\ \A t \in Tasks : e.ended[t] = IF t \in gone \ events.terminalized THEN events.ended[t] + 1 ELSE events.ended[t]
          \/ e.lost = events.lost \cup (gone \ events.terminalized) /\ e.ended = events.ended
  <2>1. b.closing \in BOOLEAN BY <1>2 DEF Batches
  <2> QED BY <1>1, <1>2, <1>12, <1>13, <2>1, Terminalized
<1>15. QueueOK(x) /\ CountOK(x) /\ AwakeOK(x) /\ OpenOK(x) BY <1>2, <1>9 DEF QueueOK, CountOK, AwakeOK, OpenOK
<1>16. CapOK(x) BY <1>9, CapWhenIdle
<1>17. AttemptsOK(x)
  <2>1. ASSUME NEW t \in Tasks, b.attempt[t] \in Live PROVE cuts[t] # "no"
    <3>1. t \in b.active BY <1>1, <1>2, <2>1 DEF AttemptsOK
    <3> QED BY <1>5, <3>1
  <2> QED BY <1>9, <2>1 DEF AttemptsOK
<1>18. AgentsOK(x, x.agent) BY <1>2, <1>9 DEF AgentsOK
<1>19. EventsOK(x, e)
  <2>1. ASSUME NEW t \in Tasks
        PROVE /\ t \in e.terminalized => Said(e, t)
              /\ t \notin e.terminalized => e.ended[t] = 0 \/ (e.ended[t] = 1 /\ x.attempt[t] = "over" /\ x.result[t] # "none")
              /\ x.attempt[t] \in {"none", "spawn", "resume"} => t \notin e.spawned
              /\ t \in Shown(e) /\ e.ended[t] = 0 => x.attempt[t] \in {"retry", "start", "run"}
    <3>1. /\ t \in events.terminalized => Said(events, t)
          /\ t \notin events.terminalized
               => events.ended[t] = 0 \/ (events.ended[t] = 1 /\ b.attempt[t] = "over" /\ b.result[t] # "none")
          /\ b.attempt[t] \in {"none", "spawn", "resume"} => t \notin events.spawned
          /\ t \in Shown(events) /\ events.ended[t] = 0
               => b.attempt[t] \in {"retry", "start", "run"} \/ (t \in Waiting(b) /\ t \in b.retry)
      BY <1>2 DEF EventsOK
    <3>2. t \in gone => b.result[t] = "none" BY <1>1, <1>2, <1>11 DEF QueueOK, Open
    <3>3. CASE t \in gone \ events.terminalized
      <4>1. events.ended[t] = 0 BY <3>1, <3>2, <3>3
      <4>2. Said(e, t) /\ t \in e.terminalized BY <1>14, <3>3, <4>1 DEF Said
      <4>3. t \in Shown(e) => e.ended[t] = 1 BY <4>2 DEF Said, Shown
      <4> QED BY <1>9, <1>14, <3>1, <4>2, <4>3
    <3>4. CASE t \notin gone \ events.terminalized
      <4>1. /\ e.ended[t] = events.ended[t] /\ (t \in e.terminalized <=> t \in events.terminalized)
            /\ (t \in e.lost <=> t \in events.lost) /\ (t \in Shown(e) <=> t \in Shown(events))
            /\ (Said(e, t) <=> Said(events, t))
        BY <1>14, <3>4 DEF Said, Shown
      <4>2. t \in Waiting(b) /\ t \in b.retry => t \in gone BY <1>2, <1>11 DEF AgentsOK
      <4> QED BY <1>9, <1>14, <3>1, <3>4, <4>1, <4>2 DEF Said, Shown
    <3> QED BY <3>3, <3>4
  <2> QED BY <1>9, <2>1 DEF EventsOK
<1> QED BY <1>8, <1>9, <1>13, <1>14, <1>15, <1>16, <1>17, <1>18, <1>19 DEF BatchIInv, SwarmOK

----------------------------------------------------------------------------
(* The steps of an attempt.                                                *)

\* e1 is e, or e with t announced.
Announces(e, e1, t) ==
  /\ e1 \in Reports /\ e1.ended = e.ended /\ e1.terminalized = e.terminalized /\ e1.refused = e.refused
  /\ e1.lost = e.lost /\ e1.vanished = e.vanished
  /\ (e1.spawned = e.spawned \/ e1.spawned = e.spawned \cup {t})

LEMMA SubmitKeeps ==
  ASSUME BatchIInv(b, events), NEW t \in Tasks, b.attempt[t] \in Live,
         NEW e1, Announces(events, e1, t), Swarm!Submit(t, e1)
  PROVE  BatchIInv(b', events')
<1>1. b \in Batches /\ AgentsOK(b, b.agent) BY DEF BatchIInv
<1>a. b.closing \in BOOLEAN BY <1>1 DEF Batches
<1>2. /\ e1 \in Reports /\ e1.ended = events.ended /\ e1.terminalized = events.terminalized
      /\ e1.refused = events.refused /\ e1.lost = events.lost /\ e1.vanished = events.vanished
      /\ (e1.spawned = events.spawned \/ e1.spawned = events.spawned \cup {t})
  BY DEF Announces
<1>3. CASE b.cut[t] = "no"
  <2>1. b' = [b EXCEPT !.attempt[t] = "start"] /\ events' = e1 BY <1>3 DEF Swarm!Submit
  <2>2. PICK x : x = b' OBVIOUS
  <2>3. "start" \in Swarm!Places BY DEF Swarm!Places
  <2>4. x \in Batches BY <1>1, <2>1, <2>2, <2>3 DEF Batches
  <2>5. Moves(b, x, t, "start") BY <1>1, <2>1, <2>2 DEF Batches, Moves
  <2>6. SwarmOK(x, e1) /\ OpenOK(x) /\ AwakeOK(x) /\ AgentsOK(x, b.agent) BY <1>2, <2>4, <2>5, MoveKeeps
  <2>7. x.agent = b.agent BY <2>5 DEF Moves
  <2> QED BY <1>2, <2>1, <2>2, <2>4, <2>6, <2>7 DEF BatchIInv
<1>4. CASE b.cut[t] # "no"
  <2>1. b' = Swarm!handleAttemptOutcome(b, t, "failed") /\ events' = Swarm!terminalize(e1, {t})
    BY <1>4 DEF Swarm!Submit
  <2>2. Swarm!terminalize(e1, {t}) \in Reports /\ Told(b, events, Swarm!terminalize(e1, {t}), t)
    BY <1>2, <1>a, TerminalizedIsTold
  <2> QED BY <2>1, <2>2, OutcomeKeeps
<1> QED BY <1>3, <1>4

LEMMA SpawnReturnsKeeps ==
  ASSUME BatchIInv(b, events), NEW t \in Tasks, Swarm!SpawnReturns(t) PROVE BatchIInv(b', events')
<1> DEFINE e1 == [events EXCEPT !.spawned = events.spawned \cup {t}]
<1>1. b.attempt[t] = "spawn" /\ Swarm!Submit(t, e1) BY DEF Swarm!SpawnReturns
<1>2. events \in Reports BY DEF BatchIInv
<1>3. Announces(events, e1, t) BY <1>2 DEF Reports, Announces
<1>4. b.attempt[t] \in Live BY <1>1 DEF Live
<1> HIDE DEF e1
<1> QED BY <1>1, <1>3, <1>4, SubmitKeeps

LEMMA ResumeReturnsKeeps ==
  ASSUME BatchIInv(b, events), NEW t \in Tasks, Swarm!ResumeReturns(t) PROVE BatchIInv(b', events')
<1> DEFINE e1 == IF b.attempt[t] = "resume" THEN [events EXCEPT !.spawned = events.spawned \cup {t}] ELSE events
<1>1. b.attempt[t] \in {"resume", "retry"} /\ Swarm!Submit(t, e1) BY DEF Swarm!ResumeReturns
<1>2. events \in Reports BY DEF BatchIInv
<1>3. Announces(events, e1, t) BY <1>2 DEF Reports, Announces
<1>4. b.attempt[t] \in Live BY <1>1 DEF Live
<1> HIDE DEF e1
<1> QED BY <1>1, <1>3, <1>4, SubmitKeeps

LEMMA SpawnFailsKeeps ==
  ASSUME BatchIInv(b, events), NEW t \in Tasks, Swarm!SpawnFails(t) PROVE BatchIInv(b', events')
<1>1. b.attempt[t] = "spawn" /\ b' = Swarm!handleAttemptOutcome(b, t, "failed") /\ events' = events
  BY DEF Swarm!SpawnFails
<1>2. events \in Reports BY DEF BatchIInv
<1>3. Told(b, events, events, t)
  <2>1. /\ t \in events.terminalized => Said(events, t)
        /\ t \notin events.terminalized => events.ended[t] = 0
        /\ t \notin events.spawned
    BY <1>1 DEF BatchIInv, SwarmOK, EventsOK
  <2> QED BY <2>1 DEF Told, Shown
<1>4. b.attempt[t] \in Live BY <1>1 DEF Live
<1> QED BY <1>1, <1>2, <1>3, <1>4, OutcomeKeeps

LEMMA SpawnVanishesKeeps ==
  ASSUME BatchIInv(b, events), NEW t \in Tasks, Swarm!SpawnVanishes(t) PROVE BatchIInv(b', events')
<1> DEFINE e1 == [events EXCEPT !.spawned = events.spawned \cup {t}, !.vanished = events.vanished \cup {t}]
<1>1. b.attempt[t] = "spawn" /\ b' = Swarm!handleAttemptOutcome(b, t, "failed") /\ events' = e1
  BY DEF Swarm!SpawnVanishes
<1>2. events \in Reports BY DEF BatchIInv
<1>3. /\ e1 \in Reports /\ e1.ended = events.ended /\ e1.terminalized = events.terminalized
      /\ e1.refused = events.refused /\ e1.lost = events.lost
      /\ e1.spawned = events.spawned \cup {t} /\ e1.vanished = events.vanished \cup {t}
  BY <1>2 DEF Reports
<1> HIDE DEF e1
<1>4. Told(b, events, e1, t)
  <2>1. /\ t \in events.terminalized => Said(events, t)
        /\ t \notin events.terminalized => events.ended[t] = 0
    BY <1>1 DEF BatchIInv, SwarmOK, EventsOK
  <2> QED BY <1>3, <2>1 DEF Told, Said, Shown
<1>5. b.attempt[t] \in Live BY <1>1 DEF Live
<1> QED BY <1>1, <1>3, <1>4, <1>5, OutcomeKeeps

LEMMA ResumeRefusedKeeps ==
  ASSUME BatchIInv(b, events), NEW t \in Tasks, Swarm!ResumeRefused(t) PROVE BatchIInv(b', events')
<1> DEFINE e1 == [events EXCEPT !.refused = IF b.attempt[t] = "retry" THEN events.refused \cup {t} ELSE events.refused]
<1>1. b.attempt[t] \in {"resume", "retry"} /\ b' = Swarm!handleAttemptOutcome(b, t, "failed") /\ events' = e1
  BY DEF Swarm!ResumeRefused
<1>2. events \in Reports BY DEF BatchIInv
<1>3. /\ e1 \in Reports /\ e1.ended = events.ended /\ e1.terminalized = events.terminalized
      /\ e1.spawned = events.spawned /\ e1.lost = events.lost /\ e1.vanished = events.vanished
      /\ e1.refused = IF b.attempt[t] = "retry" THEN events.refused \cup {t} ELSE events.refused
  BY <1>2 DEF Reports
<1> HIDE DEF e1
<1>4. Told(b, events, e1, t)
  <2>1. /\ t \in events.terminalized => Said(events, t)
        /\ t \notin events.terminalized => events.ended[t] = 0
        /\ b.attempt[t] = "resume" => t \notin events.spawned
    BY <1>1 DEF BatchIInv, SwarmOK, EventsOK
  <2> QED BY <1>1, <1>3, <2>1 DEF Told, Said, Shown
<1>5. b.attempt[t] \in Live BY <1>1 DEF Live
<1> QED BY <1>1, <1>3, <1>4, <1>5, OutcomeKeeps

LEMMA FailedTurnKeeps ==
  ASSUME BatchIInv(b, events), NEW t \in Tasks, Swarm!TurnNotStarted(t) \/ Swarm!TurnFails(t)
  PROVE  BatchIInv(b', events')
<1>1. /\ b.attempt[t] \in {"start", "run"} /\ b' = Swarm!handleAttemptOutcome(b, t, "failed")
      /\ events' = Swarm!terminalize(events, {t})
  BY DEF Swarm!TurnNotStarted, Swarm!TurnFails
<1>2. events \in Reports BY DEF BatchIInv
<1>a. b.closing \in BOOLEAN BY DEF BatchIInv, Batches
<1>3. b.attempt[t] \in Live BY <1>1 DEF Live
<1>4. Swarm!terminalize(events, {t}) \in Reports /\ Told(b, events, Swarm!terminalize(events, {t}), t)
  BY <1>2, <1>3, <1>a, TerminalizedIsTold
<1> QED BY <1>1, <1>3, <1>4, OutcomeKeeps

LEMMA TurnStartsKeeps ==
  ASSUME BatchIInv(b, events), NEW t \in Tasks, Swarm!TurnStarts(t) PROVE BatchIInv(b', events')
<1> DEFINE x == [b EXCEPT !.attempt[t] = "run"]
           y == Swarm!markAttemptReady(x, t)
<1>1. b.attempt[t] = "start" /\ b' = [y EXCEPT !.agent = y.agent \cup {t}] /\ events' = events
  BY DEF Swarm!TurnStarts
<1>2. b \in Batches /\ events \in Reports BY DEF BatchIInv
<1>3. "run" \in Swarm!Places BY DEF Swarm!Places
<1>4. x \in Batches BY <1>2, <1>3 DEF Batches
<1>5. Moves(b, x, t, "run") BY <1>2 DEF Batches, Moves
<1>6. b.attempt[t] \in Live BY <1>1 DEF Live
<1> HIDE DEF x
<1>7. SwarmOK(x, events) /\ OpenOK(x) /\ AwakeOK(x) /\ StoppedOK(x) /\ AgentsOK(x, b.agent \cup {t})
  BY <1>2, <1>4, <1>5, <1>6, MoveKeeps
<1>8. /\ y \in Batches /\ SwarmOK(y, events) /\ OpenOK(y) /\ AwakeOK(y) /\ AgentsOK(y, b.agent \cup {t})
      /\ y.agent = b.agent
  <2>1. x.agent = b.agent BY <1>5 DEF Moves
  <2>2. CASE t \notin x.active
    <3>1. y = x BY <2>2 DEF Swarm!markAttemptReady
    <3> QED BY <1>4, <1>7, <2>1, <3>1
  <2>3. CASE t \in x.active /\ x.limited
    <3> DEFINE q == [x EXCEPT !.launchIn = RetryBase]
    <3>1. y = Swarm!schedule(q) BY <2>3 DEF Swarm!markAttemptReady
    <3>2. RetryBase \in Nat BY BatchAssumption
    <3>3. q \in Batches BY <1>4, <3>2 DEF Batches
    <3>4. Alike(x, q) /\ q.agent = x.agent /\ q.settled = x.settled /\ q.active = x.active
          /\ q.normalTimer = x.normalTimer /\ q.wakeTimer = x.wakeTimer
      BY <1>4 DEF Batches, Alike
    <3> HIDE DEF q, y
    <3>5. SwarmOK(q, events) /\ AgentsOK(q, b.agent \cup {t}) BY <1>2, <1>4, <1>7, <3>3, <3>4, AlikeKeeps
    <3>6. StoppedOK(q) BY <1>7, <3>4 DEF StoppedOK
    <3> QED BY <1>2, <2>1, <3>1, <3>3, <3>4, <3>5, <3>6, ScheduleKeeps
  <2>4. CASE t \in x.active /\ x.limited = FALSE
    <3> DEFINE q == [x EXCEPT !.successes = x.successes + 1]
    <3>1. y = q BY <2>4 DEF Swarm!markAttemptReady
    <3>2. PICK n \in Nat : n = x.successes + 1 BY <1>4 DEF Batches
    <3>3. q = [x EXCEPT !.successes = n] BY <3>2
    <3> HIDE DEF q, y
    <3>4. q \in Batches BY <1>4, <3>3 DEF Batches
    <3>5. Alike(x, q) /\ q.agent = x.agent /\ q.normalTimer = x.normalTimer /\ q.wakeTimer = x.wakeTimer
      BY <1>4, <3>3 DEF Batches, Alike
    <3>6. SwarmOK(q, events) /\ OpenOK(q) /\ AgentsOK(q, b.agent \cup {t}) BY <1>2, <1>4, <1>7, <3>4, <3>5, AlikeKeeps
    <3>7. AwakeOK(q) BY <1>7, <3>5, AlikeIsAwake
    <3> QED BY <2>1, <3>1, <3>4, <3>5, <3>6, <3>7
  <2>5. x.limited \in BOOLEAN BY <1>4 DEF Batches
  <2> QED BY <2>2, <2>3, <2>4, <2>5
<1> HIDE DEF y
<1>9. PICK z : z = b' OBVIOUS
<1>10. b.agent \cup {t} \in SUBSET Tasks BY <1>2 DEF Batches
<1>11. z = [y EXCEPT !.agent = b.agent \cup {t}] BY <1>1, <1>8, <1>9
<1>12. z \in Batches BY <1>8, <1>10, <1>11 DEF Batches
<1>13. Alike(y, z) /\ z.agent = b.agent \cup {t} /\ z.normalTimer = y.normalTimer /\ z.wakeTimer = y.wakeTimer
  BY <1>8, <1>11 DEF Batches, Alike
<1>14. SwarmOK(z, events) /\ OpenOK(z) /\ AgentsOK(z, z.agent) BY <1>2, <1>8, <1>12, <1>13, AlikeKeeps
<1>15. AwakeOK(z) BY <1>8, <1>13, AlikeIsAwake
<1> QED BY <1>1, <1>2, <1>9, <1>12, <1>14, <1>15 DEF BatchIInv

LEMMA TurnCompletesKeeps ==
  ASSUME BatchIInv(b, events), NEW t \in Tasks, Swarm!TurnCompletes(t) PROVE BatchIInv(b', events')
<1>1. /\ b.attempt[t] = "run" /\ b.cut[t] = "no" /\ b' = Swarm!handleAttemptOutcome(b, t, "completed")
      /\ \/ events' = [events EXCEPT !.ended[t] = events.ended[t] + 1]
         \/ events' = [events EXCEPT !.lost = events.lost \cup {t}]
  BY DEF Swarm!TurnCompletes
<1>2. events \in Reports BY DEF BatchIInv
<1>3. b.attempt[t] \in Live BY <1>1 DEF Live
<1>4. t \in b.active BY <1>1, <1>3, UncutIsActive
<1>5. t \notin events.terminalized /\ events.ended[t] = 0 BY <1>4, ActiveIsOpen
<1>6. PICK e1 : e1 = events' OBVIOUS
<1>7. /\ e1 \in Reports /\ e1.terminalized = events.terminalized /\ e1.spawned = events.spawned
      /\ e1.refused = events.refused /\ e1.vanished = events.vanished
      /\ \/ e1.lost = events.lost /\ \A u \in Tasks : e1.ended[u] = IF u = t THEN 1 ELSE events.ended[u]
         \/ e1.lost = events.lost \cup {t} /\ e1.ended = events.ended
  <2>1. CASE events' = [events EXCEPT !.ended[t] = events.ended[t] + 1]
    <3>1. e1 = [events EXCEPT !.ended[t] = 1] BY <1>5, <1>6, <2>1
    <3> QED BY <1>2, <3>1 DEF Reports
  <2>2. CASE events' = [events EXCEPT !.lost = events.lost \cup {t}]
    <3>1. e1 = [events EXCEPT !.lost = events.lost \cup {t}] BY <1>6, <2>2
    <3> QED BY <1>2, <3>1 DEF Reports
  <2> QED BY <1>1, <2>1, <2>2
<1>8. Told(b, events, e1, t) BY <1>4, <1>5, <1>7 DEF Told, Shown
<1> QED BY <1>1, <1>3, <1>6, <1>7, <1>8, OutcomeKeeps

LEMMA TurnRateLimitedKeeps ==
  ASSUME BatchIInv(b, events), NEW t \in Tasks, Swarm!TurnRateLimited(t) PROVE BatchIInv(b', events')
<1> DEFINE s == [b EXCEPT !.rateLimits = b.rateLimits + 1, !.active = b.active \ {t}, !.attempt[t] = "over", !.cut[t] = "no"]
           x == [s EXCEPT !.result[t] = "failed"]
<1>1. /\ b.attempt[t] = "run" /\ b.cut[t] = "no"
      /\ \/ b' = Swarm!schedule(x) /\ events' = Swarm!terminalize(events, {t})
         \/ b' = Swarm!schedule(Swarm!requeueRateLimited(s, t)) /\ events' = events
  BY DEF Swarm!TurnRateLimited
<1>2. b \in Batches /\ events \in Reports BY DEF BatchIInv
<1>a. b.closing \in BOOLEAN BY <1>2 DEF Batches
<1>3. b.attempt[t] \in Live BY <1>1 DEF Live
<1>4. t \in b.active BY <1>1, <1>3, UncutIsActive
<1>5. CASE b' = Swarm!schedule(x) /\ events' = Swarm!terminalize(events, {t})
  <2>1. PICK n \in Nat : n = b.rateLimits + 1 BY <1>2 DEF Batches
  <2>2. s = [b EXCEPT !.rateLimits = n, !.active = b.active \ {t}, !.attempt[t] = "over", !.cut[t] = "no"] BY <2>1
  <2>3. "over" \in Swarm!Places BY DEF Swarm!Places
  <2> HIDE DEF s
  <2>4. s \in Batches BY <1>2, <2>2, <2>3 DEF Batches
  <2>5. x \in Batches BY <2>4 DEF Batches
  <2>6. Closes(b, s, t, "none")
    <3>1. b.result[t] = "none" BY <1>4, ActiveIsOpen
    <3> QED BY <1>2, <2>2, <3>1 DEF Batches, Closes
  <2>7. Closes(b, x, t, "failed") BY <2>4, <2>6 DEF Batches, Closes
  <2>8. Swarm!terminalize(events, {t}) \in Reports /\ Told(b, events, Swarm!terminalize(events, {t}), t)
    BY <1>2, <1>3, <1>a, TerminalizedIsTold
  <2> HIDE DEF x
  <2> QED BY <1>4, <1>5, <2>5, <2>7, <2>8, ResultKeeps
<1>6. CASE b' = Swarm!schedule(Swarm!requeueRateLimited(s, t)) /\ events' = events
  <2>1. PICK q : q = Swarm!requeueRateLimited(s, t) OBVIOUS
  <2>2. s = [b EXCEPT !.rateLimits = b.rateLimits + 1, !.active = b.active \ {t}, !.attempt[t] = "over", !.cut[t] = "no"]
    OBVIOUS
  <2>3. q \in Batches /\ Requeues(b, q, t) BY <1>2, <2>1, <2>2, Requeued, Zenon
  <2> QED BY <1>1, <1>4, <1>6, <2>1, <2>3, RequeueKeeps
<1> QED BY <1>1, <1>5, <1>6
----------------------------------------------------------------------------
(* The batch as a whole.                                                   *)

LEMMA SwarmStarts == ASSUME Swarm!Init PROVE BatchIInv(b, events)
<1> DEFINE q == [i \in Tasks |-> i]
<1>1. /\ b = [pending |-> q, active |-> {},
              attempt |-> [t \in Tasks |-> "none"], cut |-> [t \in Tasks |-> "no"], closing |-> FALSE, agent |-> {}, retry |-> {},
              retries |-> [t \in Tasks |-> 0], retryIn |-> [t \in Tasks |-> 0],
              result |-> [t \in Tasks |-> "none"], settled |-> "no",
              launches |-> 0, normalTimer |-> Swarm!Off, wakeTimer |-> Swarm!Off,
              limited |-> FALSE, successes |-> 0, capacity |-> 1,
              launchIn |-> 0, recoverIn |-> 0, shrinkIn |-> 0, rateLimits |-> 0]
      /\ events = [spawned |-> {}, ended |-> [t \in Tasks |-> 0], terminalized |-> {}, refused |-> {},
                 lost |-> {}, vanished |-> {}]
  BY DEF Swarm!Init, Tasks
<1>2. NumTasks \in Nat /\ Tasks = 1 .. NumTasks BY BatchAssumption DEF Tasks, Swarm!Tasks
<1>3. /\ q \in Seq(Tasks) /\ Len(q) = NumTasks /\ \A i \in 1 .. NumTasks : q[i] = i
  <2>1. q \in [1 .. NumTasks -> Tasks] BY <1>2
  <2> QED BY <1>2, <2>1
<1> HIDE DEF q
<1>4. b \in Batches BY <1>1, <1>3 DEF Batches, Timers, Swarm!Places
<1>5. events \in Reports BY <1>1 DEF Reports
<1>6. Waiting(b) = Tasks /\ Open(b) = Tasks /\ Unrepeated(b.pending)
  <2>1. b.pending = q /\ \A t \in Tasks : b.result[t] = "none" BY <1>1
  <2>2. Waiting(b) = Tasks BY <1>2, <1>3, <2>1 DEF Waiting, First
  <2> QED BY <1>3, <2>1, <2>2 DEF Open, Unrepeated
<1>7. QueueOK(b) BY <1>1, <1>6 DEF QueueOK
<1>8. AttemptsOK(b) BY <1>1, <1>6 DEF AttemptsOK, Live
<1>9. CountOK(b)
  <2>1. b.pending = q /\ b.launches = 0 /\ b.limited = FALSE BY <1>1
  <2> QED BY <1>2, <1>3, <2>1 DEF CountOK
<1>10. CapOK(b)
  <2>1. b.active = {} BY <1>1
  <2>2. Cardinality(b.active) = 0 BY <2>1, FS_EmptySet
  <2> QED BY <2>2, BatchAssumption DEF CapOK
<1>11. EventsOK(b, events)
  <2>1. /\ events.spawned = {} /\ events.terminalized = {} /\ \A t \in Tasks : events.ended[t] = 0
        /\ \A t \in Tasks : b.attempt[t] = "none"
    BY <1>1
  <2> QED BY <2>1 DEF EventsOK, Shown
<1>12. AgentsOK(b, b.agent) BY <1>1 DEF AgentsOK
<1>13. AwakeOK(b) BY <1>1 DEF AwakeOK
<1>14. OpenOK(b) BY <1>2, <1>6 DEF OpenOK
<1> QED BY <1>4, <1>5, <1>7, <1>8, <1>9, <1>10, <1>11, <1>12, <1>13, <1>14 DEF BatchIInv, SwarmOK

LEMMA SwarmSteps == ASSUME BatchIInv(b, events), Swarm!Next PROVE BatchIInv(b', events')
<1>1. CASE Swarm!Run BY <1>1, RunKeeps
<1>2. CASE Swarm!NormalTimer BY <1>2, NormalTimerKeeps
<1>3. CASE Swarm!WakeTimer BY <1>3, WakeTimerKeeps
<1>4. CASE Swarm!Tick BY <1>4, TickKeeps
<1>5. CASE Swarm!Done
  <2>1. b' = b /\ events' = events BY <1>5 DEF Swarm!Done, Swarm!vars
  <2> QED BY <2>1
<1>a. CASE Swarm!CallerCloses BY <1>a, CallerClosesKeeps
<1>6. ASSUME NEW why \in {"user", "fail"}, Swarm!Abort(why) PROVE BatchIInv(b', events') BY <1>6, AbortKeeps
<1>7. ASSUME NEW t \in Tasks, Swarm!AttemptTimesOut(t) PROVE BatchIInv(b', events') BY <1>7, AttemptTimesOutKeeps
<1>8. ASSUME NEW t \in Tasks, Swarm!AttemptStep(t) PROVE BatchIInv(b', events')
  <2>1. CASE Swarm!SpawnReturns(t) BY <2>1, SpawnReturnsKeeps
  <2>2. CASE Swarm!SpawnFails(t) BY <2>2, SpawnFailsKeeps
  <2>a. CASE Swarm!SpawnVanishes(t) BY <2>a, SpawnVanishesKeeps
  <2>3. CASE Swarm!ResumeReturns(t) BY <2>3, ResumeReturnsKeeps
  <2>4. CASE Swarm!ResumeRefused(t) BY <2>4, ResumeRefusedKeeps
  <2>5. CASE Swarm!TurnStarts(t) BY <2>5, TurnStartsKeeps
  <2>6. CASE Swarm!TurnNotStarted(t) \/ Swarm!TurnFails(t) BY <2>6, FailedTurnKeeps
  <2>7. CASE Swarm!TurnCompletes(t) BY <2>7, TurnCompletesKeeps
  <2>8. CASE Swarm!TurnRateLimited(t) BY <2>8, TurnRateLimitedKeeps
  <2> QED BY <1>8, <2>1, <2>2, <2>3, <2>4, <2>5, <2>6, <2>7, <2>8, <2>a DEF Swarm!AttemptStep
<1> QED BY <1>1, <1>2, <1>3, <1>4, <1>5, <1>6, <1>7, <1>8, <1>a DEF Swarm!Next, Tasks

\* A queue without repetitions holds each of its tasks at one place.
LEMMA PlacesInQueue ==
  ASSUME b \in Batches, Unrepeated(b.pending), NEW t
  PROVE  Swarm!Cardinality(Swarm!Queued(t)) = IF t \in Waiting(b) THEN 1 ELSE 0
<1>1. Swarm!Queued(t) = {i \in 1 .. Len(b.pending) : b.pending[i] = t} BY DEF Swarm!Queued, Batches
<1>2. CASE t \in Waiting(b)
  <2>1. PICK i \in 1 .. Len(b.pending) : b.pending[i] = t BY <1>2 DEF Waiting, First
  <2>2. Swarm!Queued(t) = {i} BY <1>1, <2>1 DEF Unrepeated
  <2> QED BY <1>2, <2>2, CountsAgree, FS_Singleton, Zenon
<1>3. CASE t \notin Waiting(b)
  <2>1. Swarm!Queued(t) = {} BY <1>1, <1>3 DEF Waiting, First
  <2> QED BY <1>3, <2>1, CountsAgree, FS_EmptySet, Zenon
<1> QED BY <1>2, <1>3

LEMMA SwarmKept ==
  ASSUME BatchIInv(b, events)
  PROVE  /\ Swarm!TypeOK /\ Swarm!NoTaskLostOrRepeated /\ Swarm!NeverStalls /\ Swarm!LimitKeptInNormalMode
         /\ Swarm!AtMostOneEnd /\ Swarm!EverySubagentEnds
<1>1. /\ b \in Batches /\ events \in Reports /\ QueueOK(b) /\ AttemptsOK(b) /\ CountOK(b) /\ CapOK(b)
      /\ EventsOK(b, events) /\ AgentsOK(b, b.agent) /\ AwakeOK(b)
  BY DEF BatchIInv, SwarmOK
<1>2. Swarm!TypeOK
  <2>1. /\ b.pending \in Seq(Tasks) /\ b.active \subseteq Tasks
        /\ b.attempt \in [Tasks -> Swarm!Places]
        /\ b.cut \in [Tasks -> {"no", "timeout", "user", "fail", "closed"}] /\ b.closing \in BOOLEAN
        /\ b.retry \subseteq b.agent /\ b.agent \subseteq Tasks
        /\ b.result \in [Tasks -> {"none", "completed", "failed", "aborted"}]
        /\ b.settled \in {"no", "resolved", "cancelled", "rejected"}
        /\ b.capacity \in Nat \ {0}
        /\ events.spawned \subseteq Tasks /\ events.ended \in [Tasks -> Nat]
    BY <1>1 DEF Batches, Reports, AgentsOK
  <2>2. b.launches \in 0 .. NumTasks
    <3>1. b.launches \in Nat /\ NumTasks \in Nat /\ b.launches <= NumTasks BY <1>1, BatchAssumption DEF Batches, CountOK
    <3> QED BY <3>1
  <2>3. b.settled # "no" => b.active = {} /\ b.normalTimer = Swarm!Off /\ b.wakeTimer = Swarm!Off BY <1>1 DEF AwakeOK
  <2>4. \A t \in b.active : b.attempt[t] \in {"spawn", "resume", "retry", "start", "run"} BY <1>1 DEF AttemptsOK, Live
  <2> QED BY <2>1, <2>2, <2>3, <2>4 DEF Swarm!TypeOK, Tasks
<1>3. Swarm!NoTaskLostOrRepeated
  <2>1. ASSUME b.settled = "no", NEW t \in Tasks
        PROVE Swarm!Cardinality(Swarm!Queued(t)) + (IF t \in b.active THEN 1 ELSE 0)
                = (IF b.result[t] = "none" THEN 1 ELSE 0)
    <3>1. Unrepeated(b.pending) /\ Waiting(b) \cap b.active = {} /\ (t \in Waiting(b) \cup b.active <=> b.result[t] = "none")
      BY <1>1, <2>1 DEF QueueOK, Open
    <3>2. Swarm!Cardinality(Swarm!Queued(t)) = IF t \in Waiting(b) THEN 1 ELSE 0 BY <1>1, <3>1, PlacesInQueue
    <3> QED BY <3>1, <3>2
  <2> QED BY <2>1 DEF Swarm!NoTaskLostOrRepeated, Tasks
<1>4. Swarm!NeverStalls BY <1>1 DEF AwakeOK, Awake, Swarm!NeverStalls, Swarm!Begun
<1>5. Swarm!LimitKeptInNormalMode
  <2>1. Swarm!Running(b) = Cardinality(b.active) BY <1>1, RunningIsCounted
  <2> QED BY <1>1, <2>1 DEF CapOK, Swarm!LimitKeptInNormalMode, Swarm!NoLimit
<1>6. Swarm!AtMostOneEnd BY <1>1 DEF EventsOK, Said, Swarm!AtMostOneEnd, Tasks
<1>7. Swarm!EverySubagentEnds
  <2>1. ASSUME b.settled # "no", \A t \in Tasks : b.attempt[t] \in {"none", "over"}, NEW t \in Shown(events)
        PROVE events.ended[t] = 1
    <3>1. t \in Tasks BY <1>1, <2>1 DEF Reports, Shown
    <3>2. b.attempt[t] \notin {"retry", "start", "run"} BY <2>1, <3>1
    <3>3. events.ended[t] # 0 BY <1>1, <2>1, <3>1, <3>2 DEF EventsOK
    <3> QED BY <1>1, <3>1, <3>3 DEF EventsOK, Said
  <2> QED BY <2>1 DEF Swarm!EverySubagentEnds, Tasks, Shown
<1> QED BY <1>2, <1>3, <1>4, <1>5, <1>6, <1>7

SwarmIInv == part = "swarm" => BatchIInv(b, events)

LEMMA SwarmStep == ASSUME SwarmIInv, [Next]_vars PROVE SwarmIInv'
<1>1. CASE part = "swarm" /\ Swarm!Next /\ UNCHANGED <<part, lifeVars>>
  <2>1. BatchIInv(b', events') BY <1>1, SwarmSteps DEF SwarmIInv
  <2> QED BY <2>1 DEF SwarmIInv
<1>2. CASE part = "lives" /\ Lives!Next /\ UNCHANGED <<part, swarmVars>>
  <2>1. part' # "swarm" BY <1>2
  <2> QED BY <2>1 DEF SwarmIInv
<1>3. CASE UNCHANGED vars
  <2>1. part' = part /\ b' = b /\ events' = events BY <1>3 DEF vars, swarmVars
  <2> QED BY <2>1 DEF SwarmIInv
<1> QED BY <1>1, <1>2, <1>3 DEF Next

LEMMA SwarmInvariant == Spec => []SwarmIInv
<1>1. ASSUME Init PROVE SwarmIInv BY <1>1, SwarmStarts DEF Init, SwarmIInv
<1>2. SwarmIInv /\ [Next]_vars => SwarmIInv' BY SwarmStep
<1> QED BY <1>1, <1>2, PTL DEF Spec

\* Through any number of launches, rate limits, aborts and timeouts a task of
\* AgentRunBatch without a result is queued or under way, once and not both;
\* an unsettled batch has an attempt or a timer that will look at its queue;
\* and before the first rate limit the concurrency limit is kept.
THEOREM BatchKeepsItsTasks == Spec => []SwarmTasksKept
<1>1. SwarmIInv => SwarmTasksKept BY SwarmKept DEF SwarmIInv, SwarmTasksKept
<1> QED BY <1>1, SwarmInvariant, PTL

\* abandonSuspended, the launcher's terminalize and mirrorAgentRun tell the
\* parent of the end of each subagent of a batch at most once between them, and
\* of the end of everyone announced once all attempts are over, but for those
\* whose retry was refused, who were removed when they were announced, or whose
\* end came when the parent was closing and had no dispatcher any more.
THEOREM SubagentsAreTakenLeaveOf == Spec => []EverySubagentEnds
<1>1. SwarmIInv => EverySubagentEnds BY SwarmKept DEF SwarmIInv, EverySubagentEnds
<1> QED BY <1>1, SwarmInvariant, PTL
----------------------------------------------------------------------------
(* The cache spares the busy: a removal marks its generation first.        *)

Generation(r) ==
  r = [id |-> r.id, build |-> r.build, mach |-> r.mach, scope |-> r.scope, closing |-> r.closing,
       removal |-> r.removal, created |-> r.created, closes |-> r.closes]

\* A generation is marked as closing before anything of its removal is done.
Marked(r) == r.removal # "none" => r.closing

MarksIInv ==
  /\ gen = [g \in Lives!Gens |-> gen[g]] /\ drains \in Nat
  /\ \A g \in Lives!Gens : Generation(gen[g]) /\ Marked(gen[g])

\* What NeverCutShort asks of a step.
CutsNobodyShort ==
  \A g \in Lives!Gens :
    ev.pc = "flush" /\ ~gen[g].closing /\ gen'[g].closing /\ gen'[g].removal = "quiesce"
      => ~Lives!busy(g) \/ drains' # drains

\* r may be written over a generation old.
Replaces(r, old) ==
  /\ Generation(r) /\ Marked(r)
  /\ ~old.closing /\ r.closing => r.removal # "quiesce"

LEMMA GenerationReplaced ==
  ASSUME MarksIInv, NEW g, NEW r, gen' = [gen EXCEPT ![g] = r], drains' = drains,
         g \in Lives!Gens => Replaces(r, gen[g])
  PROVE  MarksIInv' /\ CutsNobodyShort
<1> DEFINE G == Lives!Gens
<1>1. gen = [h \in G |-> gen[h]] /\ drains \in Nat /\ \A h \in G : Generation(gen[h]) /\ Marked(gen[h]) BY DEF MarksIInv
<1>2. Lives!Gens' = G BY DEF Lives!Gens
<1> HIDE DEF G
<1>3. gen' = [h \in G |-> IF h = g THEN r ELSE gen[h]] BY <1>1
<1>4. gen' = [h \in G |-> gen'[h]] BY <1>3
<1>5. \A h \in G : gen'[h] = IF h = g THEN r ELSE gen[h] BY <1>3
<1>6. \A h \in G : Generation(gen'[h]) /\ Marked(gen'[h])
  BY <1>1, <1>5 DEF G, Replaces
<1>7. MarksIInv' BY <1>1, <1>2, <1>4, <1>6 DEF MarksIInv, Generation, Marked
<1>8. CutsNobodyShort BY <1>5 DEF G, CutsNobodyShort, Replaces
<1> QED BY <1>7, <1>8

LEMMA GenerationsUnchanged ==
  ASSUME MarksIInv, gen' = gen, drains' = drains
  PROVE  MarksIInv' /\ CutsNobodyShort
BY DEF MarksIInv, CutsNobodyShort, Generation, Marked, Lives!Gens

\* The steps of a generation, but for agent.stop.
LEMMA GenStepSpares ==
  ASSUME MarksIInv, NEW g \in Lives!Gens,
         Lives!Sealed(g) \/ Lives!Registered(g) \/ Lives!Restored(g) \/ Lives!Built(g) \/ Lives!BuildFails(g)
           \/ Lives!BuildFailed(g) \/ Lives!ScopeDisposed(g) \/ Lives!Quiesced(g) \/ Lives!RemovalOver(g)
  PROVE  MarksIInv' /\ CutsNobodyShort
<1> DEFINE old == gen[g]
<1>1. Generation(old) /\ Marked(old) BY DEF MarksIInv
<1>2. drains' = drains
  BY DEF Lives!Sealed, Lives!Registered, Lives!Restored, Lives!Built, Lives!BuildFails, Lives!BuildFailed,
         Lives!ScopeDisposed, Lives!Quiesced, Lives!RemovalOver
<1>3. ASSUME Lives!Sealed(g) PROVE \E r : gen' = [gen EXCEPT ![g] = r] /\ Replaces(r, old)
  <2>1. PICK r : r = [old EXCEPT !.build = "register"] OBVIOUS
  <2>2. Replaces(r, old) BY <1>1, <2>1 DEF Replaces, Generation, Marked
  <2>3. gen' = [gen EXCEPT ![g] = r] BY <1>3, <2>1 DEF Lives!Sealed, Lives!Set
  <2> QED BY <2>2, <2>3
<1>4. ASSUME Lives!Registered(g) PROVE \E r : gen' = [gen EXCEPT ![g] = r] /\ Replaces(r, old)
  <2>1. PICK r : r = [old EXCEPT !.build = "restore", !.created = TRUE] OBVIOUS
  <2>2. Replaces(r, old) BY <1>1, <2>1 DEF Replaces, Generation, Marked
  <2>3. gen' = [gen EXCEPT ![g] = r] BY <1>4, <2>1 DEF Lives!Registered, Lives!Set
  <2> QED BY <2>2, <2>3
<1>5. ASSUME Lives!Restored(g) PROVE \E r : gen' = [gen EXCEPT ![g] = r] /\ Replaces(r, old)
  <2>1. PICK r : r = [old EXCEPT !.build = "boot"] OBVIOUS
  <2>2. Replaces(r, old) BY <1>1, <2>1 DEF Replaces, Generation, Marked
  <2>3. gen' = [gen EXCEPT ![g] = r] BY <1>5, <2>1 DEF Lives!Restored, Lives!Set
  <2> QED BY <2>2, <2>3
<1>6. ASSUME Lives!Built(g) PROVE \E r : gen' = [gen EXCEPT ![g] = r] /\ Replaces(r, old)
  <2>1. PICK r : r = [old EXCEPT !.build = "ok", !.mach = "ready"] OBVIOUS
  <2>2. Replaces(r, old) BY <1>1, <2>1 DEF Replaces, Generation, Marked
  <2>3. gen' = [gen EXCEPT ![g] = r] BY <1>6, <2>1 DEF Lives!Built, Lives!Set
  <2> QED BY <2>2, <2>3
\* A build that fails makes its generation close without removing it.
<1>7. ASSUME Lives!BuildFails(g) PROVE \E r : gen' = [gen EXCEPT ![g] = r] /\ Replaces(r, old)
  <2>1. PICK s : s = IF old.scope = "gone" THEN old.scope ELSE "going" OBVIOUS
  <2>2. PICK r : r = [old EXCEPT !.build = "failing", !.closing = TRUE, !.scope = s] OBVIOUS
  <2>3. Replaces(r, old) BY <1>1, <2>2 DEF Replaces, Generation, Marked
  <2>4. gen' = [gen EXCEPT ![g] = r] BY <1>7, <2>1, <2>2 DEF Lives!BuildFails, Lives!Set
  <2> QED BY <2>3, <2>4
<1>8. ASSUME Lives!BuildFailed(g) PROVE \E r : gen' = [gen EXCEPT ![g] = r] /\ Replaces(r, old)
  <2>1. PICK n : n = IF old.created THEN old.closes + 1 ELSE old.closes OBVIOUS
  <2>2. PICK r : r = [old EXCEPT !.build = "failed", !.mach = "disposed", !.closes = n] OBVIOUS
  <2>3. Replaces(r, old) BY <1>1, <2>2 DEF Replaces, Generation, Marked
  <2>4. gen' = [gen EXCEPT ![g] = r] BY <1>8, <2>1, <2>2 DEF Lives!BuildFailed, Lives!Set
  <2> QED BY <2>3, <2>4
<1>9. ASSUME Lives!ScopeDisposed(g) PROVE \E r : gen' = [gen EXCEPT ![g] = r] /\ Replaces(r, old)
  <2>1. PICK m : m = IF old.mach = "closing" THEN "disposed" ELSE old.mach OBVIOUS
  <2>2. PICK r : r = [old EXCEPT !.scope = "gone", !.mach = m] OBVIOUS
  <2>3. Replaces(r, old) BY <1>1, <2>2 DEF Replaces, Generation, Marked
  <2>4. gen' = [gen EXCEPT ![g] = r] BY <1>9, <2>1, <2>2 DEF Lives!ScopeDisposed, Lives!Set
  <2> QED BY <2>3, <2>4
<1>10. ASSUME Lives!Quiesced(g) PROVE \E r : gen' = [gen EXCEPT ![g] = r] /\ Replaces(r, old)
  <2>1. PICK r : r = [old EXCEPT !.removal = "stop"] OBVIOUS
  <2>2. old.removal = "quiesce" /\ gen' = [gen EXCEPT ![g] = r] BY <1>10, <2>1 DEF Lives!Quiesced, Lives!Set
  <2>3. Replaces(r, old) BY <1>1, <2>1, <2>2 DEF Replaces, Generation, Marked
  <2> QED BY <2>2, <2>3
<1>11. ASSUME Lives!RemovalOver(g) PROVE \E r : gen' = [gen EXCEPT ![g] = r] /\ Replaces(r, old)
  <2>1. PICK n : n = old.closes + 1 OBVIOUS
  <2>2. PICK r : r = [old EXCEPT !.removal = "over", !.closes = n] OBVIOUS
  <2>3. old.removal = "wait" /\ gen' = [gen EXCEPT ![g] = r] BY <1>11, <2>1, <2>2 DEF Lives!RemovalOver, Lives!Set
  <2>4. Replaces(r, old) BY <1>1, <2>2, <2>3 DEF Replaces, Generation, Marked
  <2> QED BY <2>3, <2>4
<1>12. PICK r : gen' = [gen EXCEPT ![g] = r] /\ Replaces(r, old)
  BY <1>3, <1>4, <1>5, <1>6, <1>7, <1>8, <1>9, <1>10, <1>11
<1> QED BY <1>2, <1>12, GenerationReplaced

\* agent.stop goes to another machine than the one it is meant for, perhaps.
LEMMA StopSpares ==
  ASSUME MarksIInv, NEW g \in Lives!Gens, Lives!StopAgent(g)
  PROVE  MarksIInv' /\ CutsNobodyShort
<1> DEFINE h == sess[gen[g].id]
           G == Lives!Gens
           stopped == CASE h = 0 -> gen
                        [] h # 0 /\ gen[h].mach = "linking" ->
                             [gen EXCEPT ![h].mach = "disposed", ![h].scope = IF @ = "gone" THEN @ ELSE "going"]
                        [] h # 0 /\ gen[h].mach = "ready" -> [gen EXCEPT ![h].mach = "closing", ![h].scope = "going"]
                        [] OTHER -> gen
<1>1. gen = [k \in G |-> gen[k]] /\ drains \in Nat /\ \A k \in G : Generation(gen[k]) /\ Marked(gen[k]) BY DEF MarksIInv
<1>2. gen[g].removal = "stop" /\ gen' = [stopped EXCEPT ![g].removal = "wait"] /\ drains' = drains
  BY DEF Lives!StopAgent
<1>3. \E m, s : stopped = gen \/ stopped = [gen EXCEPT ![h] = [gen[h] EXCEPT !.mach = m, !.scope = s]]
  <2>1. PICK s : s = IF gen[h].scope = "gone" THEN gen[h].scope ELSE "going" OBVIOUS
  <2>2. CASE h # 0 /\ gen[h].mach = "linking"
    <3>1. stopped = [gen EXCEPT ![h] = [gen[h] EXCEPT !.mach = "disposed", !.scope = s]] BY <2>1, <2>2
    <3> QED BY <3>1
  <2>3. CASE h # 0 /\ gen[h].mach = "ready"
    <3>1. stopped = [gen EXCEPT ![h] = [gen[h] EXCEPT !.mach = "closing", !.scope = "going"]] BY <2>3
    <3> QED BY <3>1
  <2>4. CASE h = 0 \/ gen[h].mach \notin {"linking", "ready"}
    <3>1. stopped = gen BY <2>4
    <3> QED BY <3>1
  <2> QED BY <2>2, <2>3, <2>4
<1> HIDE DEF stopped, h, G
<1>4. /\ stopped = [k \in G |-> stopped[k]]
      /\ \A k \in G : /\ Generation(stopped[k]) /\ stopped[k].closing = gen[k].closing
                      /\ stopped[k].removal = gen[k].removal
  <2>1. PICK m, s : stopped = gen \/ stopped = [gen EXCEPT ![h] = [gen[h] EXCEPT !.mach = m, !.scope = s]] BY <1>3
  <2>2. PICK r : r = [gen[h] EXCEPT !.mach = m, !.scope = s] OBVIOUS
  <2>3. ASSUME h \in G PROVE Generation(r) /\ r.closing = gen[h].closing /\ r.removal = gen[h].removal
    <3>1. Generation(gen[h]) BY <1>1, <2>3
    <3> QED BY <2>2, <3>1 DEF Generation
  <2>4. CASE stopped = gen BY <1>1, <2>4
  <2>5. CASE stopped = [gen EXCEPT ![h] = r]
    <3>1. stopped = [k \in G |-> IF k = h THEN r ELSE gen[k]] BY <1>1, <2>5
    <3> QED BY <1>1, <2>3, <3>1
  <2> QED BY <2>1, <2>2, <2>4, <2>5
<1>5. PICK q : q = [stopped[g] EXCEPT !.removal = "wait"] OBVIOUS
<1>6. gen' = [stopped EXCEPT ![g] = q] BY <1>2, <1>5
<1>7. g \in G BY DEF G
<1>8. Generation(q) /\ q.closing = gen[g].closing /\ q.removal = "wait" BY <1>4, <1>5, <1>7 DEF Generation
<1>9. gen' = [k \in G |-> IF k = g THEN q ELSE stopped[k]] BY <1>4, <1>6
<1>10. gen' = [k \in G |-> gen'[k]] BY <1>9
<1>11. \A k \in G : gen'[k].closing = gen[k].closing BY <1>4, <1>8, <1>9
<1>12. \A k \in G : Generation(gen'[k]) /\ Marked(gen'[k])
  <2>1. \A k \in G \ {g} : gen'[k] = stopped[k] BY <1>9
  <2>2. gen'[g] = q BY <1>7, <1>9
  <2>3. Marked(q) BY <1>1, <1>2, <1>7, <1>8 DEF Marked
  <2>4. \A k \in G : Marked(stopped[k]) BY <1>1, <1>4 DEF Marked
  <2> QED BY <1>4, <1>8, <2>1, <2>2, <2>3, <2>4
<1>13. Lives!Gens' = G BY DEF G, Lives!Gens
<1>14. MarksIInv' BY <1>1, <1>2, <1>10, <1>12, <1>13 DEF MarksIInv, Generation, Marked
<1>15. CutsNobodyShort BY <1>11 DEF CutsNobodyShort, G
<1> QED BY <1>14, <1>15

\* A new generation is not closing.
LEMMA CreateSpares ==
  ASSUME MarksIInv, NEW o \in Lives!Ops, Lives!create(o)
  PROVE  MarksIInv' /\ CutsNobodyShort
<1>1. drains' = drains BY DEF Lives!create
<1>2. CASE gen' = gen BY <1>1, <1>2, GenerationsUnchanged
<1>3. CASE Lives!doCreate(o, ops[o].id)
  <2>1. PICK r : r = [Lives!NoGen EXCEPT !.id = ops[o].id, !.build = "seal", !.mach = "linking", !.scope = "up"] OBVIOUS
  <2>2. Generation(r) /\ r.removal = "none" /\ ~r.closing BY <2>1 DEF Generation, Lives!NoGen
  <2>3. \A old : Replaces(r, old) BY <2>2 DEF Replaces, Marked
  <2>4. PICK g : gen' = [gen EXCEPT ![g] = r] BY <1>3, <2>1 DEF Lives!doCreate
  <2> QED BY <1>1, <2>3, <2>4, GenerationReplaced
<1> QED BY <1>2, <1>3 DEF Lives!create

\* A removal marks its generation: its guard is what protects the others.
LEMMA Removed ==
  ASSUME MarksIInv, NEW g, Lives!remove(g), drains' \in Nat
  PROVE  MarksIInv' /\ \A k \in Lives!Gens \ {g} : gen'[k] = gen[k]
<1> DEFINE G == Lives!Gens
<1>1. gen = [k \in G |-> gen[k]] /\ \A k \in G : Generation(gen[k]) /\ Marked(gen[k]) BY DEF MarksIInv
<1>2. Lives!Gens' = G BY DEF Lives!Gens
<1>3. PICK r : r = [gen[g] EXCEPT !.closing = TRUE, !.removal = "quiesce"] OBVIOUS
<1>4. gen' = [gen EXCEPT ![g] = r] BY <1>3 DEF Lives!remove, Lives!Set
<1> HIDE DEF G
<1>5. gen' = [k \in G |-> IF k = g THEN r ELSE gen[k]] BY <1>1, <1>4
<1>6. gen' = [k \in G |-> gen'[k]] BY <1>5
<1>7. ASSUME g \in G PROVE Generation(r) /\ Marked(r)
  <2>1. Generation(gen[g]) BY <1>1, <1>7
  <2> QED BY <1>3, <2>1 DEF Generation, Marked
<1>8. \A k \in G : Generation(gen'[k]) /\ Marked(gen'[k]) BY <1>1, <1>5, <1>7
<1>9. MarksIInv' BY <1>2, <1>6, <1>8 DEF MarksIInv, Generation, Marked
<1> QED BY <1>5, <1>9 DEF G

LEMMA DrainSpares ==
  ASSUME MarksIInv, NEW id \in Ids, Lives!Drain(id)
  PROVE  MarksIInv' /\ CutsNobodyShort
<1>1. drains' = drains + 1 /\ drains \in Nat /\ Lives!remove(roster[id]) BY DEF Lives!Drain, MarksIInv
<1>2. drains' \in Nat /\ drains' # drains BY <1>1
<1>3. MarksIInv' BY <1>1, <1>2, Removed
<1>4. CutsNobodyShort BY <1>2 DEF CutsNobodyShort
<1> QED BY <1>3, <1>4

\* What the cache sees after the flush it still sees when it removes.
LEMMA FlushedSpares ==
  ASSUME MarksIInv, Lives!Flushed
  PROVE  MarksIInv' /\ CutsNobodyShort
<1>1. drains' = drains /\ drains \in Nat BY DEF Lives!Flushed, MarksIInv
<1>2. CASE gen' = gen BY <1>1, <1>2, GenerationsUnchanged
<1>3. CASE ~Lives!busy(ev.g) /\ Lives!remove(ev.g)
  <2>1. MarksIInv' /\ \A k \in Lives!Gens \ {ev.g} : gen'[k] = gen[k] BY <1>1, <1>3, Removed
  <2>2. CutsNobodyShort BY <1>3, <2>1 DEF CutsNobodyShort
  <2> QED BY <2>1, <2>2
<1> QED BY <1>2, <1>3 DEF Lives!Flushed

LEMMA MarksStep == ASSUME MarksIInv, Lives!Next PROVE MarksIInv' /\ CutsNobodyShort
<1>1. ASSUME NEW g \in Lives!Gens, Lives!RemovalOver(g) \/ Lives!GenStep(g) \/ Lives!BuildFails(g)
      PROVE  MarksIInv' /\ CutsNobodyShort
  BY <1>1, GenStepSpares, StopSpares DEF Lives!GenStep
<1>2. ASSUME NEW o \in Lives!Ops, Lives!OpStep(o) PROVE gen' = gen /\ drains' = drains
  BY <1>2 DEF Lives!OpStep, Lives!Poll, Lives!awaitLinked, Lives!resolveResumeTarget, Lives!Rebuilt, Lives!run,
              Lives!Launched, Lives!LaunchFails, Lives!TurnEnds, Lives!Finished
<1>3. ASSUME NEW o \in Lives!Ops, NEW id \in Ids, Lives!Spawn(o, id) \/ Lives!Resume(o, id)
      PROVE  gen' = gen /\ drains' = drains
  BY <1>3 DEF Lives!Spawn, Lives!Resume
<1>4. ASSUME Lives!StartPass \/ Lives!EndPass \/ Lives!oldestCandidate \/ Lives!evict \/ Lives!Evicted
      PROVE  gen' = gen /\ drains' = drains
  BY <1>4 DEF Lives!StartPass, Lives!EndPass, Lives!oldestCandidate, Lives!evict, Lives!Evicted
<1>5. ASSUME UNCHANGED Lives!vars PROVE gen' = gen /\ drains' = drains BY <1>5 DEF Lives!vars
<1>6. ASSUME gen' = gen /\ drains' = drains PROVE MarksIInv' /\ CutsNobodyShort BY <1>6, GenerationsUnchanged
<1>7. ASSUME Lives!CacheStep PROVE MarksIInv' /\ CutsNobodyShort
  BY <1>4, <1>6, <1>7, FlushedSpares DEF Lives!CacheStep
<1>8. ASSUME Lives!AgentStep PROVE MarksIInv' /\ CutsNobodyShort
  BY <1>1, <1>2, <1>3, <1>6, <1>7, <1>8, CreateSpares, DrainSpares DEF Lives!AgentStep
<1>9. ASSUME NEW o \in Lives!Ops, Lives!LeavesTask(o) PROVE gen' = gen /\ drains' = drains
  BY <1>9 DEF Lives!LeavesTask, Lives!TurnEnds
<1>10. ASSUME NEW g \in Lives!Gens, Lives!TaskEnds(g) PROVE gen' = gen /\ drains' = drains
  BY <1>10 DEF Lives!TaskEnds
<1> QED BY <1>5, <1>6, <1>8, <1>9, <1>10 DEF Lives!Next

LEMMA MarksStart == ASSUME Init PROVE MarksIInv
<1>1. gen = [g \in Lives!Gens |-> Lives!NoGen] /\ drains = 0 BY DEF Init, Lives!Init
<1>2. Generation(Lives!NoGen) /\ Lives!NoGen.removal = "none" BY DEF Generation, Lives!NoGen
<1>3. gen = [g \in Lives!Gens |-> gen[g]] /\ \A g \in Lives!Gens : gen[g] = Lives!NoGen BY <1>1
<1>4. \A g \in Lives!Gens : Generation(gen[g]) /\ Marked(gen[g]) BY <1>2, <1>3 DEF Marked
<1> QED BY <1>1, <1>3, <1>4 DEF MarksIInv

LEMMA SparesStep == ASSUME MarksIInv, [Next]_vars PROVE MarksIInv' /\ (CutsNobodyShort \/ UNCHANGED Lives!vars)
<1>1. ASSUME UNCHANGED lifeVars PROVE MarksIInv' /\ UNCHANGED Lives!vars
  <2>1. gen' = gen /\ drains' = drains /\ UNCHANGED Lives!vars
    BY <1>1 DEF lifeVars, Lives!vars, Lives!lvars, Lives!cvars
  <2> QED BY <2>1, GenerationsUnchanged
<1>2. UNCHANGED vars => UNCHANGED lifeVars BY DEF vars
<1> QED BY <1>1, <1>2, MarksStep DEF Next

\* A prompt may be launched while the cache flushes the journal of the agent it
\* means to evict: the cache looks again afterwards, and only a generation that
\* neither runs nor waits begins to close (SubagentScopeCacheService.evict), or
\* one that a closing session drains.
THEOREM EvictionsSpareTheBusy == Spec => NeverCutShort
<1>1. MarksIInv /\ [Next]_vars => MarksIInv' /\ [CutsNobodyShort]_(Lives!vars) BY SparesStep
<1>2. Init => MarksIInv BY MarksStart
<1>3. [CutsNobodyShort]_(Lives!vars)
        <=> [\A g \in Lives!Gens :
               ev.pc = "flush" /\ ~gen[g].closing /\ gen'[g].closing /\ gen'[g].removal = "quiesce"
                 => ~Lives!busy(g) \/ drains' # drains]_(Lives!vars)
  BY DEF CutsNobodyShort
<1> QED BY <1>1, <1>2, <1>3, PTL DEF Spec, NeverCutShort, Lives!NeverCutShort

----------------------------------------------------------------------------
(* The lives of the agents: types and invariant.                           *)

Gens == Lives!Gens
Ops == Lives!Ops
Refs == Gens \cup {0}
Alive == {"linking", "ready", "closing"}
Entries == [id : Ids, tries : 0 .. MaxAttempts]
Orderly == "orphan" \notin odd
Straight == "stray" \notin odd

Call(c) == c = [id |-> c.id, pc |-> c.pc, g |-> c.g, spawn |-> c.spawn]
Pass(e) == e = [pc |-> e.pc, id |-> e.id, tries |-> e.tries, g |-> e.g, skipped |-> e.skipped, putOff |-> e.putOff]

LivesShapes ==
  /\ gen = [g \in Gens |-> gen[g]] /\ \A g \in Gens : Generation(gen[g])
  /\ roster \in [Ids -> Refs] /\ sess \in [Ids -> Refs] /\ asks \in [Ids -> Refs]
  /\ shut \subseteq Ids /\ odd \subseteq {"orphan", "stray", "flaky"}

CallShapes ==
  /\ ops = [o \in Ops |-> ops[o]] /\ \A o \in Ops : Call(ops[o])
  /\ creating \in [Ids -> Ops \cup {0}]

CacheShapes == retired \in Seq(Entries) /\ passes \in Nat /\ Pass(ev)

\* One life: how build, machine, scope and removal go together.
LifeOK(r) ==
  /\ r.mach = "none" => r = Lives!NoGen
  /\ r.mach # "none" => r.id \in Ids /\ r.build # "none" /\ r.scope # "none"
  /\ r.mach \in {"none", "disposed"} \cup Alive /\ r.build \in {"none", "ok", "failing", "failed"} \cup Lives!Building
  /\ r.mach = "linking" => r.build \in Lives!Building \cup {"failing"}
  /\ r.mach = "ready" => r.build = "ok" /\ r.scope = "up"
  /\ r.mach \in {"linking", "ready"} => r.removal \in {"none", "quiesce", "stop"}
  /\ r.mach = "closing" => r.build = "ok" /\ r.scope = "going" /\ r.removal # "over"
  /\ r.mach = "disposed" => r.scope # "up"
  /\ r.build = "failed" => r.mach = "disposed"
  /\ r.build \in {"failing", "failed"} => r.scope # "up"
  /\ r.removal = "over" => r.mach = "disposed"
  /\ r.closing = (r.removal # "none" \/ r.build \in {"failing", "failed"})
  /\ r.build \in {"restore", "boot", "ok"} => r.created
  /\ r.closes = (IF r.removal = "over" THEN 1 ELSE 0) + (IF r.build = "failed" /\ r.created THEN 1 ELSE 0)

\* As long as nobody was removed while it linked.
OrderlyOK(r) ==
  /\ r.removal # "none" => r.build = "ok"
  /\ r.removal \in {"quiesce", "stop"} => r.mach = "ready"
  /\ r.build \in Lives!Building \cup {"failing"} => r.mach = "linking"
  /\ r.scope \in {"up", "going"} => r.mach \in Alive

\* As long as every agent.stop reached the machine it was meant for.
StraightOK(r) ==
  /\ r.build = "ok" /\ r.removal \in {"none", "quiesce", "stop"} => r.mach = "ready"
  /\ r.build \in Lives!Building \cup {"failing"} /\ r.removal = "none" => r.mach = "linking"

LivesOK ==
  /\ \A g \in Gens : LifeOK(gen[g])
  /\ Orderly => Straight /\ \A g \in Gens : OrderlyOK(gen[g])
  /\ Straight => \A g \in Gens : StraightOK(gen[g])

\* The session's table knows the machines that live, the roster the
\* generations that neither failed nor were removed.
TablesOK ==
  /\ \A g \in Gens : gen[g].mach \in Alive => sess[gen[g].id] = g
  /\ \A id \in Ids : sess[id] # 0 => gen[sess[id]].id = id /\ gen[sess[id]].mach \in Alive
  /\ \A id \in Ids : roster[id] # 0 =>
       /\ gen[roster[id]].id = id /\ gen[roster[id]].mach # "none"
       /\ gen[roster[id]].removal # "over" /\ gen[roster[id]].build \notin {"failing", "failed"}
  /\ \A g \in Gens : gen[g].mach \in Alive => roster[gen[g].id] = IF gen[g].build = "failing" THEN 0 ELSE g

\* An id that is shut has a removal under way.
ShutOK == \A id \in shut : \E g \in Gens : gen[g].id = id /\ gen[g].removal \in {"quiesce", "stop", "wait"}

\* Interactions belong to the agent that lives; a removal whose machine is
\* gone is over before a successor can attach its own.
AsksOK == Orderly =>
  /\ \A g \in Gens : gen[g].build = "boot" \/ gen[g].mach = "ready" => asks[gen[g].id] = g
  /\ \A g, k \in Gens :
       gen[k].removal = "wait" /\ gen[k].mach = "disposed" /\ gen[g].id = gen[k].id /\ gen[g].mach \in Alive
         => gen[g].build = "seal"

LivesInv == LivesShapes /\ LivesOK /\ TablesOK /\ ShutOK /\ AsksOK

----------------------------------------------------------------------------
(* One generation changes.                                                 *)

LEMMA NumbersOfGens == 0 \notin Gens /\ 0 \notin Ops /\ Gens \subseteq Nat /\ Ops \subseteq Nat
BY LivesAssumption DEF Gens, Ops, Lives!Gens, Lives!Ops

LEMMA OneChanges ==
  ASSUME LivesShapes, NEW g \in Gens, NEW r, gen' = [gen EXCEPT ![g] = r], Generation(r)
  PROVE  /\ gen' = [h \in Gens |-> gen'[h]] /\ gen'[g] = r /\ \A h \in Gens : h # g => gen'[h] = gen[h]
         /\ \A h \in Gens : Generation(gen'[h])
<1>1. gen = [h \in Gens |-> gen[h]] /\ \A h \in Gens : Generation(gen[h]) BY DEF LivesShapes
<1>2. gen' = [h \in Gens |-> IF h = g THEN r ELSE gen[h]] BY <1>1
<1>3. gen' = [h \in Gens |-> gen'[h]] BY <1>2
<1>4. gen'[g] = r /\ \A h \in Gens : h # g => gen'[h] = gen[h] BY <1>2
<1>5. \A h \in Gens : Generation(gen'[h]) BY <1>1, <1>4
<1> QED BY <1>3, <1>4, <1>5

\* A generation becomes r.
Becomes(g, r) ==
  /\ gen' = [h \in Gens |-> gen'[h]] /\ \A h \in Gens : Generation(gen'[h])
  /\ gen'[g] = r /\ \A h \in Gens : h # g => gen'[h] = gen[h]
  /\ LifeOK(r)
  /\ Orderly' => Orderly /\ Straight' /\ OrderlyOK(r)
  /\ Straight' => Straight /\ StraightOK(r)

LEMMA LivesKept == ASSUME LivesInv, NEW g \in Gens, NEW r, Becomes(g, r) PROVE LivesOK'
<1>1. \A h \in Gens : LifeOK(gen'[h]) BY DEF LivesInv, LivesOK, Becomes
<1>2. Orderly' => Straight' /\ \A h \in Gens : OrderlyOK(gen'[h]) BY DEF LivesInv, LivesOK, Becomes
<1>3. Straight' => \A h \in Gens : StraightOK(gen'[h]) BY DEF LivesInv, LivesOK, Becomes
<1>4. Gens' = Gens BY DEF Gens, Lives!Gens
<1> HIDE DEF Gens
<1> QED BY <1>1, <1>2, <1>3, <1>4 DEF LivesOK, LifeOK, OrderlyOK, StraightOK

\* A step that leaves the tables alone.
LEMMA TablesKept ==
  ASSUME LivesInv, NEW g \in Gens, NEW r, Becomes(g, r), roster' = roster, sess' = sess,
         r.id = gen[g].id, gen[g].mach # "none", r.mach # "none", r.mach \in Alive <=> gen[g].mach \in Alive,
         r.build \in {"failing", "failed"} <=> gen[g].build \in {"failing", "failed"},
         r.build = "failing" <=> gen[g].build = "failing",
         r.removal = "over" <=> gen[g].removal = "over"
  PROVE  TablesOK'
<1>1. Gens' = Gens BY DEF Gens, Lives!Gens
<1>2. /\ gen'[g] = r /\ \A h \in Gens : h # g => gen'[h] = gen[h]
      /\ roster \in [Ids -> Refs] /\ sess \in [Ids -> Refs] /\ TablesOK /\ \A h \in Gens : LifeOK(gen[h])
  BY DEF LivesInv, LivesShapes, LivesOK, Becomes
<1> HIDE DEF Gens
<1>3. \A h \in Gens : gen'[h].mach \in Alive => sess'[gen'[h].id] = h BY <1>2 DEF TablesOK
<1>4. ASSUME NEW id \in Ids, sess'[id] # 0 PROVE gen'[sess'[id]].id = id /\ gen'[sess'[id]].mach \in Alive
  <2>1. sess[id] \in Gens /\ sess'[id] = sess[id] BY <1>2, <1>4 DEF Refs
  <2> QED BY <1>2, <1>4, <2>1 DEF TablesOK
<1>5. ASSUME NEW id \in Ids, roster'[id] # 0
      PROVE  /\ gen'[roster'[id]].id = id /\ gen'[roster'[id]].mach # "none"
             /\ gen'[roster'[id]].removal # "over" /\ gen'[roster'[id]].build \notin {"failing", "failed"}
  <2>1. roster[id] \in Gens /\ roster'[id] = roster[id] BY <1>2, <1>5 DEF Refs
  <2> QED BY <1>2, <1>5, <2>1 DEF TablesOK
<1>6. \A h \in Gens : gen'[h].mach \in Alive => roster'[gen'[h].id] = IF gen'[h].build = "failing" THEN 0 ELSE h
  BY <1>2 DEF TablesOK
<1> QED BY <1>1, <1>3, <1>4, <1>5, <1>6 DEF TablesOK

LEMMA ShutKept ==
  ASSUME LivesInv, NEW g \in Gens, NEW r, Becomes(g, r), shut' \subseteq shut, r.id = gen[g].id,
         r.removal \in {"quiesce", "stop", "wait"} <=> gen[g].removal \in {"quiesce", "stop", "wait"}
  PROVE  ShutOK'
<1>1. Gens' = Gens BY DEF Gens, Lives!Gens
<1>2. gen'[g] = r /\ \A h \in Gens : h # g => gen'[h] = gen[h] BY DEF Becomes
<1>3. ShutOK BY DEF LivesInv
<1> HIDE DEF Gens
<1>4. ASSUME NEW id \in shut' PROVE \E h \in Gens : gen'[h].id = id /\ gen'[h].removal \in {"quiesce", "stop", "wait"}
  <2>1. PICK h \in Gens : gen[h].id = id /\ gen[h].removal \in {"quiesce", "stop", "wait"} BY <1>3 DEF ShutOK
  <2>2. gen'[h].id = id /\ gen'[h].removal \in {"quiesce", "stop", "wait"} BY <1>2, <2>1
  <2> QED BY <2>2
<1> QED BY <1>1, <1>4 DEF ShutOK

\* A microtask that is due goes first.
LEMMA SettledFirst ==
  ASSUME Lives!Settled, NEW g \in Gens PROVE ~(gen[g].removal = "wait" /\ gen[g].mach = "disposed")
BY DEF Lives!Settled, Gens

\* Nothing but the removal that is under way makes the interactions leave.
LEMMA AsksKept ==
  ASSUME LivesInv, NEW g \in Gens, NEW r, Becomes(g, r), asks' = asks, r.id = gen[g].id,
         \A k \in Gens : ~(gen'[k].removal = "wait" /\ gen'[k].mach = "disposed"),
         r.build = "boot" \/ r.mach = "ready" => gen[g].build = "boot" \/ gen[g].mach = "ready"
  PROVE  AsksOK'
<1>1. Gens' = Gens BY DEF Gens, Lives!Gens
<1>2. gen'[g] = r /\ (\A h \in Gens : h # g => gen'[h] = gen[h]) /\ (Orderly' => Orderly) BY DEF Becomes
<1>3. AsksOK BY DEF LivesInv
<1> HIDE DEF Gens
<1>4. Orderly' => \A h \in Gens : gen'[h].build = "boot" \/ gen'[h].mach = "ready" => asks'[gen'[h].id] = h
  BY <1>2, <1>3 DEF AsksOK
<1> QED BY <1>1, <1>4 DEF AsksOK

\* A step of one generation that leaves tables, interactions and shut alone.
LEMMA LivesInvKept ==
  ASSUME LivesInv, Lives!Settled, NEW g \in Gens, NEW r, Becomes(g, r),
         roster' = roster, sess' = sess, asks' = asks, shut' = shut, odd' = odd,
         gen[g].mach # "none", r.id = gen[g].id, r.mach # "none", r.mach \in Alive <=> gen[g].mach \in Alive,
         r.build = gen[g].build \/ {r.build, gen[g].build} \cap {"failing", "failed"} = {},
         r.removal = "over" <=> gen[g].removal = "over",
         r.removal \in {"quiesce", "stop", "wait"} <=> gen[g].removal \in {"quiesce", "stop", "wait"},
         ~(r.removal = "wait" /\ r.mach = "disposed"),
         r.build = "boot" \/ r.mach = "ready" => gen[g].build = "boot" \/ gen[g].mach = "ready"
  PROVE  LivesInv'
<1>1. LivesOK' BY LivesKept
<1>2. TablesOK' BY TablesKept
<1>3. ShutOK' BY ShutKept
<1>4. \A k \in Gens : ~(gen'[k].removal = "wait" /\ gen'[k].mach = "disposed") BY SettledFirst DEF Becomes
<1>5. AsksOK' BY <1>4, AsksKept
<1>6. LivesShapes'
  <2>1. Gens' = Gens /\ Refs' = Refs BY DEF Gens, Lives!Gens, Refs
  <2> HIDE DEF Gens, Refs
  <2> QED BY <2>1 DEF LivesInv, LivesShapes, Becomes, Generation
<1> QED BY <1>1, <1>2, <1>3, <1>5, <1>6 DEF LivesInv

LEMMA BecomesIs ==
  ASSUME LivesInv, NEW g \in Gens, NEW r, gen' = [gen EXCEPT ![g] = r], Generation(r), LifeOK(r), odd' = odd,
         Orderly => OrderlyOK(r), Straight => StraightOK(r)
  PROVE  Becomes(g, r)
<1>1. LivesShapes /\ (Orderly => Straight) BY DEF LivesInv, LivesOK
<1>2. (Orderly' <=> Orderly) /\ (Straight' <=> Straight) BY DEF Orderly, Straight
<1>3. /\ gen' = [h \in Gens |-> gen'[h]] /\ gen'[g] = r /\ \A h \in Gens : h # g => gen'[h] = gen[h]
      /\ \A h \in Gens : Generation(gen'[h])
  BY <1>1, OneChanges
<1> QED BY <1>1, <1>2, <1>3 DEF Becomes

LEMMA LifeFacts ==
  ASSUME LivesInv, NEW g \in Gens
  PROVE  /\ Generation(gen[g]) /\ LifeOK(gen[g]) /\ (Orderly => Straight /\ OrderlyOK(gen[g]))
         /\ Straight => StraightOK(gen[g])
BY DEF LivesInv, LivesShapes, LivesOK

----------------------------------------------------------------------------
(* The steps of a generation.                                              *)

LEMMA SealedKeeps ==
  ASSUME LivesInv, NEW g \in Gens, Lives!Settled, Lives!Sealed(g) PROVE LivesInv'
<1> DEFINE old == gen[g]
<1>1. /\ Generation(old) /\ LifeOK(old) /\ (Orderly => Straight /\ OrderlyOK(old)) /\ (Straight => StraightOK(old))
      /\ ~(old.removal = "wait" /\ old.mach = "disposed")
  BY LifeFacts, SettledFirst
<1>2. PICK r : r = [old EXCEPT !.build = "register"] OBVIOUS
<1>3. /\ gen' = [gen EXCEPT ![g] = r] /\ old.build = "seal"
      /\ roster' = roster /\ sess' = sess /\ asks' = asks /\ shut' = shut /\ odd' = odd
  BY <1>2 DEF Lives!Sealed, Lives!Set, Lives!lvars, Lives!cvars
<1> HIDE DEF old
<1>4. r = [id |-> old.id, build |-> "register", mach |-> old.mach, scope |-> old.scope, closing |-> old.closing,
           removal |-> old.removal, created |-> old.created, closes |-> old.closes]
  BY <1>1, <1>2 DEF Generation
<1>5. Generation(r) /\ LifeOK(r) BY <1>1, <1>3, <1>4 DEF Generation, LifeOK, Lives!Building, Lives!NoGen, Alive
<1>6. (Orderly => OrderlyOK(r)) /\ (Straight => StraightOK(r))
  BY <1>1, <1>3, <1>4 DEF OrderlyOK, StraightOK, LifeOK, Lives!Building, Alive
<1>7. Becomes(g, r) BY <1>3, <1>5, <1>6, BecomesIs
<1> QED BY <1>1, <1>3, <1>4, <1>7, LivesInvKept DEF old, LifeOK, Lives!NoGen, Alive

LEMMA BuiltKeeps ==
  ASSUME LivesInv, NEW g \in Gens, Lives!Settled, Lives!Built(g) PROVE LivesInv'
<1> DEFINE old == gen[g]
<1>1. /\ Generation(old) /\ LifeOK(old) /\ (Orderly => Straight /\ OrderlyOK(old)) /\ (Straight => StraightOK(old))
      /\ ~(old.removal = "wait" /\ old.mach = "disposed")
  BY LifeFacts, SettledFirst
<1>2. PICK r : r = [old EXCEPT !.build = "ok", !.mach = "ready"] OBVIOUS
<1>3. /\ gen' = [gen EXCEPT ![g] = r] /\ old.build = "boot" /\ old.scope = "up"
      /\ roster' = roster /\ sess' = sess /\ asks' = asks /\ shut' = shut /\ odd' = odd
  BY <1>2 DEF Lives!Built, Lives!Set, Lives!lvars, Lives!cvars
<1> HIDE DEF old
<1>4. r = [id |-> old.id, build |-> "ok", mach |-> "ready", scope |-> old.scope, closing |-> old.closing,
           removal |-> old.removal, created |-> old.created, closes |-> old.closes]
  BY <1>1, <1>2 DEF Generation
<1>5. Generation(r) /\ LifeOK(r) BY <1>1, <1>3, <1>4 DEF Generation, LifeOK, Lives!Building, Lives!NoGen, Alive
<1>6. (Orderly => OrderlyOK(r)) /\ (Straight => StraightOK(r))
  BY <1>1, <1>3, <1>4 DEF OrderlyOK, StraightOK, LifeOK, Lives!Building, Alive
<1>7. Becomes(g, r) BY <1>3, <1>5, <1>6, BecomesIs
<1> QED BY <1>1, <1>3, <1>4, <1>7, LivesInvKept DEF old, LifeOK, Lives!NoGen, Alive

LEMMA QuiescedKeeps ==
  ASSUME LivesInv, NEW g \in Gens, Lives!Settled, Lives!Quiesced(g) PROVE LivesInv'
<1> DEFINE old == gen[g]
<1>1. /\ Generation(old) /\ LifeOK(old) /\ (Orderly => Straight /\ OrderlyOK(old)) /\ (Straight => StraightOK(old))
      /\ ~(old.removal = "wait" /\ old.mach = "disposed")
  BY LifeFacts, SettledFirst
<1>2. PICK r : r = [old EXCEPT !.removal = "stop"] OBVIOUS
<1>3. /\ gen' = [gen EXCEPT ![g] = r] /\ old.removal = "quiesce"
      /\ roster' = roster /\ sess' = sess /\ asks' = asks /\ shut' = shut /\ odd' = odd
  BY <1>2 DEF Lives!Quiesced, Lives!Set, Lives!lvars, Lives!cvars
<1> HIDE DEF old
<1>4. r = [id |-> old.id, build |-> old.build, mach |-> old.mach, scope |-> old.scope, closing |-> old.closing,
           removal |-> "stop", created |-> old.created, closes |-> old.closes]
  BY <1>1, <1>2 DEF Generation
<1>5. Generation(r) /\ LifeOK(r) BY <1>1, <1>3, <1>4 DEF Generation, LifeOK, Lives!Building, Lives!NoGen, Alive
<1>6. (Orderly => OrderlyOK(r)) /\ (Straight => StraightOK(r))
  BY <1>1, <1>3, <1>4 DEF OrderlyOK, StraightOK, LifeOK, Lives!Building, Alive
<1>7. Becomes(g, r) BY <1>3, <1>5, <1>6, BecomesIs
<1> QED BY <1>1, <1>3, <1>4, <1>7, LivesInvKept DEF old, LifeOK, Lives!NoGen, Alive

LEMMA RegisteredKeeps ==
  ASSUME LivesInv, NEW g \in Gens, Lives!Settled, Lives!Registered(g) PROVE LivesInv'
<1> DEFINE old == gen[g]
<1>1. /\ Generation(old) /\ LifeOK(old) /\ (Orderly => Straight /\ OrderlyOK(old)) /\ (Straight => StraightOK(old))
      /\ ~(old.removal = "wait" /\ old.mach = "disposed")
  BY LifeFacts, SettledFirst
<1>2. PICK r : r = [old EXCEPT !.build = "restore", !.created = TRUE] OBVIOUS
<1>3. /\ gen' = [gen EXCEPT ![g] = r] /\ old.build = "register"
      /\ roster' = roster /\ sess' = sess /\ asks' = asks /\ shut' = shut /\ odd' = odd
  BY <1>2 DEF Lives!Registered, Lives!Set
<1> HIDE DEF old
<1>4. r = [id |-> old.id, build |-> "restore", mach |-> old.mach, scope |-> old.scope, closing |-> old.closing,
           removal |-> old.removal, created |-> TRUE, closes |-> old.closes]
  BY <1>1, <1>2 DEF Generation
<1>5. Generation(r) /\ LifeOK(r) BY <1>1, <1>3, <1>4 DEF Generation, LifeOK, Lives!Building, Lives!NoGen, Alive
<1>6. (Orderly => OrderlyOK(r)) /\ (Straight => StraightOK(r))
  BY <1>1, <1>3, <1>4 DEF OrderlyOK, StraightOK, LifeOK, Lives!Building, Alive
<1>7. Becomes(g, r) BY <1>3, <1>5, <1>6, BecomesIs
<1> QED BY <1>1, <1>3, <1>4, <1>7, LivesInvKept DEF old, LifeOK, Lives!NoGen, Alive

\* Two machines that live have different ids.
LEMMA OneAlive ==
  ASSUME LivesInv, NEW g \in Gens, NEW h \in Gens, gen[g].id = gen[h].id, gen[g].mach \in Alive, gen[h].mach \in Alive
  PROVE  g = h
BY DEF LivesInv, TablesOK

LEMMA RestoredKeeps ==
  ASSUME LivesInv, NEW g \in Gens, Lives!Settled, Lives!Restored(g) PROVE LivesInv'
<1> DEFINE old == gen[g]
<1>1. /\ Generation(old) /\ LifeOK(old) /\ (Orderly => Straight /\ OrderlyOK(old)) /\ (Straight => StraightOK(old))
      /\ ~(old.removal = "wait" /\ old.mach = "disposed")
  BY LifeFacts, SettledFirst
<1>2. PICK r : r = [old EXCEPT !.build = "boot"] OBVIOUS
<1>3. /\ gen' = [gen EXCEPT ![g] = r] /\ old.build = "restore" /\ old.scope = "up"
      /\ roster' = roster /\ sess' = sess /\ asks' = [asks EXCEPT ![old.id] = g] /\ shut' = shut /\ odd' = odd
  BY <1>2 DEF Lives!Restored, Lives!Set, Lives!cvars
<1> HIDE DEF old
<1>4. r = [id |-> old.id, build |-> "boot", mach |-> old.mach, scope |-> old.scope, closing |-> old.closing,
           removal |-> old.removal, created |-> old.created, closes |-> old.closes]
  BY <1>1, <1>2 DEF Generation
<1>5. Generation(r) /\ LifeOK(r) BY <1>1, <1>3, <1>4 DEF Generation, LifeOK, Lives!Building, Lives!NoGen, Alive
<1>6. (Orderly => OrderlyOK(r)) /\ (Straight => StraightOK(r))
  BY <1>1, <1>3, <1>4 DEF OrderlyOK, StraightOK, LifeOK, Lives!Building, Alive
<1>7. Becomes(g, r) BY <1>3, <1>5, <1>6, BecomesIs
<1>8. old.mach = "linking" /\ old.id \in Ids BY <1>1, <1>3 DEF LifeOK, Lives!NoGen, Alive
<1>9. TablesOK' BY <1>3, <1>4, <1>7, <1>8, TablesKept DEF old
<1>10. LivesOK' /\ ShutOK' BY <1>3, <1>4, <1>7, LivesKept, ShutKept DEF old
<1>11. gen'[g] = r /\ (\A h \in Gens : h # g => gen'[h] = gen[h]) /\ (Orderly' => Orderly)
       /\ asks \in [Ids -> Refs] /\ AsksOK /\ (\A h \in Gens : LifeOK(gen[h]))
  BY <1>7, LifeFacts DEF Becomes, LivesInv, LivesShapes
<1>12. Gens' = Gens /\ Refs' = Refs BY DEF Gens, Lives!Gens, Refs
<1>13. AsksOK'
  <2>1. \A k \in Gens : ~(gen'[k].removal = "wait" /\ gen'[k].mach = "disposed") BY <1>4, <1>8, <1>11, SettledFirst
  <2>2. ASSUME Orderly', NEW h \in Gens, gen'[h].build = "boot" \/ gen'[h].mach = "ready" PROVE asks'[gen'[h].id] = h
    <3>1. CASE h = g BY <1>3, <1>4, <1>8, <1>11, <3>1
    <3>2. CASE h # g
      <4>1. gen'[h] = gen[h] /\ asks[gen[h].id] = h BY <1>11, <2>2, <3>2 DEF AsksOK
      <4>2. gen[h].mach \in Alive BY <1>11, <2>2, <4>1, LifeFacts DEF OrderlyOK, Alive, Lives!Building
      <4>3. gen[h].id # old.id BY <1>8, <3>2, <4>2, OneAlive DEF old, Alive
      <4> QED BY <1>3, <1>11, <4>1, <4>3
    <3> QED BY <3>1, <3>2
  <2> HIDE DEF Gens
  <2> QED BY <1>12, <2>1, <2>2 DEF AsksOK
<1>14. LivesShapes'
  <2>1. g \in Refs BY DEF Refs
  <2> HIDE DEF Gens, Refs
  <2>2. asks' \in [Ids -> Refs] BY <1>3, <1>11, <2>1
  <2> QED BY <1>3, <1>7, <1>12, <2>2 DEF LivesInv, LivesShapes, Becomes, Generation
<1> QED BY <1>9, <1>10, <1>13, <1>14 DEF LivesInv

\* A build that fails takes its generation from the roster.
LEMMA BuildFailsKeeps ==
  ASSUME LivesInv, NEW g \in Gens, Lives!Settled, Lives!BuildFails(g) PROVE LivesInv'
<1> DEFINE old == gen[g]
<1>1. /\ Generation(old) /\ LifeOK(old) /\ (Orderly => Straight /\ OrderlyOK(old)) /\ (Straight => StraightOK(old))
      /\ ~(old.removal = "wait" /\ old.mach = "disposed")
  BY LifeFacts, SettledFirst
<1>2. PICK s : s = IF old.scope = "gone" THEN old.scope ELSE "going" OBVIOUS
<1>3. PICK r : r = [old EXCEPT !.build = "failing", !.closing = TRUE, !.scope = s] OBVIOUS
<1>4. /\ gen' = [gen EXCEPT ![g] = r] /\ old.build \in Lives!Building
      /\ roster' = (IF roster[old.id] = g THEN [roster EXCEPT ![old.id] = 0] ELSE roster)
      /\ sess' = sess /\ asks' = asks /\ shut' = shut /\ odd' = odd
  BY <1>2, <1>3 DEF Lives!BuildFails, Lives!Set, Lives!cvars
<1> HIDE DEF old
<1>5. r = [id |-> old.id, build |-> "failing", mach |-> old.mach, scope |-> s, closing |-> TRUE,
           removal |-> old.removal, created |-> old.created, closes |-> old.closes]
  BY <1>1, <1>3 DEF Generation
<1>6. s \in {"gone", "going"} BY <1>2
<1>7. Generation(r) /\ LifeOK(r)
  <2>1. Generation(r) BY <1>5 DEF Generation
  <2>2. old.mach # "none" /\ old.mach # "ready" /\ old.mach # "closing"
    BY <1>1, <1>4 DEF LifeOK, Lives!NoGen, Lives!Building
  <2>3. r.closing = (r.removal # "none" \/ r.build \in {"failing", "failed"}) BY <1>5
  <2>4. r.closes = (IF r.removal = "over" THEN 1 ELSE 0) + (IF r.build = "failed" /\ r.created THEN 1 ELSE 0)
    BY <1>1, <1>4, <1>5 DEF LifeOK, Lives!Building
  <2> QED BY <1>1, <1>4, <1>5, <1>6, <2>1, <2>2, <2>3, <2>4 DEF LifeOK, Alive
<1>8. (Orderly => OrderlyOK(r)) /\ (Straight => StraightOK(r))
  BY <1>1, <1>4, <1>5 DEF OrderlyOK, StraightOK, LifeOK, Lives!Building, Alive
<1>9. Becomes(g, r) BY <1>4, <1>7, <1>8, BecomesIs
<1>10. old.mach \in {"linking", "disposed"} /\ old.id \in Ids BY <1>1, <1>4 DEF LifeOK, Lives!NoGen, Alive, Lives!Building
<1>11. /\ gen'[g] = r /\ \A h \in Gens : h # g => gen'[h] = gen[h]
       /\ roster \in [Ids -> Refs] /\ sess \in [Ids -> Refs] /\ TablesOK /\ \A h \in Gens : LifeOK(gen[h])
  BY <1>9, LifeFacts DEF LivesInv, LivesShapes, Becomes
<1>12. Gens' = Gens /\ Refs' = Refs /\ 0 \notin Gens BY NumbersOfGens DEF Gens, Lives!Gens, Refs
<1>13. LivesOK' /\ ShutOK' BY <1>4, <1>5, <1>9, LivesKept, ShutKept DEF old
<1>14. AsksOK'
  <2>1. \A k \in Gens : ~(gen'[k].removal = "wait" /\ gen'[k].mach = "disposed") BY <1>1, <1>5, <1>11, SettledFirst
  <2> QED BY <1>4, <1>5, <1>9, <1>10, <2>1, AsksKept DEF old
<1>15. /\ roster' \in [Ids -> Refs] /\ \A id \in Ids : roster'[id] = IF roster[id] = g THEN 0 ELSE roster[id]
  <2>1. \A id \in Ids : roster[id] = g => id = old.id BY <1>11, <1>12 DEF TablesOK, old
  <2>2. 0 \in Refs BY DEF Refs
  <2> HIDE DEF Refs, Gens
  <2> QED BY <1>4, <1>10, <1>11, <2>1, <2>2
<1>16. TablesOK'
  <2>1. \A h \in Gens : gen'[h].mach \in Alive => sess'[gen'[h].id] = h BY <1>4, <1>5, <1>11 DEF TablesOK, old
  <2>2. ASSUME NEW id \in Ids, sess'[id] # 0 PROVE gen'[sess'[id]].id = id /\ gen'[sess'[id]].mach \in Alive
    <3>1. sess[id] \in Gens /\ sess'[id] = sess[id] BY <1>4, <1>11, <2>2 DEF Refs
    <3> QED BY <1>5, <1>11, <2>2, <3>1 DEF TablesOK, old
  <2>3. ASSUME NEW id \in Ids, roster'[id] # 0
        PROVE  /\ gen'[roster'[id]].id = id /\ gen'[roster'[id]].mach # "none"
               /\ gen'[roster'[id]].removal # "over" /\ gen'[roster'[id]].build \notin {"failing", "failed"}
    <3>1. roster[id] \in Gens /\ roster'[id] = roster[id] /\ roster[id] # g BY <1>11, <1>15, <2>3 DEF Refs
    <3> QED BY <1>11, <2>3, <3>1 DEF TablesOK
  <2>4. ASSUME NEW h \in Gens, gen'[h].mach \in Alive
        PROVE  roster'[gen'[h].id] = IF gen'[h].build = "failing" THEN 0 ELSE h
    <3>1. CASE h = g
      <4>1. roster[old.id] = g BY <1>4, <1>5, <1>11, <2>4, <3>1 DEF TablesOK, old, Lives!Building
      <4> QED BY <1>5, <1>10, <1>11, <1>15, <3>1, <4>1
    <3>2. CASE h # g
      <4>1. gen'[h] = gen[h] /\ gen[h].id \in Ids BY <1>11, <2>4, <3>2 DEF LifeOK, Alive
      <4>2. roster[gen[h].id] = IF gen[h].build = "failing" THEN 0 ELSE h BY <1>11, <2>4, <4>1 DEF TablesOK
      <4> QED BY <1>15, <3>2, <4>1, <4>2
    <3> QED BY <3>1, <3>2
  <2> HIDE DEF Gens
  <2> QED BY <1>12, <2>1, <2>2, <2>3, <2>4 DEF TablesOK
<1>17. LivesShapes'
  <2> HIDE DEF Gens, Refs
  <2> QED BY <1>4, <1>9, <1>12, <1>15 DEF LivesInv, LivesShapes, Becomes, Generation
<1> QED BY <1>13, <1>14, <1>16, <1>17 DEF LivesInv

\* The rest of a failed build: the machine leaves the session's table.
LEMMA BuildFailedKeeps ==
  ASSUME LivesInv, NEW g \in Gens, Lives!Settled, Lives!BuildFailed(g) PROVE LivesInv'
<1> DEFINE old == gen[g]
<1>1. /\ Generation(old) /\ LifeOK(old) /\ (Orderly => Straight /\ OrderlyOK(old)) /\ (Straight => StraightOK(old))
      /\ ~(old.removal = "wait" /\ old.mach = "disposed")
  BY LifeFacts, SettledFirst
<1>2. PICK n : n = IF old.created THEN old.closes + 1 ELSE old.closes OBVIOUS
<1>3. PICK r : r = [old EXCEPT !.build = "failed", !.mach = "disposed", !.closes = n] OBVIOUS
<1>4. /\ gen' = [gen EXCEPT ![g] = r] /\ old.build = "failing" /\ old.scope = "gone"
      /\ sess' = (IF sess[old.id] = g THEN [sess EXCEPT ![old.id] = 0] ELSE sess)
      /\ roster' = roster /\ odd' = odd /\ shut' \subseteq shut
      /\ asks' = asks \/ asks' = [asks EXCEPT ![old.id] = 0]
  BY <1>2, <1>3 DEF Lives!BuildFailed, Lives!Set, Lives!cvars, Lives!DidClose
<1> HIDE DEF old
<1>5. r = [id |-> old.id, build |-> "failed", mach |-> "disposed", scope |-> old.scope, closing |-> old.closing,
           removal |-> old.removal, created |-> old.created, closes |-> n]
  BY <1>1, <1>3 DEF Generation
<1>6. Generation(r) /\ LifeOK(r)
  <2>1. Generation(r) BY <1>5 DEF Generation
  <2>2. old.mach # "none" BY <1>1, <1>4 DEF LifeOK, Lives!NoGen
  <2>3. r.closes = (IF r.removal = "over" THEN 1 ELSE 0) + (IF r.build = "failed" /\ r.created THEN 1 ELSE 0)
    BY <1>1, <1>2, <1>4, <1>5 DEF LifeOK
  <2>4. r.closing = (r.removal # "none" \/ r.build \in {"failing", "failed"}) BY <1>1, <1>4, <1>5 DEF LifeOK
  <2> QED BY <1>1, <1>4, <1>5, <2>1, <2>2, <2>3, <2>4 DEF LifeOK, Alive
<1>7. (Orderly => OrderlyOK(r)) /\ (Straight => StraightOK(r))
  BY <1>1, <1>4, <1>5 DEF OrderlyOK, StraightOK, LifeOK, Lives!Building, Alive
<1>8. Becomes(g, r) BY <1>4, <1>6, <1>7, BecomesIs
<1>9. old.mach \in {"linking", "disposed"} /\ old.id \in Ids BY <1>1, <1>4 DEF LifeOK, Lives!NoGen, Alive
<1>10. /\ gen'[g] = r /\ (\A h \in Gens : h # g => gen'[h] = gen[h]) /\ (Orderly' => Orderly)
       /\ roster \in [Ids -> Refs] /\ sess \in [Ids -> Refs] /\ asks \in [Ids -> Refs] /\ TablesOK /\ AsksOK
       /\ \A h \in Gens : LifeOK(gen[h])
  BY <1>8, LifeFacts DEF LivesInv, LivesShapes, Becomes
<1>11. Gens' = Gens /\ Refs' = Refs /\ 0 \notin Gens BY NumbersOfGens DEF Gens, Lives!Gens, Refs
<1>12. LivesOK' /\ ShutOK' BY <1>4, <1>5, <1>8, LivesKept, ShutKept DEF old
<1>13. /\ sess' \in [Ids -> Refs] /\ \A id \in Ids : sess'[id] = IF sess[id] = g THEN 0 ELSE sess[id]
  <2>1. \A id \in Ids : sess[id] = g => id = old.id BY <1>10, <1>11 DEF TablesOK, old
  <2>2. 0 \in Refs BY DEF Refs
  <2> HIDE DEF Refs, Gens
  <2> QED BY <1>4, <1>9, <1>10, <2>1, <2>2
<1>14. TablesOK'
  <2>1. ASSUME NEW h \in Gens, gen'[h].mach \in Alive
        PROVE  sess'[gen'[h].id] = h /\ roster'[gen'[h].id] = IF gen'[h].build = "failing" THEN 0 ELSE h
    <3>1. h # g BY <1>5, <1>10, <2>1 DEF Alive
    <3>2. gen'[h] = gen[h] /\ gen[h].id \in Ids /\ sess[gen[h].id] = h
          /\ roster[gen[h].id] = IF gen[h].build = "failing" THEN 0 ELSE h
      BY <1>10, <2>1, <3>1 DEF LifeOK, Alive, TablesOK
    <3> QED BY <1>4, <1>13, <3>1, <3>2
  <2>2. ASSUME NEW id \in Ids, sess'[id] # 0 PROVE gen'[sess'[id]].id = id /\ gen'[sess'[id]].mach \in Alive
    <3>1. sess[id] \in Gens /\ sess'[id] = sess[id] /\ sess[id] # g BY <1>10, <1>13, <2>2 DEF Refs
    <3> QED BY <1>10, <2>2, <3>1 DEF TablesOK
  <2>3. ASSUME NEW id \in Ids, roster'[id] # 0
        PROVE  /\ gen'[roster'[id]].id = id /\ gen'[roster'[id]].mach # "none"
               /\ gen'[roster'[id]].removal # "over" /\ gen'[roster'[id]].build \notin {"failing", "failed"}
    <3>1. roster[id] \in Gens /\ roster'[id] = roster[id] BY <1>4, <1>10, <2>3 DEF Refs
    <3>2. roster[id] # g BY <1>4, <1>10, <2>3, <3>1 DEF TablesOK, old
    <3> QED BY <1>10, <2>3, <3>1, <3>2 DEF TablesOK
  <2> HIDE DEF Gens
  <2> QED BY <1>11, <2>1, <2>2, <2>3 DEF TablesOK
<1>15. AsksOK'
  <2>1. ASSUME Orderly', NEW h \in Gens, gen'[h].build = "boot" \/ gen'[h].mach = "ready" PROVE asks'[gen'[h].id] = h
    <3>1. h # g BY <1>5, <1>10, <2>1
    <3>2. gen'[h] = gen[h] /\ asks[gen[h].id] = h BY <1>10, <2>1, <3>1 DEF AsksOK
    <3>3. gen[h].mach \in Alive BY <1>10, <2>1, <3>2, LifeFacts DEF OrderlyOK, Alive, Lives!Building
    <3>4. gen[h].id \in Ids BY <1>10, <3>3 DEF LifeOK, Alive
    <3>5. old.mach \in Alive BY <1>1, <1>4, <1>10, <2>1 DEF OrderlyOK, Alive
    <3>6. gen[h].id # old.id BY <3>1, <3>3, <3>5, OneAlive DEF old
    <3> QED BY <1>4, <1>9, <1>10, <3>2, <3>4, <3>6
  <2>2. ASSUME Orderly', NEW k \in Gens PROVE ~(gen'[k].removal = "wait" /\ gen'[k].mach = "disposed")
    <3>1. r.removal = "none" BY <1>1, <1>4, <1>5, <1>10, <2>2 DEF OrderlyOK
    <3> QED BY <1>10, <3>1, SettledFirst
  <2> HIDE DEF Gens
  <2> QED BY <1>11, <2>1, <2>2 DEF AsksOK
<1>16. LivesShapes'
  <2>1. asks' \in [Ids -> Refs]
    <3>1. 0 \in Refs BY DEF Refs
    <3> HIDE DEF Refs
    <3> QED BY <1>4, <1>10, <3>1
  <2> HIDE DEF Gens, Refs
  <2> QED BY <1>4, <1>8, <1>11, <1>13, <2>1 DEF LivesInv, LivesShapes, Becomes, Generation
<1> QED BY <1>12, <1>14, <1>15, <1>16 DEF LivesInv

\* The disposal of a scope ends the life of a machine that is closing.
LEMMA ScopeDisposedKeeps ==
  ASSUME LivesInv, NEW g \in Gens, Lives!Settled, Lives!ScopeDisposed(g) PROVE LivesInv'
<1> DEFINE old == gen[g]
<1>1. /\ Generation(old) /\ LifeOK(old) /\ (Orderly => Straight /\ OrderlyOK(old)) /\ (Straight => StraightOK(old))
      /\ ~(old.removal = "wait" /\ old.mach = "disposed")
  BY LifeFacts, SettledFirst
<1>2. PICK m : m = IF old.mach = "closing" THEN "disposed" ELSE old.mach OBVIOUS
<1>3. PICK r : r = [old EXCEPT !.scope = "gone", !.mach = m] OBVIOUS
<1>4. /\ gen' = [gen EXCEPT ![g] = r] /\ old.scope = "going"
      /\ sess' = (IF old.mach = "closing" /\ sess[old.id] = g THEN [sess EXCEPT ![old.id] = 0] ELSE sess)
      /\ roster' = roster /\ odd' = odd /\ shut' = shut /\ asks' = asks
  BY <1>2, <1>3 DEF Lives!ScopeDisposed, Lives!Set, Lives!cvars
<1> HIDE DEF old
<1>5. r = [id |-> old.id, build |-> old.build, mach |-> m, scope |-> "gone", closing |-> old.closing,
           removal |-> old.removal, created |-> old.created, closes |-> old.closes]
  BY <1>1, <1>3 DEF Generation
<1>6. old.mach \in {"linking", "closing", "disposed"} /\ old.id \in Ids
  BY <1>1, <1>4 DEF LifeOK, Lives!NoGen, Alive
<1>7. Generation(r) /\ LifeOK(r)
  BY <1>1, <1>2, <1>4, <1>5, <1>6 DEF Generation, LifeOK, Alive
<1>8. (Orderly => OrderlyOK(r)) /\ (Straight => StraightOK(r))
  BY <1>1, <1>2, <1>4, <1>5, <1>6 DEF OrderlyOK, StraightOK, LifeOK, Lives!Building, Alive
<1>9. Becomes(g, r) BY <1>4, <1>7, <1>8, BecomesIs
<1>10. /\ gen'[g] = r /\ (\A h \in Gens : h # g => gen'[h] = gen[h]) /\ (Orderly' => Orderly)
       /\ roster \in [Ids -> Refs] /\ sess \in [Ids -> Refs] /\ TablesOK /\ AsksOK
       /\ \A h \in Gens : LifeOK(gen[h])
  BY <1>9, LifeFacts DEF LivesInv, LivesShapes, Becomes
<1>11. Gens' = Gens /\ Refs' = Refs /\ 0 \notin Gens BY NumbersOfGens DEF Gens, Lives!Gens, Refs
<1>12. LivesOK' /\ ShutOK' BY <1>4, <1>5, <1>9, LivesKept, ShutKept DEF old
<1>13. /\ sess' \in [Ids -> Refs]
       /\ \A id \in Ids : sess'[id] = IF old.mach = "closing" /\ sess[id] = g THEN 0 ELSE sess[id]
  <2>1. \A id \in Ids : sess[id] = g => id = old.id BY <1>10, <1>11 DEF TablesOK, old
  <2>2. 0 \in Refs BY DEF Refs
  <2> HIDE DEF Refs, Gens
  <2> QED BY <1>4, <1>6, <1>10, <2>1, <2>2
<1>14. TablesOK'
  <2>1. ASSUME NEW h \in Gens, gen'[h].mach \in Alive
        PROVE  sess'[gen'[h].id] = h /\ roster'[gen'[h].id] = IF gen'[h].build = "failing" THEN 0 ELSE h
    <3>1. /\ gen[h].mach \in Alive /\ gen'[h].id = gen[h].id /\ gen'[h].build = gen[h].build
          /\ (h = g => old.mach # "closing")
      BY <1>2, <1>5, <1>6, <1>10, <2>1 DEF Alive, old
    <3>2. gen[h].id \in Ids /\ sess[gen[h].id] = h /\ roster[gen[h].id] = IF gen[h].build = "failing" THEN 0 ELSE h
      BY <1>10, <3>1 DEF LifeOK, Alive, TablesOK
    <3> QED BY <1>4, <1>13, <3>1, <3>2
  <2>2. ASSUME NEW id \in Ids, sess'[id] # 0 PROVE gen'[sess'[id]].id = id /\ gen'[sess'[id]].mach \in Alive
    <3>1. sess[id] \in Gens /\ sess'[id] = sess[id] /\ (sess[id] = g => old.mach # "closing") BY <1>10, <1>13, <2>2 DEF Refs
    <3>2. gen[sess[id]].id = id /\ gen[sess[id]].mach \in Alive BY <1>10, <2>2, <3>1 DEF TablesOK
    <3> QED BY <1>2, <1>5, <1>10, <3>1, <3>2 DEF old
  <2>3. ASSUME NEW id \in Ids, roster'[id] # 0
        PROVE  /\ gen'[roster'[id]].id = id /\ gen'[roster'[id]].mach # "none"
               /\ gen'[roster'[id]].removal # "over" /\ gen'[roster'[id]].build \notin {"failing", "failed"}
    <3>1. roster[id] \in Gens /\ roster'[id] = roster[id] BY <1>4, <1>10, <2>3 DEF Refs
    <3> QED BY <1>2, <1>5, <1>10, <2>3, <3>1 DEF TablesOK, old
  <2> HIDE DEF Gens
  <2> QED BY <1>11, <2>1, <2>2, <2>3 DEF TablesOK
<1>15. AsksOK'
  <2>1. ASSUME Orderly', NEW h \in Gens, gen'[h].build = "boot" \/ gen'[h].mach = "ready" PROVE asks'[gen'[h].id] = h
    <3>1. (gen[h].build = "boot" \/ gen[h].mach = "ready") /\ gen'[h].id = gen[h].id
      BY <1>2, <1>5, <1>6, <1>10, <2>1 DEF old
    <3> QED BY <1>4, <1>10, <2>1, <3>1 DEF AsksOK
  <2>2. ASSUME NEW k \in Gens, NEW h \in Gens, gen'[k].removal = "wait", gen'[k].mach = "disposed",
               gen'[h].id = gen'[k].id, gen'[h].mach \in Alive
        PROVE  FALSE
    <3>1. k = g BY <1>10, <2>2, SettledFirst
    <3>2. old.mach = "closing" BY <1>1, <1>2, <1>5, <1>6, <1>10, <2>2, <3>1
    <3>3. h # g /\ gen'[h] = gen[h] BY <1>5, <1>10, <2>2, <3>1 DEF Alive
    <3> QED BY <1>5, <1>10, <2>2, <3>1, <3>2, <3>3, OneAlive DEF old, Alive
  <2> HIDE DEF Gens
  <2> QED BY <1>11, <2>1, <2>2 DEF AsksOK
<1>16. LivesShapes'
  <2> HIDE DEF Gens, Refs
  <2> QED BY <1>4, <1>9, <1>11, <1>13 DEF LivesInv, LivesShapes, Becomes, Generation
<1> QED BY <1>12, <1>14, <1>15, <1>16 DEF LivesInv

\* A removal is over when its machine is; its interactions leave with it.
LEMMA RemovalOverKeeps ==
  ASSUME LivesInv, NEW g \in Gens, Lives!RemovalOver(g) PROVE LivesInv'
<1> DEFINE old == gen[g]
<1>1. /\ Generation(old) /\ LifeOK(old) /\ (Orderly => Straight /\ OrderlyOK(old)) /\ (Straight => StraightOK(old))
  BY LifeFacts
<1>2. PICK n : n = old.closes + 1 OBVIOUS
<1>3. PICK r : r = [old EXCEPT !.removal = "over", !.closes = n] OBVIOUS
<1>4. /\ gen' = [gen EXCEPT ![g] = r] /\ old.removal = "wait" /\ old.mach = "disposed"
      /\ roster' = (IF roster[old.id] = g THEN [roster EXCEPT ![old.id] = 0] ELSE roster)
      /\ sess' = sess /\ odd' = odd /\ shut' = shut \ {old.id} /\ asks' = [asks EXCEPT ![old.id] = 0]
  BY <1>2, <1>3 DEF Lives!RemovalOver, Lives!Set, Lives!DidClose
<1> HIDE DEF old
<1>5. r = [id |-> old.id, build |-> old.build, mach |-> "disposed", scope |-> old.scope, closing |-> old.closing,
           removal |-> "over", created |-> old.created, closes |-> n]
  BY <1>1, <1>3, <1>4 DEF Generation
<1>6. Generation(r) /\ LifeOK(r)
  <2>1. Generation(r) BY <1>5 DEF Generation
  <2>2. old.mach # "none" BY <1>4
  <2>3. r.closes = (IF r.removal = "over" THEN 1 ELSE 0) + (IF r.build = "failed" /\ r.created THEN 1 ELSE 0)
    BY <1>1, <1>2, <1>4, <1>5 DEF LifeOK
  <2>4. r.closing = (r.removal # "none" \/ r.build \in {"failing", "failed"}) BY <1>1, <1>4, <1>5 DEF LifeOK
  <2> QED BY <1>1, <1>4, <1>5, <2>1, <2>2, <2>3, <2>4 DEF LifeOK, Alive
<1>7. (Orderly => OrderlyOK(r)) /\ (Straight => StraightOK(r))
  BY <1>1, <1>4, <1>5 DEF OrderlyOK, StraightOK
<1>8. Becomes(g, r) BY <1>4, <1>6, <1>7, BecomesIs
<1>9. old.id \in Ids BY <1>1, <1>4 DEF LifeOK
<1>10. /\ gen'[g] = r /\ (\A h \in Gens : h # g => gen'[h] = gen[h]) /\ (Orderly' => Orderly)
       /\ roster \in [Ids -> Refs] /\ sess \in [Ids -> Refs] /\ asks \in [Ids -> Refs] /\ TablesOK /\ AsksOK /\ ShutOK
       /\ \A h \in Gens : LifeOK(gen[h])
  BY <1>8, LifeFacts DEF LivesInv, LivesShapes, Becomes
<1>11. Gens' = Gens /\ Refs' = Refs /\ 0 \notin Gens BY NumbersOfGens DEF Gens, Lives!Gens, Refs
<1>12. LivesOK' BY <1>8, LivesKept
<1>13. /\ roster' \in [Ids -> Refs] /\ \A id \in Ids : roster'[id] = IF roster[id] = g THEN 0 ELSE roster[id]
  <2>1. \A id \in Ids : roster[id] = g => id = old.id BY <1>10, <1>11 DEF TablesOK, old
  <2>2. 0 \in Refs BY DEF Refs
  <2> HIDE DEF Refs, Gens
  <2> QED BY <1>4, <1>9, <1>10, <2>1, <2>2
<1>14. TablesOK'
  <2>1. ASSUME NEW h \in Gens, gen'[h].mach \in Alive
        PROVE  sess'[gen'[h].id] = h /\ roster'[gen'[h].id] = IF gen'[h].build = "failing" THEN 0 ELSE h
    <3>1. h # g BY <1>5, <1>10, <2>1 DEF Alive
    <3>2. gen'[h] = gen[h] /\ gen[h].id \in Ids /\ sess[gen[h].id] = h
          /\ roster[gen[h].id] = IF gen[h].build = "failing" THEN 0 ELSE h
      BY <1>10, <2>1, <3>1 DEF LifeOK, Alive, TablesOK
    <3> QED BY <1>4, <1>11, <1>13, <3>1, <3>2
  <2>2. ASSUME NEW id \in Ids, sess'[id] # 0 PROVE gen'[sess'[id]].id = id /\ gen'[sess'[id]].mach \in Alive
    <3>1. sess[id] \in Gens /\ sess'[id] = sess[id] BY <1>4, <1>10, <2>2 DEF Refs
    <3>2. gen[sess[id]].id = id /\ gen[sess[id]].mach \in Alive BY <1>10, <2>2, <3>1 DEF TablesOK
    <3>3. sess[id] # g BY <1>4, <3>2 DEF Alive, old
    <3> QED BY <1>10, <3>1, <3>2, <3>3
  <2>3. ASSUME NEW id \in Ids, roster'[id] # 0
        PROVE  /\ gen'[roster'[id]].id = id /\ gen'[roster'[id]].mach # "none"
               /\ gen'[roster'[id]].removal # "over" /\ gen'[roster'[id]].build \notin {"failing", "failed"}
    <3>1. roster[id] \in Gens /\ roster'[id] = roster[id] /\ roster[id] # g BY <1>10, <1>13, <2>3 DEF Refs
    <3> QED BY <1>10, <2>3, <3>1 DEF TablesOK
  <2> HIDE DEF Gens
  <2> QED BY <1>11, <2>1, <2>2, <2>3 DEF TablesOK
<1>15. AsksOK'
  <2>0. ASSUME Orderly', NEW h \in Gens, gen[h].mach \in Alive, gen[h].id = old.id PROVE gen[h].build = "seal"
    BY <1>4, <1>10, <2>0 DEF AsksOK, old
  <2>1. ASSUME Orderly', NEW h \in Gens, gen'[h].build = "boot" \/ gen'[h].mach = "ready" PROVE asks'[gen'[h].id] = h
    <3>1. h # g
      <4>1. gen'[g].mach = "disposed" /\ gen'[g].build # "boot"
        BY <1>1, <1>4, <1>5, <1>10, <2>1 DEF OrderlyOK, Lives!Building
      <4> QED BY <2>1, <4>1
    <3>2. gen'[h] = gen[h] /\ asks[gen[h].id] = h BY <1>10, <2>1, <3>1 DEF AsksOK
    <3>3. gen[h].mach \in Alive BY <1>10, <2>1, <3>2, LifeFacts DEF OrderlyOK, Alive, Lives!Building
    <3>4. gen[h].id \in Ids /\ gen[h].build # "seal" BY <1>10, <2>1, <3>2, <3>3 DEF LifeOK, Alive
    <3>5. gen[h].id # old.id BY <2>0, <2>1, <3>3, <3>4
    <3> QED BY <1>4, <1>9, <1>10, <3>2, <3>4, <3>5
  <2>2. ASSUME Orderly', NEW k \in Gens, NEW h \in Gens, gen'[k].removal = "wait", gen'[k].mach = "disposed",
               gen'[h].id = gen'[k].id, gen'[h].mach \in Alive
        PROVE  gen'[h].build = "seal"
    <3>1. k # g /\ h # g BY <1>5, <1>10, <2>2 DEF Alive
    <3>2. gen'[k] = gen[k] /\ gen'[h] = gen[h] BY <1>10, <3>1
    <3> QED BY <1>10, <2>2, <3>2 DEF AsksOK
  <2> HIDE DEF Gens
  <2> QED BY <1>11, <2>1, <2>2 DEF AsksOK
<1>16. ShutOK'
  <2>1. ASSUME NEW id \in shut' PROVE \E h \in Gens : gen'[h].id = id /\ gen'[h].removal \in {"quiesce", "stop", "wait"}
    <3>1. id \in shut /\ id # old.id BY <1>4, <2>1
    <3>2. PICK h \in Gens : gen[h].id = id /\ gen[h].removal \in {"quiesce", "stop", "wait"} BY <1>10, <3>1 DEF ShutOK
    <3>3. gen'[h] = gen[h] BY <1>10, <3>1, <3>2 DEF old
    <3> QED BY <3>2, <3>3
  <2> HIDE DEF Gens
  <2> QED BY <1>11, <2>1 DEF ShutOK
<1>17. LivesShapes'
  <2>1. asks' \in [Ids -> Refs]
    <3>1. 0 \in Refs BY DEF Refs
    <3> HIDE DEF Refs
    <3> QED BY <1>4, <1>10, <3>1
  <2> HIDE DEF Gens, Refs
  <2> QED BY <1>4, <1>8, <1>11, <1>13, <2>1 DEF LivesInv, LivesShapes, Becomes, Generation
<1> QED BY <1>12, <1>14, <1>15, <1>16, <1>17 DEF LivesInv

\* remove up to its first await, of a generation that is not closing.
LEMMA RemoveKeeps ==
  ASSUME LivesInv, Lives!Settled, NEW g \in Gens, ~gen[g].closing, gen[g].mach # "none", Lives!remove(g),
         roster' = roster, sess' = sess, asks' = asks
  PROVE  LivesInv'
<1> DEFINE old == gen[g]
<1>1. /\ Generation(old) /\ LifeOK(old) /\ (Orderly => Straight /\ OrderlyOK(old)) /\ (Straight => StraightOK(old))
  BY LifeFacts
<1>2. PICK r : r = [old EXCEPT !.closing = TRUE, !.removal = "quiesce"] OBVIOUS
<1>3. /\ gen' = [gen EXCEPT ![g] = r] /\ shut' = shut \cup {old.id} /\ ~old.closing /\ old.mach # "none"
      /\ odd' = IF old.mach = "linking" THEN odd \cup {"orphan"} ELSE odd
  BY <1>2 DEF Lives!remove, Lives!Set
<1> HIDE DEF old
<1>4. r = [id |-> old.id, build |-> old.build, mach |-> old.mach, scope |-> old.scope, closing |-> TRUE,
           removal |-> "quiesce", created |-> old.created, closes |-> old.closes]
  BY <1>1, <1>2 DEF Generation
<1>5. old.removal = "none" /\ old.build \notin {"failing", "failed"} /\ old.id \in Ids /\ old.build # "none"
  BY <1>1, <1>3 DEF LifeOK
<1>6. Generation(r) /\ LifeOK(r) BY <1>1, <1>3, <1>4, <1>5 DEF Generation, LifeOK, Alive
<1>7. (Orderly' => Orderly /\ old.mach # "linking") /\ (Straight' <=> Straight) BY <1>3 DEF Orderly, Straight
<1>8. Straight => StraightOK(r) BY <1>1, <1>4, <1>5 DEF StraightOK
<1>9. Orderly' => OrderlyOK(r)
  <2>1. Orderly' => old.build = "ok" BY <1>1, <1>5, <1>7 DEF OrderlyOK, LifeOK
  <2>2. Orderly' => old.mach = "ready" BY <1>1, <1>5, <1>7, <2>1 DEF StraightOK
  <2> QED BY <1>1, <1>4, <2>1, <2>2 DEF OrderlyOK, Alive, Lives!Building
<1>10. LivesShapes BY DEF LivesInv
<1>11. Becomes(g, r)
  <2>1. /\ gen' = [h \in Gens |-> gen'[h]] /\ gen'[g] = r /\ \A h \in Gens : h # g => gen'[h] = gen[h]
        /\ \A h \in Gens : Generation(gen'[h])
    BY <1>3, <1>6, <1>10, OneChanges
  <2> QED BY <1>1, <1>6, <1>7, <1>8, <1>9, <2>1 DEF Becomes
<1>12. LivesOK' BY <1>11, LivesKept
<1>13. TablesOK' BY <1>3, <1>4, <1>5, <1>11, TablesKept DEF old
<1>14. /\ gen'[g] = r /\ (\A h \in Gens : h # g => gen'[h] = gen[h]) /\ ShutOK BY <1>11 DEF Becomes, LivesInv
<1>15. Gens' = Gens /\ Refs' = Refs BY DEF Gens, Lives!Gens, Refs
<1>16. AsksOK'
  <2>1. \A k \in Gens : ~(gen'[k].removal = "wait" /\ gen'[k].mach = "disposed") BY <1>4, <1>14, SettledFirst
  <2> QED BY <1>4, <1>11, <2>1, AsksKept DEF old
<1>17. ShutOK'
  <2>1. ASSUME NEW id \in shut' PROVE \E h \in Gens : gen'[h].id = id /\ gen'[h].removal \in {"quiesce", "stop", "wait"}
    <3>1. CASE id = old.id BY <1>4, <1>14, <3>1
    <3>2. CASE id \in shut
      <4>1. PICK h \in Gens : gen[h].id = id /\ gen[h].removal \in {"quiesce", "stop", "wait"} BY <1>14, <3>2 DEF ShutOK
      <4>2. gen'[h].id = id /\ gen'[h].removal \in {"quiesce", "stop", "wait"} BY <1>5, <1>14, <4>1 DEF old
      <4> QED BY <4>2
    <3> QED BY <1>3, <2>1, <3>1, <3>2
  <2> HIDE DEF Gens
  <2> QED BY <1>15, <2>1 DEF ShutOK
<1>18. LivesShapes'
  <2> HIDE DEF Gens, Refs
  <2> QED BY <1>3, <1>5, <1>10, <1>11, <1>15 DEF LivesShapes, Becomes, Generation
<1> QED BY <1>12, <1>13, <1>16, <1>17, <1>18 DEF LivesInv

\* What agent.stop makes of a machine.
Stops(r, m, s) ==
  /\ r.mach = "linking" => m = "disposed" /\ s \in {"gone", "going"}
  /\ r.mach = "ready" => m = "closing" /\ s = "going"
  /\ r.mach \notin {"linking", "ready"} => m = r.mach /\ s = r.scope

LEMMA StopAgentEffect ==
  ASSUME LivesInv, NEW g \in Gens, Lives!StopAgent(g)
  PROVE  /\ gen' = [k \in Gens |-> gen'[k]]
         /\ \E m, s :
              /\ Stops(gen[sess[gen[g].id]], m, s)
              /\ \A k \in Gens :
                   gen'[k] = [id |-> gen[k].id, build |-> gen[k].build,
                              mach |-> IF k = sess[gen[g].id] THEN m ELSE gen[k].mach,
                              scope |-> IF k = sess[gen[g].id] THEN s ELSE gen[k].scope,
                              closing |-> gen[k].closing,
                              removal |-> IF k = g THEN "wait" ELSE gen[k].removal,
                              created |-> gen[k].created, closes |-> gen[k].closes]
<1> DEFINE h == sess[gen[g].id]
           stopped == CASE h = 0 -> gen
                        [] h # 0 /\ gen[h].mach = "linking" ->
                             [gen EXCEPT ![h].mach = "disposed", ![h].scope = IF @ = "gone" THEN @ ELSE "going"]
                        [] h # 0 /\ gen[h].mach = "ready" -> [gen EXCEPT ![h].mach = "closing", ![h].scope = "going"]
                        [] OTHER -> gen
<1>1. gen = [k \in Gens |-> gen[k]] /\ \A k \in Gens : Generation(gen[k]) BY DEF LivesInv, LivesShapes
<1>2. gen' = [stopped EXCEPT ![g].removal = "wait"] BY DEF Lives!StopAgent
<1>3. \E m, s : /\ Stops(gen[h], m, s)
                /\ stopped = [gen EXCEPT ![h] = [gen[h] EXCEPT !.mach = m, !.scope = s]] \/ (stopped = gen /\ h = 0)
                   \/ (stopped = gen /\ m = gen[h].mach /\ s = gen[h].scope)
  <2>1. PICK s : s = IF gen[h].scope = "gone" THEN gen[h].scope ELSE "going" OBVIOUS
  <2>2. CASE h # 0 /\ gen[h].mach = "linking"
    <3>1. stopped = [gen EXCEPT ![h] = [gen[h] EXCEPT !.mach = "disposed", !.scope = s]] BY <2>1, <2>2
    <3>2. Stops(gen[h], "disposed", s) BY <2>1, <2>2 DEF Stops
    <3> QED BY <3>1, <3>2
  <2>3. CASE h # 0 /\ gen[h].mach = "ready"
    <3>1. stopped = [gen EXCEPT ![h] = [gen[h] EXCEPT !.mach = "closing", !.scope = "going"]] BY <2>3
    <3>2. Stops(gen[h], "closing", "going") BY <2>3 DEF Stops
    <3> QED BY <3>1, <3>2
  <2>4. CASE h # 0 /\ gen[h].mach \notin {"linking", "ready"}
    <3>1. stopped = gen BY <2>4
    <3>2. Stops(gen[h], gen[h].mach, gen[h].scope) BY <2>4 DEF Stops
    <3> QED BY <3>1, <3>2
  <2>5. CASE h = 0
    <3>1. stopped = gen BY <2>5
    <3>2. \E m, t : Stops(gen[h], m, t)
      <4>1. CASE gen[h].mach = "linking" 
        <5>1. Stops(gen[h], "disposed", "gone") BY <4>1 DEF Stops
        <5> QED BY <5>1
      <4>2. CASE gen[h].mach = "ready" 
        <5>1. Stops(gen[h], "closing", "going") BY <4>2 DEF Stops
        <5> QED BY <5>1
      <4>3. CASE gen[h].mach \notin {"linking", "ready"} 
        <5>1. Stops(gen[h], gen[h].mach, gen[h].scope) BY <4>3 DEF Stops
        <5> QED BY <5>1
      <4> QED BY <4>1, <4>2, <4>3
    <3> QED BY <2>5, <3>1, <3>2
  <2> QED BY <2>2, <2>3, <2>4, <2>5
<1> HIDE DEF stopped, h
<1>4. PICK m, s : /\ Stops(gen[h], m, s)
                  /\ stopped = [gen EXCEPT ![h] = [gen[h] EXCEPT !.mach = m, !.scope = s]] \/ (stopped = gen /\ h = 0)
                     \/ (stopped = gen /\ m = gen[h].mach /\ s = gen[h].scope)
  BY <1>3
<1>5. /\ stopped = [k \in Gens |-> stopped[k]]
      /\ \A k \in Gens : stopped[k] = [id |-> gen[k].id, build |-> gen[k].build,
                              mach |-> IF k = h THEN m ELSE gen[k].mach, scope |-> IF k = h THEN s ELSE gen[k].scope,
                              closing |-> gen[k].closing, removal |-> gen[k].removal,
                              created |-> gen[k].created, closes |-> gen[k].closes]
  <2>1. CASE stopped = gen /\ h = 0
    <3>1. 0 \notin Gens BY NumbersOfGens
    <3> QED BY <1>1, <2>1, <3>1 DEF Generation
  <2>2. CASE stopped = gen /\ m = gen[h].mach /\ s = gen[h].scope BY <1>1, <2>2 DEF Generation
  <2>3. CASE stopped = [gen EXCEPT ![h] = [gen[h] EXCEPT !.mach = m, !.scope = s]]
    <3>1. PICK p : p = [gen[h] EXCEPT !.mach = m, !.scope = s] OBVIOUS
    <3>2. stopped = [k \in Gens |-> IF k = h THEN p ELSE gen[k]] BY <1>1, <2>3, <3>1
    <3>3. ASSUME h \in Gens
          PROVE  p = [id |-> gen[h].id, build |-> gen[h].build, mach |-> m, scope |-> s, closing |-> gen[h].closing,
                      removal |-> gen[h].removal, created |-> gen[h].created, closes |-> gen[h].closes]
      <4>1. Generation(gen[h]) BY <1>1, <3>3
      <4> QED BY <3>1, <4>1 DEF Generation
    <3> QED BY <1>1, <3>2, <3>3 DEF Generation
  <2> QED BY <1>4, <2>1, <2>2, <2>3
<1>6. PICK q : q = [stopped[g] EXCEPT !.removal = "wait"] OBVIOUS
<1>7. q = [id |-> gen[g].id, build |-> gen[g].build,
           mach |-> IF g = h THEN m ELSE gen[g].mach, scope |-> IF g = h THEN s ELSE gen[g].scope,
           closing |-> gen[g].closing, removal |-> "wait",
           created |-> gen[g].created, closes |-> gen[g].closes]
  BY <1>5, <1>6
<1>8. gen' = [stopped EXCEPT ![g] = q] BY <1>2, <1>6
<1>9. gen' = [k \in Gens |-> IF k = g THEN q ELSE stopped[k]] BY <1>5, <1>8
<1>10. gen' = [k \in Gens |-> gen'[k]] BY <1>9
<1>11. \A k \in Gens :
         gen'[k] = [id |-> gen[k].id, build |-> gen[k].build,
                    mach |-> IF k = h THEN m ELSE gen[k].mach, scope |-> IF k = h THEN s ELSE gen[k].scope,
                    closing |-> gen[k].closing, removal |-> IF k = g THEN "wait" ELSE gen[k].removal,
                    created |-> gen[k].created, closes |-> gen[k].closes]
  BY <1>5, <1>7, <1>9
<1> QED BY <1>4, <1>10, <1>11 DEF h

LEMMA StopAgentKeeps ==
  ASSUME LivesInv, NEW g \in Gens, Lives!Settled, Lives!StopAgent(g) PROVE LivesInv'
<1> DEFINE old == gen[g]
           h == sess[old.id]
<1>1. /\ \A k \in Gens : Generation(gen[k]) /\ LifeOK(gen[k])
      /\ (Orderly => Straight /\ \A k \in Gens : OrderlyOK(gen[k])) /\ (Straight => \A k \in Gens : StraightOK(gen[k]))
      /\ roster \in [Ids -> Refs] /\ sess \in [Ids -> Refs] /\ TablesOK /\ AsksOK /\ ShutOK
  BY DEF LivesInv, LivesShapes, LivesOK
<1>2. PICK m, s : /\ Stops(gen[h], m, s)
                  /\ \A k \in Gens :
                       gen'[k] = [id |-> gen[k].id, build |-> gen[k].build,
                                  mach |-> IF k = h THEN m ELSE gen[k].mach, scope |-> IF k = h THEN s ELSE gen[k].scope,
                                  closing |-> gen[k].closing, removal |-> IF k = g THEN "wait" ELSE gen[k].removal,
                                  created |-> gen[k].created, closes |-> gen[k].closes]
  BY StopAgentEffect
<1>3. /\ old.removal = "stop"
      /\ sess' = (IF h # 0 /\ gen[h].mach = "linking" THEN [sess EXCEPT ![old.id] = 0] ELSE sess)
      /\ odd' = odd \cup (IF h # 0 /\ h # g THEN {"stray"} ELSE {}) \cup (IF h # 0 /\ gen[h].mach = "linking" THEN {"orphan"} ELSE {})
      /\ roster' = roster /\ asks' = asks /\ shut' = shut
  BY DEF Lives!StopAgent, Lives!cvars
<1>4. Gens' = Gens /\ Refs' = Refs /\ 0 \notin Gens BY NumbersOfGens DEF Gens, Lives!Gens, Refs
<1>5. old.id \in Ids BY <1>1, <1>3 DEF LifeOK, Lives!NoGen
<1>6. h \in Refs BY <1>1, <1>5
<1>7. h # 0 => h \in Gens /\ gen[h].id = old.id /\ gen[h].mach \in Alive BY <1>1, <1>5, <1>6 DEF Refs, TablesOK
<1>8. old.mach \in Alive => h = g BY <1>1 DEF TablesOK
<1>9. \A k \in Gens : gen[k].mach \in Alive /\ gen[k].id = old.id => k = h BY <1>1 DEF TablesOK
<1> HIDE DEF old, h
<1>10. (Orderly' => Orderly /\ (h # 0 => gen[h].mach # "linking")) /\ (Straight' => Straight /\ (h = 0 \/ h = g))
  BY <1>3 DEF Orderly, Straight
<1>11. Orderly' => Straight' /\ h = g /\ old.mach = "ready"
  <2>1. Orderly => old.mach = "ready" BY <1>1, <1>3 DEF OrderlyOK, old
  <2>2. Orderly => h = g BY <1>8, <2>1 DEF Alive
  <2> QED BY <1>1, <1>3, <1>10, <2>1, <2>2 DEF Straight, Orderly
<1>12. ASSUME NEW k \in Gens
       PROVE  /\ gen'[k].id = gen[k].id /\ gen'[k].build = gen[k].build /\ gen'[k].closing = gen[k].closing
              /\ gen'[k].created = gen[k].created /\ gen'[k].closes = gen[k].closes /\ Generation(gen'[k])
              /\ (k = g => gen[k].removal = "stop" /\ gen'[k].removal = "wait")
              /\ (k # g => gen'[k].removal = gen[k].removal)
              /\ (k # h => gen'[k].mach = gen[k].mach /\ gen'[k].scope = gen[k].scope)
              /\ (k = h => gen'[k].mach = m /\ gen'[k].scope = s /\ Stops(gen[k], m, s) /\ gen[k].mach \in Alive)
              /\ (k = h /\ gen[h].mach # "linking" => m \in Alive)
  <2>1. gen'[k] = [id |-> gen[k].id, build |-> gen[k].build,
                   mach |-> IF k = h THEN m ELSE gen[k].mach, scope |-> IF k = h THEN s ELSE gen[k].scope,
                   closing |-> gen[k].closing, removal |-> IF k = g THEN "wait" ELSE gen[k].removal,
                   created |-> gen[k].created, closes |-> gen[k].closes]
    BY <1>2
  <2>2. /\ gen'[k].id = gen[k].id /\ gen'[k].build = gen[k].build /\ gen'[k].closing = gen[k].closing
        /\ gen'[k].created = gen[k].created /\ gen'[k].closes = gen[k].closes /\ Generation(gen'[k])
    BY <2>1 DEF Generation
  <2>3. (k = g => gen[k].removal = "stop" /\ gen'[k].removal = "wait") /\ (k # g => gen'[k].removal = gen[k].removal)
    BY <1>3, <2>1 DEF old
  <2>4. (k # h => gen'[k].mach = gen[k].mach /\ gen'[k].scope = gen[k].scope) /\ (k = h => gen'[k].mach = m /\ gen'[k].scope = s)
    BY <2>1
  <2>5. k = h => Stops(gen[k], m, s) /\ gen[k].mach \in Alive BY <1>2, <1>4, <1>7
  <2>6. k = h /\ gen[h].mach # "linking" => m \in Alive BY <2>5 DEF Stops, Alive
  <2> QED BY <2>2, <2>3, <2>4, <2>5, <2>6
<1>13. ASSUME NEW k \in Gens PROVE LifeOK(gen'[k])
  <2>1. LifeOK(gen[k]) BY <1>1
  <2>2. CASE k = h /\ gen[k].mach = "linking" BY <1>12, <2>1, <2>2 DEF LifeOK, Stops, Alive
  <2>3. CASE k = h /\ gen[k].mach = "ready" BY <1>12, <2>1, <2>3 DEF LifeOK, Stops, Alive
  <2>4. CASE k = h /\ gen[k].mach = "closing" BY <1>12, <2>1, <2>4 DEF LifeOK, Stops, Alive
  <2>5. CASE k # h
    <3>1. k = g => gen[k].mach \notin Alive BY <1>8, <2>5 DEF old
    <3>2. CASE k # g
      <4>1. gen'[k] = gen[k] BY <1>1, <1>2, <2>5, <3>2 DEF Generation
      <4> QED BY <2>1, <4>1
    <3>3. CASE k = g
      <4>1. gen[k].mach # "none" BY <1>3, <2>1, <3>3 DEF LifeOK, Lives!NoGen, old
      <4> QED BY <1>12, <2>1, <2>5, <3>1, <3>3, <4>1 DEF LifeOK, Alive
    <3> QED BY <3>2, <3>3
  <2> QED BY <1>12, <2>2, <2>3, <2>4, <2>5 DEF Alive
<1>14. ASSUME Orderly', NEW k \in Gens PROVE OrderlyOK(gen'[k])
  <2>1. OrderlyOK(gen[k]) /\ h = g /\ old.mach = "ready" BY <1>1, <1>10, <1>11, <1>14
  <2>2. CASE k = g
    <3>1. gen'[k].mach = "closing" BY <1>12, <2>1, <2>2 DEF Stops, old
    <3> QED BY <1>12, <2>1, <2>2, <3>1 DEF OrderlyOK, Alive, Lives!Building, old
  <2>3. CASE k # g
    <3>1. gen'[k] = gen[k] BY <1>1, <1>2, <2>1, <2>3 DEF Generation
    <3> QED BY <2>1, <3>1
  <2> QED BY <2>2, <2>3
<1>15. ASSUME Straight', NEW k \in Gens PROVE StraightOK(gen'[k])
  <2>1. StraightOK(gen[k]) /\ (h = 0 \/ h = g) BY <1>1, <1>10, <1>15
  <2> QED BY <1>4, <1>12, <2>1 DEF StraightOK
<1>16. LivesOK'
  <2> HIDE DEF Gens
  <2> QED BY <1>4, <1>11, <1>13, <1>14, <1>15 DEF LivesOK, LifeOK, OrderlyOK, StraightOK
<1>17. /\ sess' \in [Ids -> Refs]
       /\ \A id \in Ids : sess'[id] = IF id = old.id /\ h # 0 /\ gen[h].mach = "linking" THEN 0 ELSE sess[id]
  <2>1. 0 \in Refs BY DEF Refs
  <2> HIDE DEF Refs
  <2> QED BY <1>1, <1>3, <1>5, <2>1
<1>18. TablesOK'
  <2>1. ASSUME NEW k \in Gens, gen'[k].mach \in Alive
        PROVE  sess'[gen'[k].id] = k /\ roster'[gen'[k].id] = IF gen'[k].build = "failing" THEN 0 ELSE k
    <3>1. gen[k].mach \in Alive /\ (k = h => gen[h].mach # "linking") BY <1>12, <2>1 DEF Stops, Alive
    <3>2. gen[k].id \in Ids /\ sess[gen[k].id] = k /\ roster[gen[k].id] = IF gen[k].build = "failing" THEN 0 ELSE k
      BY <1>1, <3>1 DEF LifeOK, Alive, TablesOK
    <3>3. gen[k].id = old.id => k = h BY <1>9, <3>1
    <3> QED BY <1>3, <1>12, <1>17, <3>1, <3>2, <3>3
  <2>2. ASSUME NEW id \in Ids, sess'[id] # 0 PROVE gen'[sess'[id]].id = id /\ gen'[sess'[id]].mach \in Alive
    <3>1. sess[id] \in Gens /\ sess'[id] = sess[id] BY <1>1, <1>17, <2>2 DEF Refs
    <3>2. gen[sess[id]].id = id /\ gen[sess[id]].mach \in Alive BY <1>1, <2>2, <3>1 DEF TablesOK
    <3>3. sess[id] = h => id = old.id /\ gen[h].mach # "linking" BY <1>4, <1>7, <1>17, <2>2, <3>1, <3>2
    <3> QED BY <1>12, <3>1, <3>2, <3>3
  <2>3. ASSUME NEW id \in Ids, roster'[id] # 0
        PROVE  /\ gen'[roster'[id]].id = id /\ gen'[roster'[id]].mach # "none"
               /\ gen'[roster'[id]].removal # "over" /\ gen'[roster'[id]].build \notin {"failing", "failed"}
    <3>1. roster[id] \in Gens /\ roster'[id] = roster[id] BY <1>1, <1>3, <2>3 DEF Refs
    <3>2. /\ gen[roster[id]].id = id /\ gen[roster[id]].mach # "none"
          /\ gen[roster[id]].removal # "over" /\ gen[roster[id]].build \notin {"failing", "failed"}
      BY <1>1, <2>3, <3>1 DEF TablesOK
    <3> QED BY <1>12, <3>1, <3>2 DEF Stops, Alive
  <2> HIDE DEF Gens
  <2> QED BY <1>4, <2>1, <2>2, <2>3 DEF TablesOK
<1>19. ShutOK'
  <2>1. ASSUME NEW id \in shut' PROVE \E k \in Gens : gen'[k].id = id /\ gen'[k].removal \in {"quiesce", "stop", "wait"}
    <3>1. PICK k \in Gens : gen[k].id = id /\ gen[k].removal \in {"quiesce", "stop", "wait"} BY <1>1, <1>3, <2>1 DEF ShutOK
    <3>2. gen'[k].id = id /\ gen'[k].removal \in {"quiesce", "stop", "wait"} BY <1>12, <3>1
    <3> QED BY <3>2
  <2> HIDE DEF Gens
  <2> QED BY <1>4, <2>1 DEF ShutOK
<1>20. AsksOK'
  <2>1. ASSUME Orderly', NEW k \in Gens PROVE ~(gen'[k].removal = "wait" /\ gen'[k].mach = "disposed")
    <3>1. h = g /\ old.mach = "ready" BY <1>11, <2>1
    <3> QED BY <1>12, <2>1, <3>1, SettledFirst DEF Stops, old
  <2>2. ASSUME Orderly', NEW k \in Gens, gen'[k].build = "boot" \/ gen'[k].mach = "ready" PROVE asks'[gen'[k].id] = k
    <3>1. h = g /\ old.mach = "ready" BY <1>11, <2>2
    <3>2. gen[k].build = "boot" \/ gen[k].mach = "ready" BY <1>12, <2>2, <3>1 DEF Stops, old
    <3> QED BY <1>1, <1>3, <1>10, <1>12, <2>2, <3>2 DEF AsksOK
  <2> HIDE DEF Gens
  <2> QED BY <1>4, <2>1, <2>2 DEF AsksOK
<1>21. LivesShapes'
  <2>1. gen' = [k \in Gens |-> gen'[k]] BY StopAgentEffect
  <2>2. \A k \in Gens : Generation(gen'[k]) BY <1>12
  <2>3. odd' \subseteq {"orphan", "stray", "flaky"} /\ asks' \in [Ids -> Refs] /\ shut' \subseteq Ids
    BY <1>3 DEF LivesInv, LivesShapes
  <2> HIDE DEF Gens, Refs
  <2> QED BY <1>1, <1>3, <1>4, <1>17, <2>1, <2>2, <2>3 DEF LivesShapes, Generation
<1> QED BY <1>16, <1>18, <1>19, <1>20, <1>21 DEF LivesInv

----------------------------------------------------------------------------
(* A new life: create and doCreate.                                        *)

LEMMA FreshIsFree ==
  ASSUME Lives!Fresh # {}
  PROVE  LET g == CHOOSE h \in Lives!Fresh : \A f \in Lives!Fresh : h <= f IN g \in Gens /\ gen[g].mach = "none"
<1>1. Lives!Fresh \in SUBSET Nat /\ Lives!Fresh \subseteq Gens /\ \A f \in Lives!Fresh : gen[f].mach = "none"
  BY NumbersOfGens DEF Lives!Fresh, Gens
<1> DEFINE S == Lives!Fresh
<1> HIDE DEF S
<1>2. \E x \in S : \A y \in S : ~ (<<y, x>> \in OpToRel(<, Nat))
  BY <1>1, NatLessThanWellFounded, WFMin DEF S
<1>3. PICK x \in S : \A y \in S : ~ (<<y, x>> \in OpToRel(<, Nat)) BY <1>2
<1>4. \A y \in S : ~(y < x) BY <1>1, <1>3, Zenon DEF OpToRel, S
<1>5. \A y \in S : x <= y BY <1>1, <1>4 DEF S
<1>6. (CHOOSE h \in S : \A f \in S : h <= f) \in S BY <1>5
<1> QED BY <1>1, <1>6 DEF S

\* What doCreate makes of the generations and the tables.
Born(g, id) ==
  /\ g \in Gens /\ gen[g].mach = "none"
  /\ gen' = [gen EXCEPT ![g] = [id |-> id, build |-> "seal", mach |-> "linking", scope |-> "up", closing |-> FALSE,
                                removal |-> "none", created |-> FALSE, closes |-> 0]]
  /\ sess' = [sess EXCEPT ![id] = g] /\ roster' = [roster EXCEPT ![id] = g]

LEMMA CreatedIsBorn ==
  ASSUME NEW o, NEW id, Lives!doCreate(o, id)
  PROVE  \E g : /\ Born(g, id) /\ creating' = [creating EXCEPT ![id] = o]
                /\ ops' = [ops EXCEPT ![o].pc = "link", ![o].g = g]
<1> DEFINE g == CHOOSE h \in Lives!Fresh : \A f \in Lives!Fresh : h <= f
<1>1. g \in Gens /\ gen[g].mach = "none" BY FreshIsFree DEF Lives!doCreate
<1>2. PICK r : r = [Lives!NoGen EXCEPT !.id = id, !.build = "seal", !.mach = "linking", !.scope = "up"] OBVIOUS
<1>3. /\ gen' = [gen EXCEPT ![g] = r] /\ sess' = [sess EXCEPT ![id] = g] /\ roster' = [roster EXCEPT ![id] = g]
      /\ creating' = [creating EXCEPT ![id] = o] /\ ops' = [ops EXCEPT ![o].pc = "link", ![o].g = g]
  BY <1>2 DEF Lives!doCreate
<1>4. r = [id |-> id, build |-> "seal", mach |-> "linking", scope |-> "up", closing |-> FALSE,
           removal |-> "none", created |-> FALSE, closes |-> 0]
  BY <1>2 DEF Lives!NoGen
<1> HIDE DEF g
<1> QED BY <1>1, <1>3, <1>4 DEF Born

\* A life that begins while the id is not in the session's table keeps the
\* invariant: no machine of the id lives.
LEMMA BornKeeps ==
  ASSUME LivesInv, NEW g, NEW id \in Ids, Born(g, id), sess[id] = 0, asks' = asks, shut' = shut, odd' = odd
  PROVE  LivesInv'
<1>1. /\ g \in Gens /\ gen[g].mach = "none"
      /\ LifeOK(gen[g]) /\ roster \in [Ids -> Refs] /\ sess \in [Ids -> Refs] /\ TablesOK /\ AsksOK /\ ShutOK
  BY DEF Born, LivesInv, LivesShapes, LivesOK
<1>2. PICK r : r = [id |-> id, build |-> "seal", mach |-> "linking", scope |-> "up", closing |-> FALSE,
                    removal |-> "none", created |-> FALSE, closes |-> 0]
  OBVIOUS
<1>3. /\ gen' = [gen EXCEPT ![g] = r] /\ sess' = [sess EXCEPT ![id] = g] /\ roster' = [roster EXCEPT ![id] = g]
  BY <1>2 DEF Born
<1>4. gen[g] = Lives!NoGen BY <1>1 DEF LifeOK
<1>5. Generation(r) /\ LifeOK(r) /\ OrderlyOK(r) /\ StraightOK(r)
  <2>1. /\ r.id = id /\ r.build = "seal" /\ r.mach = "linking" /\ r.scope = "up" /\ r.closing = FALSE
        /\ r.removal = "none" /\ r.created = FALSE /\ r.closes = 0 /\ Generation(r)
    BY <1>2 DEF Generation
  <2>2. r.closing = (r.removal # "none" \/ r.build \in {"failing", "failed"}) BY <2>1
  <2>3. r.closes = (IF r.removal = "over" THEN 1 ELSE 0) + (IF r.build = "failed" /\ r.created THEN 1 ELSE 0) BY <2>1
  <2>4. LifeOK(r) BY <2>1, <2>2, <2>3 DEF LifeOK, Alive, Lives!Building
  <2> QED BY <2>1, <2>4 DEF OrderlyOK, StraightOK, Alive, Lives!Building
<1>6. Becomes(g, r) BY <1>1, <1>3, <1>5, BecomesIs
<1>7. LivesOK' BY <1>1, <1>6, LivesKept
<1>8. gen'[g] = r /\ (\A h \in Gens : h # g => gen'[h] = gen[h]) /\ (Orderly' => Orderly) BY <1>6 DEF Becomes
<1>9. Gens' = Gens /\ Refs' = Refs /\ 0 \notin Gens /\ g \in Refs BY <1>1, NumbersOfGens DEF Gens, Lives!Gens, Refs
<1>10. /\ roster' \in [Ids -> Refs] /\ sess' \in [Ids -> Refs]
       /\ \A i \in Ids : roster'[i] = IF i = id THEN g ELSE roster[i]
       /\ \A i \in Ids : sess'[i] = IF i = id THEN g ELSE sess[i]
  <2> HIDE DEF Refs, Gens
  <2> QED BY <1>1, <1>3, <1>9
<1>11. \A h \in Gens : h # g /\ gen[h].mach \in Alive => gen[h].id # id /\ gen[h].id \in Ids
  <2>1. ASSUME NEW h \in Gens, gen[h].mach \in Alive PROVE gen[h].id # id /\ gen[h].id \in Ids
    <3>1. LifeOK(gen[h]) BY LifeFacts
    <3> QED BY <1>1, <1>9, <2>1, <3>1 DEF TablesOK, LifeOK, Alive
  <2> QED BY <2>1
<1>12. TablesOK'
  <2>1. ASSUME NEW h \in Gens, gen'[h].mach \in Alive
        PROVE  sess'[gen'[h].id] = h /\ roster'[gen'[h].id] = IF gen'[h].build = "failing" THEN 0 ELSE h
    <3>1. CASE h = g BY <1>2, <1>8, <1>10, <3>1
    <3>2. CASE h # g
      <4>1. gen'[h] = gen[h] /\ gen[h].id # id /\ gen[h].id \in Ids BY <1>8, <1>11, <2>1, <3>2
      <4> QED BY <1>1, <1>10, <2>1, <4>1 DEF TablesOK
    <3> QED BY <3>1, <3>2
  <2>2. ASSUME NEW i \in Ids, sess'[i] # 0 PROVE gen'[sess'[i]].id = i /\ gen'[sess'[i]].mach \in Alive
    <3>1. CASE i = id BY <1>2, <1>8, <1>10, <3>1 DEF Alive
    <3>2. CASE i # id
      <4>1. sess'[i] = sess[i] /\ sess[i] \in Gens BY <1>1, <1>10, <2>2, <3>2 DEF Refs
      <4>2. gen[sess[i]].id = i /\ gen[sess[i]].mach \in Alive BY <1>1, <2>2, <4>1 DEF TablesOK
      <4>3. sess[i] # g BY <1>1, <4>2 DEF Alive
      <4> QED BY <1>8, <4>1, <4>2, <4>3
    <3> QED BY <3>1, <3>2
  <2>3. ASSUME NEW i \in Ids, roster'[i] # 0
        PROVE  /\ gen'[roster'[i]].id = i /\ gen'[roster'[i]].mach # "none"
               /\ gen'[roster'[i]].removal # "over" /\ gen'[roster'[i]].build \notin {"failing", "failed"}
    <3>1. CASE i = id BY <1>2, <1>8, <1>10, <3>1
    <3>2. CASE i # id
      <4>1. roster'[i] = roster[i] /\ roster[i] \in Gens BY <1>1, <1>10, <2>3, <3>2 DEF Refs
      <4>2. /\ gen[roster[i]].id = i /\ gen[roster[i]].mach # "none"
            /\ gen[roster[i]].removal # "over" /\ gen[roster[i]].build \notin {"failing", "failed"}
        BY <1>1, <2>3, <4>1 DEF TablesOK
      <4>3. roster[i] # g BY <1>1, <4>2
      <4> QED BY <1>8, <4>1, <4>2, <4>3
    <3> QED BY <3>1, <3>2
  <2> HIDE DEF Gens
  <2> QED BY <1>9, <2>1, <2>2, <2>3 DEF TablesOK
<1>13. ShutOK'
  <2>1. ASSUME NEW i \in shut' PROVE \E h \in Gens : gen'[h].id = i /\ gen'[h].removal \in {"quiesce", "stop", "wait"}
    <3>1. PICK h \in Gens : gen[h].id = i /\ gen[h].removal \in {"quiesce", "stop", "wait"} BY <1>1, <2>1 DEF ShutOK
    <3>2. h # g BY <1>4, <3>1 DEF Lives!NoGen
    <3> QED BY <1>8, <3>1, <3>2
  <2> HIDE DEF Gens
  <2> QED BY <1>9, <2>1 DEF ShutOK
<1>14. AsksOK'
  <2>1. ASSUME Orderly', NEW h \in Gens, gen'[h].build = "boot" \/ gen'[h].mach = "ready" PROVE asks'[gen'[h].id] = h
    <3>1. h # g BY <1>2, <1>8, <2>1
    <3> QED BY <1>1, <1>8, <2>1, <3>1 DEF AsksOK
  <2>2. ASSUME Orderly', NEW k \in Gens, NEW h \in Gens, gen'[k].removal = "wait", gen'[k].mach = "disposed",
               gen'[h].id = gen'[k].id, gen'[h].mach \in Alive
        PROVE  gen'[h].build = "seal"
    <3>1. CASE h = g BY <1>2, <1>8, <3>1
    <3>2. CASE h # g
      <4>1. k # g BY <1>2, <1>8, <2>2
      <4> QED BY <1>1, <1>8, <2>2, <3>2, <4>1 DEF AsksOK
    <3> QED BY <3>1, <3>2
  <2> HIDE DEF Gens
  <2> QED BY <1>9, <2>1, <2>2 DEF AsksOK
<1>15. LivesShapes'
  <2>1. LivesShapes BY DEF LivesInv
  <2> HIDE DEF Gens, Refs
  <2> QED BY <1>6, <1>9, <1>10, <2>1 DEF LivesShapes, Becomes, Generation
<1> QED BY <1>7, <1>12, <1>13, <1>14, <1>15 DEF LivesInv

----------------------------------------------------------------------------
(* What the steps of a generation leave to the calls and to the cache: a   *)
(* generation only grows older, and a handle only goes.                    *)

Older(r, s) ==
  /\ s.id = r.id /\ s.mach # "none" /\ (r.build = "ok" => s.build = "ok") /\ (r.closing => s.closing)
  /\ s.mach = "linking" => r.mach = "linking"

Ages ==
  /\ \A k \in Gens : gen'[k] = gen[k] \/ Older(gen[k], gen'[k])
  /\ \A id \in Ids : roster'[id] \in {roster[id], 0}

LEMMA HandleIs ==
  ASSUME LivesInv, NEW id \in Ids, Lives!handleOf(id) # 0
  PROVE  /\ Lives!handleOf(id) = roster[id] /\ roster[id] \in Gens /\ gen[roster[id]].id = id /\ ~gen[roster[id]].closing
         /\ gen[roster[id]].mach # "none" /\ gen[roster[id]].removal = "none"
         /\ gen[roster[id]].build \notin {"none", "failing", "failed"}
<1>1. Lives!handleOf(id) = roster[id] /\ roster[id] # 0 /\ ~gen[roster[id]].closing BY DEF Lives!handleOf
<1>2. roster[id] \in Gens BY <1>1 DEF LivesInv, LivesShapes, Refs
<1>3. gen[roster[id]].id = id /\ gen[roster[id]].mach # "none" /\ gen[roster[id]].build \notin {"failing", "failed"}
  BY <1>1, <1>2 DEF LivesInv, TablesOK
<1>4. LifeOK(gen[roster[id]]) BY <1>2, LifeFacts
<1> QED BY <1>1, <1>2, <1>3, <1>4 DEF LifeOK

LEMMA HandlesGo ==
  ASSUME LivesInv, Ages, NEW id \in Ids PROVE Lives!handleOf(id)' \in {Lives!handleOf(id), 0}
<1> SUFFICES ASSUME Lives!handleOf(id)' # 0 PROVE Lives!handleOf(id)' = Lives!handleOf(id) OBVIOUS
<1>1. Lives!handleOf(id)' = roster'[id] /\ roster'[id] # 0 /\ ~gen'[roster'[id]].closing BY DEF Lives!handleOf
<1>2. roster'[id] = roster[id] BY <1>1 DEF Ages
<1>3. roster[id] \in Gens BY <1>1, <1>2 DEF LivesInv, LivesShapes, Refs
<1>4. ~gen[roster[id]].closing BY <1>1, <1>2, <1>3 DEF Ages, Older
<1> QED BY <1>1, <1>2, <1>4 DEF Lives!handleOf

LEMMA OneAges ==
  ASSUME LivesInv, NEW g \in Gens, NEW r, gen' = [gen EXCEPT ![g] = r], Older(gen[g], r),
         roster' = roster \/ (roster' = IF roster[r.id] = g THEN [roster EXCEPT ![r.id] = 0] ELSE roster)
  PROVE  Ages
<1>1. \A k \in Gens : gen'[k] = gen[k] \/ Older(gen[k], gen'[k])
  BY DEF LivesInv, LivesShapes
<1>2. \A id \in Ids : roster'[id] \in {roster[id], 0}
  <2>1. roster \in [Ids -> Refs] BY DEF LivesInv, LivesShapes
  <2> HIDE DEF Refs
  <2> QED BY <2>1
<1> QED BY <1>1, <1>2 DEF Ages

LEMMA GenStepAges ==
  ASSUME LivesInv, NEW g \in Gens, Lives!GenStep(g) \/ Lives!BuildFails(g) \/ Lives!RemovalOver(g)
  PROVE  Ages
<1> DEFINE old == gen[g]
<1>1. Generation(old) /\ LifeOK(old) BY LifeFacts
<1>2. CASE Lives!Sealed(g)
  <2>1. PICK r : r = [old EXCEPT !.build = "register"] OBVIOUS
  <2>2. gen' = [gen EXCEPT ![g] = r] /\ roster' = roster /\ old.build = "seal"
    BY <1>2, <2>1 DEF Lives!Sealed, Lives!Set, Lives!lvars
  <2> HIDE DEF old
  <2>3. Older(old, r) BY <1>1, <2>1, <2>2 DEF Older, Generation, LifeOK, Lives!NoGen
  <2> QED BY <2>2, <2>3, OneAges DEF old
<1>3. CASE Lives!Registered(g)
  <2>1. PICK r : r = [old EXCEPT !.build = "restore", !.created = TRUE] OBVIOUS
  <2>2. gen' = [gen EXCEPT ![g] = r] /\ roster' = roster /\ old.build = "register"
    BY <1>3, <2>1 DEF Lives!Registered, Lives!Set
  <2> HIDE DEF old
  <2>3. Older(old, r) BY <1>1, <2>1, <2>2 DEF Older, Generation, LifeOK, Lives!NoGen
  <2> QED BY <2>2, <2>3, OneAges DEF old
<1>4. CASE Lives!Restored(g)
  <2>1. PICK r : r = [old EXCEPT !.build = "boot"] OBVIOUS
  <2>2. gen' = [gen EXCEPT ![g] = r] /\ roster' = roster /\ old.build = "restore"
    BY <1>4, <2>1 DEF Lives!Restored, Lives!Set
  <2> HIDE DEF old
  <2>3. Older(old, r) BY <1>1, <2>1, <2>2 DEF Older, Generation, LifeOK, Lives!NoGen
  <2> QED BY <2>2, <2>3, OneAges DEF old
<1>5. CASE Lives!Built(g)
  <2>1. PICK r : r = [old EXCEPT !.build = "ok", !.mach = "ready"] OBVIOUS
  <2>2. gen' = [gen EXCEPT ![g] = r] /\ roster' = roster
    BY <1>5, <2>1 DEF Lives!Built, Lives!Set, Lives!lvars
  <2> HIDE DEF old
  <2>3. Older(old, r) BY <1>1, <2>1, <2>2 DEF Older, Generation
  <2> QED BY <2>2, <2>3, OneAges DEF old
<1>6. CASE Lives!BuildFailed(g)
  <2>1. PICK n : n = IF old.created THEN old.closes + 1 ELSE old.closes OBVIOUS
  <2>2. PICK r : r = [old EXCEPT !.build = "failed", !.mach = "disposed", !.closes = n] OBVIOUS
  <2>3. gen' = [gen EXCEPT ![g] = r] /\ roster' = roster /\ old.build = "failing"
    BY <1>6, <2>1, <2>2 DEF Lives!BuildFailed, Lives!Set
  <2> HIDE DEF old
  <2>4. Older(old, r) BY <1>1, <2>2, <2>3 DEF Older, Generation
  <2> QED BY <2>3, <2>4, OneAges DEF old
<1>7. CASE Lives!ScopeDisposed(g)
  <2>1. PICK m : m = IF old.mach = "closing" THEN "disposed" ELSE old.mach OBVIOUS
  <2>2. PICK r : r = [old EXCEPT !.scope = "gone", !.mach = m] OBVIOUS
  <2>3. gen' = [gen EXCEPT ![g] = r] /\ roster' = roster /\ old.scope = "going"
    BY <1>7, <2>1, <2>2 DEF Lives!ScopeDisposed, Lives!Set
  <2> HIDE DEF old
  <2>4. old.mach # "none" BY <1>1, <2>3 DEF LifeOK, Lives!NoGen
  <2>5. Older(old, r) BY <1>1, <2>1, <2>2, <2>4 DEF Older, Generation
  <2> QED BY <2>3, <2>5, OneAges DEF old
<1>8. CASE Lives!Quiesced(g)
  <2>1. PICK r : r = [old EXCEPT !.removal = "stop"] OBVIOUS
  <2>2. gen' = [gen EXCEPT ![g] = r] /\ roster' = roster /\ old.removal = "quiesce"
    BY <1>8, <2>1 DEF Lives!Quiesced, Lives!Set, Lives!lvars
  <2> HIDE DEF old
  <2>3. Older(old, r) BY <1>1, <2>1, <2>2 DEF Older, Generation, LifeOK, Lives!NoGen
  <2> QED BY <2>2, <2>3, OneAges DEF old
<1>9. CASE Lives!StopAgent(g)
  <2>1. PICK m, s : /\ Stops(gen[sess[gen[g].id]], m, s)
                    /\ \A k \in Gens :
                         gen'[k] = [id |-> gen[k].id, build |-> gen[k].build,
                                    mach |-> IF k = sess[gen[g].id] THEN m ELSE gen[k].mach,
                                    scope |-> IF k = sess[gen[g].id] THEN s ELSE gen[k].scope,
                                    closing |-> gen[k].closing,
                                    removal |-> IF k = g THEN "wait" ELSE gen[k].removal,
                                    created |-> gen[k].created, closes |-> gen[k].closes]
    BY <1>9, StopAgentEffect
  <2>2. old.removal = "stop" /\ roster' = roster BY <1>9 DEF Lives!StopAgent
  <2>3. ASSUME NEW k \in Gens PROVE gen'[k] = gen[k] \/ Older(gen[k], gen'[k])
    <3>0. Generation(gen[k]) /\ LifeOK(gen[k]) BY LifeFacts
    <3>1. CASE k # g /\ k # sess[gen[g].id] BY <2>1, <3>0, <3>1 DEF Generation
    <3>2. CASE k = g \/ k = sess[gen[g].id]
      <4>1. gen[k].mach # "none"
        <5>1. old.mach # "none" /\ old.id \in Ids BY <1>1, <2>2 DEF LifeOK, Lives!NoGen
        <5>2. k = sess[old.id] => gen[k].mach # "none"
          <6>1. 0 \notin Gens BY NumbersOfGens
          <6> QED BY <5>1, <6>1 DEF LivesInv, TablesOK, Alive
        <5> QED BY <3>2, <5>1, <5>2
      <4>2. k = sess[gen[g].id] => Stops(gen[k], m, s) BY <2>1
      <4>3. k = sess[gen[g].id] => m # "none" /\ m # "linking" BY <4>1, <4>2 DEF Stops
      <4>4. /\ gen'[k].id = gen[k].id /\ gen'[k].build = gen[k].build /\ gen'[k].closing = gen[k].closing
            /\ gen'[k].mach = IF k = sess[gen[g].id] THEN m ELSE gen[k].mach
        <5>1. gen'[k] = [id |-> gen[k].id, build |-> gen[k].build,
                         mach |-> IF k = sess[gen[g].id] THEN m ELSE gen[k].mach,
                         scope |-> IF k = sess[gen[g].id] THEN s ELSE gen[k].scope,
                         closing |-> gen[k].closing,
                         removal |-> IF k = g THEN "wait" ELSE gen[k].removal,
                         created |-> gen[k].created, closes |-> gen[k].closes]
          BY <2>1
        <5> QED BY <5>1
      <4> QED BY <4>1, <4>3, <4>4 DEF Older
    <3> QED BY <3>1, <3>2
  <2> QED BY <2>2, <2>3 DEF Ages
<1>10. CASE Lives!BuildFails(g)
  <2>1. PICK s : s = IF old.scope = "gone" THEN old.scope ELSE "going" OBVIOUS
  <2>2. PICK r : r = [old EXCEPT !.build = "failing", !.closing = TRUE, !.scope = s] OBVIOUS
  <2>3. /\ gen' = [gen EXCEPT ![g] = r] /\ old.build \in Lives!Building
        /\ roster' = IF roster[old.id] = g THEN [roster EXCEPT ![old.id] = 0] ELSE roster
    BY <1>10, <2>1, <2>2 DEF Lives!BuildFails, Lives!Set
  <2> HIDE DEF old
  <2>4. Older(old, r) /\ r.id = old.id BY <1>1, <2>2, <2>3 DEF Older, Generation, LifeOK, Lives!NoGen, Lives!Building
  <2> QED BY <2>3, <2>4, OneAges DEF old
<1>11. CASE Lives!RemovalOver(g)
  <2>1. PICK n : n = old.closes + 1 OBVIOUS
  <2>2. PICK r : r = [old EXCEPT !.removal = "over", !.closes = n] OBVIOUS
  <2>3. /\ gen' = [gen EXCEPT ![g] = r] /\ old.mach = "disposed"
        /\ roster' = IF roster[old.id] = g THEN [roster EXCEPT ![old.id] = 0] ELSE roster
    BY <1>11, <2>1, <2>2 DEF Lives!RemovalOver, Lives!Set
  <2> HIDE DEF old
  <2>4. Older(old, r) /\ r.id = old.id BY <1>1, <2>2, <2>3 DEF Older, Generation
  <2> QED BY <2>3, <2>4, OneAges DEF old
<1> QED BY <1>2, <1>3, <1>4, <1>5, <1>6, <1>7, <1>8, <1>9, <1>10, <1>11 DEF Lives!GenStep

LEMMA RemoveAges ==
  ASSUME LivesInv, NEW g \in Gens, gen[g].mach # "none", Lives!remove(g), roster' = roster
  PROVE  Ages /\ gen'[g].closing
<1> DEFINE old == gen[g]
<1>1. Generation(old) BY LifeFacts
<1>2. PICK r : r = [old EXCEPT !.closing = TRUE, !.removal = "quiesce"] OBVIOUS
<1>3. gen' = [gen EXCEPT ![g] = r] BY <1>2 DEF Lives!remove, Lives!Set
<1> HIDE DEF old
<1>4. Older(old, r) /\ r.closing BY <1>1, <1>2 DEF Older, Generation, old
<1>5. gen'[g] = r BY <1>3 DEF LivesInv, LivesShapes
<1> QED BY <1>3, <1>4, <1>5, OneAges DEF old

----------------------------------------------------------------------------
(* The calls of the Agent tool.                                            *)

Bound == {"link", "launch", "run", "ended", "done"}
Ran == {"run", "ended", "done"}

\* A call that has an agent has one of its own id; one that ran, a linked one.
CallOK(c) ==
  /\ c.pc # "idle" => c.id \in Ids
  /\ c.pc \in Bound => c.g \in Gens /\ gen[c.g].id = c.id /\ gen[c.g].mach # "none"
  /\ c.pc \in Ran => gen[c.g].build = "ok"

\* The creation that others join is a call that waits for its link, and every
\* machine that links has one.
JoinsOK ==
  /\ \A id \in Ids : creating[id] # 0 => ops[creating[id]].id = id /\ ops[creating[id]].pc = "link"
  /\ \A g \in Gens : gen[g].mach = "linking" => creating[gen[g].id] # 0 /\ ops[creating[gen[g].id]].g = g

CallsInv == CallShapes /\ (\A o \in Ops : CallOK(ops[o])) /\ JoinsOK

LEMMA CallsAge ==
  ASSUME LivesInv, CallsInv, Ages, ops' = ops, creating' = creating PROVE CallsInv'
<1>1. Gens' = Gens /\ Ops' = Ops BY DEF Gens, Lives!Gens, Ops, Lives!Ops
<1>2. \A k \in Gens : gen'[k] = gen[k] \/ Older(gen[k], gen'[k]) BY DEF Ages
<1>3. CallShapes /\ (\A o \in Ops : CallOK(ops[o])) /\ JoinsOK BY DEF CallsInv
<1> HIDE DEF Gens, Ops
<1>4. CallShapes' BY <1>1, <1>3 DEF CallShapes, Call
<1>5. \A o \in Ops : CallOK(ops[o])'
  <2>1. ASSUME NEW o \in Ops PROVE CallOK(ops[o])'
    <3>1. CallOK(ops[o]) BY <1>3
    <3> QED BY <1>1, <1>2, <3>1 DEF CallOK, Older, Bound, Ran
  <2> QED BY <2>1
<1>6. JoinsOK' BY <1>1, <1>2, <1>3 DEF JoinsOK, Older
<1> QED BY <1>1, <1>4, <1>5, <1>6 DEF CallsInv

\* One call becomes c.
LEMMA OneCall ==
  ASSUME CallShapes, NEW o \in Ops, NEW c, ops' = [ops EXCEPT ![o] = c], Call(c)
  PROVE  /\ ops' = [p \in Ops |-> ops'[p]] /\ ops'[o] = c /\ \A p \in Ops : p # o => ops'[p] = ops[p]
         /\ \A p \in Ops : Call(ops'[p])
<1>1. ops = [p \in Ops |-> ops[p]] /\ \A p \in Ops : Call(ops[p]) BY DEF CallShapes
<1>2. ops' = [p \in Ops |-> IF p = o THEN c ELSE ops[p]] BY <1>1
<1>3. ops' = [p \in Ops |-> ops'[p]] BY <1>2
<1>4. ops'[o] = c /\ \A p \in Ops : p # o => ops'[p] = ops[p] BY <1>2
<1>5. \A p \in Ops : Call(ops'[p]) BY <1>1, <1>4
<1> QED BY <1>3, <1>4, <1>5

LEMMA CallMoves ==
  ASSUME LivesInv, CallsInv, gen' = gen, creating' = creating, NEW o \in Ops, ops[o].pc # "link",
         NEW c, ops' = [ops EXCEPT ![o] = c], Call(c), CallOK(c)
  PROVE  CallsInv'
<1>1. Gens' = Gens /\ Ops' = Ops /\ 0 \notin Ops BY NumbersOfGens DEF Gens, Lives!Gens, Ops, Lives!Ops
<1>2. CallShapes /\ (\A p \in Ops : CallOK(ops[p])) /\ JoinsOK BY DEF CallsInv
<1>3. /\ ops' = [p \in Ops |-> ops'[p]] /\ ops'[o] = c /\ \A p \in Ops : p # o => ops'[p] = ops[p]
      /\ \A p \in Ops : Call(ops'[p])
  BY <1>2, OneCall
<1>4. \A id \in Ids : creating[id] # 0 => creating[id] \in Ops /\ creating[id] # o BY <1>2 DEF CallShapes, JoinsOK
<1> HIDE DEF Gens, Ops
<1>5. CallShapes' BY <1>1, <1>2, <1>3 DEF CallShapes, Call
<1>6. \A p \in Ops : CallOK(ops[p])'
  <2>1. ASSUME NEW p \in Ops PROVE CallOK(ops[p])'
    <3>1. CallOK(ops'[p]) BY <1>2, <1>3
    <3> QED BY <1>1, <3>1 DEF CallOK
  <2> QED BY <2>1
<1>7. JoinsOK'
  <2>1. \A id \in Ids : creating'[id] # 0 => ops'[creating'[id]].id = id /\ ops'[creating'[id]].pc = "link"
    BY <1>2, <1>3, <1>4 DEF JoinsOK
  <2>2. ASSUME NEW g \in Gens, gen[g].mach = "linking"
        PROVE  creating'[gen[g].id] # 0 /\ ops'[creating'[gen[g].id]].g = g
    <3>1. creating[gen[g].id] # 0 /\ ops[creating[gen[g].id]].g = g BY <1>2, <2>2 DEF JoinsOK
    <3>2. gen[g].id \in Ids BY <2>2, LifeFacts DEF LifeOK
    <3> QED BY <1>3, <1>4, <3>1, <3>2
  <2> QED BY <1>1, <2>1, <2>2 DEF JoinsOK
<1> QED BY <1>1, <1>5, <1>6, <1>7 DEF CallsInv

\* Where a call o goes, c being what becomes of it, and what moves with it.
Still(o) == creating' = creating /\ UNCHANGED <<retired, passes>>

Move(o, c) ==
  LET id == ops[o].id  g == ops[o].g IN
  \/ /\ ops[o].pc \in {"poll", "meta"} /\ c.pc \in {"create", "target", "failed"} /\ c.g = g /\ Still(o)
  \/ /\ ops[o].pc = "link" /\ gen[g].mach # "linking" /\ c.g = g
     /\ c.pc = "handle" \/ (c.pc = "failed" /\ Lives!handleOf(id) # g)
     /\ creating' = IF creating[id] = o THEN [creating EXCEPT ![id] = 0] ELSE creating
     /\ UNCHANGED <<retired, passes>>
  \/ /\ ops[o].pc = "handle" /\ c.g = g /\ Still(o)
     /\ c.pc = "target" \/ (c.pc = "failed" /\ (Lives!handleOf(id) = 0 \/ Lives!Running(Lives!handleOf(id))))
  \/ /\ ops[o].pc = "target" /\ c.g = Lives!handleOf(id) /\ Still(o)
     /\ c.pc = IF c.g = 0 THEN "failed" ELSE "launch"
  \/ /\ ops[o].pc = "launch" /\ c.pc = "run" /\ c.g = g /\ gen[g].mach = "ready"
     /\ creating' = creating /\ retired' = Lives!Without(id) /\ passes' = passes
  \/ /\ ops[o].pc = "launch" /\ c.pc = "failed" /\ c.g = g /\ (gen[g].closing \/ gen[g].mach # "ready") /\ Still(o)
  \/ /\ ops[o].pc = "run" /\ c.pc = "ended" /\ c.g = g /\ Still(o)
  \/ /\ ops[o].pc = "ended" /\ c.pc = "done" /\ c.g = g /\ creating' = creating
     /\ retired' = Append(Lives!Without(id), [id |-> id, tries |-> 0]) /\ passes' = passes + 1

\* Nothing but the calls and the cache moves.
LivesStill == UNCHANGED <<gen, roster, sess, meta, asks, shut, ev, drains, odd>>

LEMMA OpStepMoves ==
  ASSUME LivesInv, CallsInv, NEW o \in Ops, Lives!OpStep(o)
  PROVE  /\ LivesStill
         /\ \E c : ops' = [ops EXCEPT ![o] = c] /\ Call(c) /\ c.id = ops[o].id /\ Move(o, c)
<1> DEFINE id == ops[o].id
           To(pc) == [ops[o] EXCEPT !.pc = pc]
<1>1. Call(ops[o]) /\ CallOK(ops[o]) BY DEF CallsInv, CallShapes
<1>2. ASSUME NEW pc, Lives!Goto(o, pc)
      PROVE  /\ ops' = [ops EXCEPT ![o] = To(pc)] /\ Call(To(pc)) /\ To(pc).id = ops[o].id
             /\ To(pc).pc = pc /\ To(pc).g = ops[o].g
  <2>1. ops' = [ops EXCEPT ![o] = To(pc)] BY <1>2 DEF Lives!Goto
  <2>2. Call(To(pc)) /\ To(pc).id = ops[o].id /\ To(pc).pc = pc /\ To(pc).g = ops[o].g
    <3>1. PICK c : c = To(pc) OBVIOUS
    <3>2. Call(c) /\ c.id = ops[o].id /\ c.pc = pc /\ c.g = ops[o].g BY <1>1, <3>1 DEF Call
    <3> QED BY <3>1, <3>2
  <2> QED BY <2>1, <2>2
<1> HIDE DEF To
<1> DEFINE Goal == \E c : ops' = [ops EXCEPT ![o] = c] /\ Call(c) /\ c.id = ops[o].id /\ Move(o, c)
<1>3. CASE Lives!Poll(o)
  <2>1. PICK pc \in {"create", "failed"} : Lives!Goto(o, pc) BY <1>3 DEF Lives!Poll
  <2>2. ops[o].pc = "poll" /\ Still(o) /\ LivesStill
    BY <1>3 DEF Lives!Poll, Lives!lvars, Lives!cvars, Still, LivesStill
  <2>3. Move(o, To(pc)) BY <1>2, <2>1, <2>2 DEF Move
  <2> QED BY <1>2, <2>1, <2>2, <2>3
<1>4. CASE Lives!awaitLinked(o)
  <2>1. PICK pc : pc = IF gen[ops[o].g].build \in {"failing", "failed"} \/ roster[id] = 0 THEN "failed" ELSE "handle"
    OBVIOUS
  <2>2. /\ ops[o].pc = "link" /\ gen[ops[o].g].mach # "linking" /\ Lives!Goto(o, pc)
        /\ creating' = (IF creating[id] = o THEN [creating EXCEPT ![id] = 0] ELSE creating)
        /\ UNCHANGED <<retired, passes>> /\ LivesStill
    BY <1>4, <2>1 DEF Lives!awaitLinked, Lives!cvars, LivesStill
  <2>3. pc = "failed" => Lives!handleOf(id) # ops[o].g
    <3>1. ops[o].g \in Gens /\ id \in Ids BY <1>1, <2>2 DEF CallOK, Bound
    <3>2. ops[o].g # 0 BY <3>1, NumbersOfGens
    <3>3. roster[id] = 0 => Lives!handleOf(id) = 0 BY DEF Lives!handleOf
    <3>4. Lives!handleOf(id) = ops[o].g => gen[ops[o].g].build \notin {"failing", "failed"}
      BY <3>1, <3>2, HandleIs
    <3> QED BY <2>1, <3>2, <3>3, <3>4
  <2>4. pc \in {"failed", "handle"} BY <2>1
  <2>5. Move(o, To(pc)) BY <1>2, <2>2, <2>3, <2>4 DEF Move
  <2> QED BY <1>2, <2>2, <2>5
<1>5. CASE Lives!resolveResumeTarget(o)
  <2>1. PICK pc : pc = IF ops[o].id \notin meta THEN "failed"
                       ELSE IF Lives!handleOf(ops[o].id) # 0 THEN Lives!Target(o) ELSE "create"
    OBVIOUS
  <2>2. ops[o].pc = "meta" /\ Lives!Goto(o, pc) /\ Still(o) /\ LivesStill
    BY <1>5, <2>1 DEF Lives!resolveResumeTarget, Lives!lvars, Lives!cvars, Still, LivesStill
  <2>3. pc \in {"create", "target", "failed"} BY <2>1 DEF Lives!Target
  <2>4. Move(o, To(pc)) BY <1>2, <2>2, <2>3 DEF Move
  <2> QED BY <1>2, <2>2, <2>4
<1>6. CASE Lives!Rebuilt(o)
  <2>1. ops[o].pc = "handle" /\ Lives!Goto(o, Lives!Target(o)) /\ Still(o) /\ LivesStill
    BY <1>6 DEF Lives!Rebuilt, Lives!lvars, Lives!cvars, Still, LivesStill
  <2>2. \/ Lives!Target(o) = "target"
        \/ /\ Lives!Target(o) = "failed"
           /\ Lives!handleOf(id) = 0 \/ Lives!Running(Lives!handleOf(id))
    BY DEF Lives!Target
  <2>3. Move(o, To(Lives!Target(o))) BY <1>2, <2>1, <2>2 DEF Move
  <2> QED BY <1>2, <2>1, <2>3
<1>7. CASE Lives!run(o)
  <2>1. PICK pc, g : g = Lives!handleOf(id) /\ pc = IF g = 0 THEN "failed" ELSE "launch" OBVIOUS
  <2>2. PICK c : c = [ops[o] EXCEPT !.g = g, !.pc = pc] OBVIOUS
  <2>3. ops[o].pc = "target" /\ ops' = [ops EXCEPT ![o] = c] /\ Still(o) /\ LivesStill
    BY <1>7, <2>1, <2>2 DEF Lives!run, Lives!lvars, Lives!cvars, Still, LivesStill
  <2>4. Call(c) /\ c.id = ops[o].id /\ c.g = g /\ c.pc = pc BY <1>1, <2>2 DEF Call
  <2>5. Move(o, c) BY <2>1, <2>3, <2>4 DEF Move
  <2> QED BY <2>3, <2>4, <2>5
<1>8. CASE Lives!Launched(o)
  <2>1. /\ ops[o].pc = "launch" /\ gen[ops[o].g].mach = "ready" /\ Lives!Goto(o, "run") /\ creating' = creating
        /\ retired' = Lives!Without(id) /\ passes' = passes /\ LivesStill
    BY <1>8 DEF Lives!Launched, Lives!lvars, LivesStill
  <2>2. Move(o, To("run")) BY <1>2, <2>1 DEF Move
  <2> QED BY <1>2, <2>1, <2>2
<1>9. CASE Lives!LaunchFails(o)
  <2>1. /\ ops[o].pc = "launch" /\ (gen[ops[o].g].closing \/ gen[ops[o].g].mach # "ready") /\ Lives!Goto(o, "failed")
        /\ Still(o) /\ LivesStill
    BY <1>9 DEF Lives!LaunchFails, Lives!lvars, Lives!cvars, Still, LivesStill
  <2>2. Move(o, To("failed")) BY <1>2, <2>1 DEF Move
  <2> QED BY <1>2, <2>1, <2>2
<1>10. CASE Lives!TurnEnds(o)
  <2>1. ops[o].pc = "run" /\ Lives!Goto(o, "ended") /\ Still(o) /\ LivesStill
    BY <1>10 DEF Lives!TurnEnds, Lives!lvars, Lives!cvars, Still, LivesStill
  <2>2. Move(o, To("ended")) BY <1>2, <2>1 DEF Move
  <2> QED BY <1>2, <2>1, <2>2
<1>11. CASE Lives!Finished(o)
  <2>1. /\ ops[o].pc = "ended" /\ Lives!Goto(o, "done") /\ creating' = creating
        /\ retired' = Append(Lives!Without(id), [id |-> id, tries |-> 0]) /\ passes' = passes + 1 /\ LivesStill
    BY <1>11 DEF Lives!Finished, Lives!lvars, LivesStill
  <2>2. Move(o, To("done")) BY <1>2, <2>1 DEF Move
  <2> QED BY <1>2, <2>1, <2>2
<1> QED BY <1>3, <1>4, <1>5, <1>6, <1>7, <1>8, <1>9, <1>10, <1>11 DEF Lives!OpStep

LEMMA LivesInvStill ==
  ASSUME LivesInv, UNCHANGED <<gen, roster, sess, asks, shut>>, odd' = odd \/ odd' = odd \cup {"flaky"} PROVE LivesInv'
<1>1. Gens' = Gens /\ Refs' = Refs BY DEF Gens, Lives!Gens, Refs
<1>2. LivesShapes' BY <1>1 DEF LivesInv, LivesShapes, Generation
<1>3. LivesOK' BY <1>1 DEF LivesInv, LivesOK, LifeOK, OrderlyOK, StraightOK, Orderly, Straight
<1>4. TablesOK' BY <1>1 DEF LivesInv, TablesOK
<1>5. ShutOK' BY <1>1 DEF LivesInv, ShutOK
<1>6. AsksOK' BY <1>1 DEF LivesInv, AsksOK, Orderly
<1> QED BY <1>2, <1>3, <1>4, <1>5, <1>6 DEF LivesInv

LEMMA LinkAwaited ==
  ASSUME LivesInv, CallsInv, NEW o \in Ops, gen' = gen, NEW c, ops' = [ops EXCEPT ![o] = c], Call(c), CallOK(c),
         gen[ops[o].g].mach # "linking", ops[o].pc = "link",
         creating' = IF creating[ops[o].id] = o THEN [creating EXCEPT ![ops[o].id] = 0] ELSE creating
  PROVE  CallsInv'
<1>1. Gens' = Gens /\ Ops' = Ops /\ 0 \notin Ops BY NumbersOfGens DEF Gens, Lives!Gens, Ops, Lives!Ops
<1>2. CallShapes /\ (\A p \in Ops : CallOK(ops[p])) /\ JoinsOK BY DEF CallsInv
<1>3. /\ ops' = [p \in Ops |-> ops'[p]] /\ ops'[o] = c /\ \A p \in Ops : p # o => ops'[p] = ops[p]
      /\ \A p \in Ops : Call(ops'[p])
  BY <1>2, OneCall
<1>4. creating \in [Ids -> Ops \cup {0}] BY <1>2 DEF CallShapes
<1>5. \A id \in Ids : creating[id] = o => id = ops[o].id BY <1>1, <1>2 DEF JoinsOK
<1> HIDE DEF Gens, Ops
<1>6. /\ creating' \in [Ids -> Ops \cup {0}]
      /\ \A id \in Ids : creating'[id] = IF creating[id] = o THEN 0 ELSE creating[id]
  BY <1>4, <1>5
<1>7. CallShapes' BY <1>1, <1>3, <1>6 DEF CallShapes, Call
<1>8. \A p \in Ops : CallOK(ops[p])'
  <2>1. ASSUME NEW p \in Ops PROVE CallOK(ops[p])'
    <3>1. CallOK(ops'[p]) BY <1>2, <1>3
    <3> QED BY <1>1, <3>1 DEF CallOK
  <2> QED BY <2>1
<1>9. JoinsOK'
  <2>1. ASSUME NEW id \in Ids, creating'[id] # 0 PROVE ops'[creating'[id]].id = id /\ ops'[creating'[id]].pc = "link"
    BY <1>2, <1>3, <1>4, <1>6, <2>1 DEF JoinsOK
  <2>2. ASSUME NEW g \in Gens, gen[g].mach = "linking"
        PROVE  creating'[gen[g].id] # 0 /\ ops'[creating'[gen[g].id]].g = g
    <3>1. creating[gen[g].id] # 0 /\ ops[creating[gen[g].id]].g = g BY <1>2, <2>2 DEF JoinsOK
    <3>2. gen[g].id \in Ids BY <2>2, LifeFacts DEF LifeOK
    <3>3. creating[gen[g].id] # o BY <2>2, <3>1
    <3> QED BY <1>3, <1>4, <1>6, <3>1, <3>2, <3>3
  <2> QED BY <1>1, <2>1, <2>2 DEF JoinsOK
<1> QED BY <1>1, <1>7, <1>8, <1>9 DEF CallsInv

LEMMA MovesKeepCalls ==
  ASSUME LivesInv, CallsInv, NEW o \in Ops, gen' = gen,
         NEW c, ops' = [ops EXCEPT ![o] = c], Call(c), c.id = ops[o].id, Move(o, c)
  PROVE  CallsInv'
<1> DEFINE id == ops[o].id
           g == ops[o].g
<1>1. CallOK(ops[o]) BY DEF CallsInv
<1>2. CASE ops[o].pc = "link"
  <2>1. /\ gen[g].mach # "linking" /\ c.pc \in {"handle", "failed"}
        /\ creating' = IF creating[id] = o THEN [creating EXCEPT ![id] = 0] ELSE creating
    BY <1>2 DEF Move
  <2>2. CallOK(c) BY <1>1, <1>2, <2>1 DEF CallOK, Bound, Ran
  <2> QED BY <1>2, <2>1, <2>2, LinkAwaited
<1>3. CASE ops[o].pc = "target"
  <2>1. c.g = Lives!handleOf(id) /\ c.pc = (IF c.g = 0 THEN "failed" ELSE "launch") /\ creating' = creating
    BY <1>3 DEF Move, Still
  <2>2. id \in Ids BY <1>1, <1>3 DEF CallOK
  <2>3. c.g # 0 => c.g \in Gens /\ gen[c.g].id = id /\ gen[c.g].mach # "none" BY <2>1, <2>2, HandleIs
  <2>4. CallOK(c) BY <2>1, <2>2, <2>3 DEF CallOK, Bound, Ran
  <2> QED BY <1>3, <2>1, <2>4, CallMoves
<1>4. CASE ops[o].pc = "launch" /\ c.pc = "run"
  <2>1. c.g = g /\ gen[g].mach = "ready" /\ creating' = creating BY <1>4 DEF Move, Still
  <2>2. g \in Gens BY <1>1, <1>4 DEF CallOK, Bound
  <2>3. gen[g].build = "ok" BY <2>1, <2>2, LifeFacts DEF LifeOK
  <2>4. CallOK(c) BY <1>1, <1>4, <2>1, <2>3 DEF CallOK, Bound, Ran
  <2> QED BY <1>4, <2>1, <2>4, CallMoves
<1>5. CASE ops[o].pc \notin {"link", "target"} /\ ~(ops[o].pc = "launch" /\ c.pc = "run")
  <2>1. /\ creating' = creating /\ c.g = g /\ ops[o].pc # "idle"
        /\ \/ c.pc \in {"create", "target", "failed"} \/ (ops[o].pc = "run" /\ c.pc = "ended")
           \/ (ops[o].pc = "ended" /\ c.pc = "done")
    BY <1>5 DEF Move, Still
  <2>2. CallOK(c) BY <1>1, <2>1 DEF CallOK, Bound, Ran
  <2> QED BY <1>5, <2>1, <2>2, CallMoves
<1> QED BY <1>2, <1>3, <1>4, <1>5

\* A call that has no agent yet takes the next step.
Begins(o, c) ==
  /\ ops' = [ops EXCEPT ![o] = c] /\ Call(c) /\ c.id \in Ids
  /\ ops[o].pc \in {"idle", "create"} /\ c.pc \in {"create", "meta", "link", "handle", "poll", "failed"}

LEMMA NewCallKeeps ==
  ASSUME LivesInv, CallsInv, NEW o \in Ops, NEW id \in Ids, Lives!Spawn(o, id) \/ Lives!Resume(o, id)
  PROVE  CallsInv' /\ LivesStill /\ Still(o) /\ \E c : Begins(o, c)
<1>1. PICK pc \in {"create", "meta"}, spawn \in BOOLEAN :
        ops' = [ops EXCEPT ![o] = [id |-> id, pc |-> pc, g |-> 0, spawn |-> spawn]]
  BY DEF Lives!Spawn, Lives!Resume
<1>2. ops[o].pc = "idle" /\ LivesStill /\ Still(o)
  BY DEF Lives!Spawn, Lives!Resume, Lives!NextOp, Lives!lvars, Lives!cvars, LivesStill, Still
<1>3. PICK c : c = [id |-> id, pc |-> pc, g |-> 0, spawn |-> spawn] OBVIOUS
<1>4. Call(c) /\ c.id = id /\ c.pc = pc BY <1>3 DEF Call
<1>5. CallOK(c) BY <1>4 DEF CallOK, Bound, Ran
<1>6. Begins(o, c) BY <1>1, <1>2, <1>3, <1>4 DEF Begins
<1>7. CallsInv' BY <1>1, <1>2, <1>3, <1>4, <1>5, CallMoves DEF LivesStill, Still
<1> QED BY <1>2, <1>6, <1>7

LEMMA BornCalls ==
  ASSUME LivesInv, CallsInv, NEW o \in Ops, NEW g, NEW id \in Ids, Born(g, id), sess[id] = 0,
         ops[o].pc = "create", NEW c, ops' = [ops EXCEPT ![o] = c], Call(c), c.id = id, c.pc = "link", c.g = g,
         creating' = [creating EXCEPT ![id] = o]
  PROVE  CallsInv'
<1>1. Gens' = Gens /\ Ops' = Ops /\ 0 \notin Ops /\ 0 \notin Gens
  BY NumbersOfGens DEF Gens, Lives!Gens, Ops, Lives!Ops
<1>2. CallShapes /\ (\A p \in Ops : CallOK(ops[p])) /\ JoinsOK BY DEF CallsInv
<1>3. /\ ops' = [p \in Ops |-> ops'[p]] /\ ops'[o] = c /\ \A p \in Ops : p # o => ops'[p] = ops[p]
      /\ \A p \in Ops : Call(ops'[p])
  BY <1>2, OneCall
<1>4. /\ g \in Gens /\ gen[g].mach = "none" /\ gen'[g].id = id /\ gen'[g].mach = "linking"
      /\ \A h \in Gens : h # g => gen'[h] = gen[h]
  BY DEF Born, LivesInv, LivesShapes
<1>5. creating \in [Ids -> Ops \cup {0}] BY <1>2 DEF CallShapes
<1>6. \A i \in Ids : creating[i] # 0 => creating[i] \in Ops /\ creating[i] # o BY <1>2, <1>5 DEF JoinsOK
<1> HIDE DEF Gens, Ops
<1>7. /\ creating' \in [Ids -> Ops \cup {0}]
      /\ \A i \in Ids : creating'[i] = IF i = id THEN o ELSE creating[i]
  BY <1>5
<1>8. CallShapes' BY <1>1, <1>3, <1>7 DEF CallShapes, Call
<1>9. \A p \in Ops : CallOK(ops[p])'
  <2>1. ASSUME NEW p \in Ops PROVE CallOK(ops[p])'
    <3>1. CASE p = o BY <1>1, <1>3, <1>4, <3>1 DEF CallOK, Bound, Ran
    <3>2. CASE p # o
      <4>1. CallOK(ops[p]) /\ ops'[p] = ops[p] BY <1>2, <1>3, <3>2
      <4> QED BY <1>1, <1>4, <4>1 DEF CallOK, Bound, Ran
    <3> QED BY <3>1, <3>2
  <2> QED BY <2>1
<1>10. JoinsOK'
  <2>1. ASSUME NEW i \in Ids, creating'[i] # 0 PROVE ops'[creating'[i]].id = i /\ ops'[creating'[i]].pc = "link"
    BY <1>2, <1>3, <1>6, <1>7, <2>1 DEF JoinsOK
  <2>2. ASSUME NEW h \in Gens, gen'[h].mach = "linking"
        PROVE  creating'[gen'[h].id] # 0 /\ ops'[creating'[gen'[h].id]].g = h
    <3>1. CASE h = g BY <1>1, <1>3, <1>4, <1>7, <3>1
    <3>2. CASE h # g
      <4>1. gen'[h] = gen[h] /\ gen[h].mach = "linking" BY <1>4, <2>2, <3>2
      <4>2. creating[gen[h].id] # 0 /\ ops[creating[gen[h].id]].g = h BY <1>2, <4>1 DEF JoinsOK
      <4>3. gen[h].id \in Ids BY <4>1, LifeFacts DEF LifeOK
      <4>4. sess[gen[h].id] = h BY <4>1 DEF LivesInv, TablesOK, Alive
      <4>5. gen[h].id # id BY <1>1, <4>4
      <4> QED BY <1>3, <1>6, <1>7, <4>1, <4>2, <4>3, <4>5
    <3> QED BY <3>1, <3>2
  <2> QED BY <1>1, <2>1, <2>2 DEF JoinsOK
<1> QED BY <1>1, <1>8, <1>9, <1>10 DEF CallsInv

\* create joins a creation, finds the agent, gives up, waits or begins a life.
LEMMA CreateKeeps ==
  ASSUME LivesInv, CallsInv, NEW o \in Ops, Lives!create(o)
  PROVE  /\ LivesInv' /\ CallsInv' /\ UNCHANGED <<retired, passes, shut, ev, odd>> 
         /\ \E c : /\ Begins(o, c)
                   /\ \/ UNCHANGED <<gen, roster>>
                      \/ \E g : /\ Born(g, ops[o].id) /\ ops[o].id \in Ids /\ Lives!handleOf(ops[o].id) = 0
                               /\ c.pc = "link" /\ c.g = g
<1> DEFINE id == ops[o].id
<1>1. /\ ops[o].pc = "create" /\ UNCHANGED <<asks, retired, passes, shut, ev, odd>>
  BY DEF Lives!create, Lives!cvars
<1>2. Call(ops[o]) /\ CallOK(ops[o]) /\ id \in Ids BY <1>1 DEF CallsInv, CallShapes, CallOK
<1>3. CASE creating[id] # 0
  <2>1. PICK h : h = ops[creating[id]].g OBVIOUS
  <2>2. PICK c : c = [ops[o] EXCEPT !.pc = "link", !.g = h] OBVIOUS
  <2>3. ops' = [ops EXCEPT ![o] = c] /\ UNCHANGED <<gen, roster, sess, creating>>
    BY <1>3, <2>1, <2>2 DEF Lives!create
  <2>4. Call(c) /\ c.id = id /\ c.pc = "link" /\ c.g = h BY <1>2, <2>2 DEF Call
  <2>5. creating[id] \in Ops BY <1>2, <1>3 DEF CallsInv, CallShapes
  <2>6. ops[creating[id]].id = id /\ ops[creating[id]].pc = "link" BY <1>2, <1>3 DEF CallsInv, JoinsOK
  <2>7. CallOK(ops[creating[id]]) BY <2>5 DEF CallsInv
  <2>8. CallOK(c) BY <1>2, <2>1, <2>4, <2>6, <2>7 DEF CallOK, Bound, Ran
  <2>9. Begins(o, c) BY <1>1, <1>2, <2>3, <2>4 DEF Begins
  <2>10. CallsInv' BY <1>1, <2>3, <2>4, <2>8, CallMoves
  <2> QED BY <1>1, <2>3, <2>9, <2>10, LivesInvStill
<1>4. CASE creating[id] = 0 /\ (Lives!handleOf(id) # 0 \/ sess[id] # 0)
  <2>1. PICK pc \in {"handle", "failed", "poll"} : Lives!Goto(o, pc) /\ UNCHANGED <<gen, roster, sess, creating>>
    BY <1>4 DEF Lives!create
  <2>2. PICK c : c = [ops[o] EXCEPT !.pc = pc] OBVIOUS
  <2>3. ops' = [ops EXCEPT ![o] = c] BY <2>1, <2>2 DEF Lives!Goto
  <2>4. Call(c) /\ c.id = id /\ c.pc = pc BY <1>2, <2>2 DEF Call
  <2>5. CallOK(c) BY <1>2, <2>4 DEF CallOK, Bound, Ran
  <2>6. Begins(o, c) BY <1>1, <1>2, <2>3, <2>4 DEF Begins
  <2>7. CallsInv' BY <1>1, <2>1, <2>3, <2>4, <2>5, CallMoves
  <2> QED BY <1>1, <2>1, <2>6, <2>7, LivesInvStill
<1>5. CASE creating[id] = 0 /\ Lives!handleOf(id) = 0 /\ sess[id] = 0
  <2>1. Lives!doCreate(o, id) BY <1>5 DEF Lives!create
  <2>2. PICK g : /\ Born(g, id) /\ creating' = [creating EXCEPT ![id] = o]
                 /\ ops' = [ops EXCEPT ![o].pc = "link", ![o].g = g]
    BY <2>1, CreatedIsBorn
  <2>3. PICK c : c = [ops[o] EXCEPT !.pc = "link", !.g = g] OBVIOUS
  <2>4. ops' = [ops EXCEPT ![o] = c] BY <2>2, <2>3
  <2>5. Call(c) /\ c.id = id /\ c.pc = "link" /\ c.g = g BY <1>2, <2>3 DEF Call
  <2>6. Begins(o, c) BY <1>1, <1>2, <2>4, <2>5 DEF Begins
  <2>7. CallsInv' BY <1>1, <1>2, <1>5, <2>2, <2>4, <2>5, BornCalls
  <2>8. LivesInv' BY <1>1, <1>2, <1>5, <2>2, BornKeeps
  <2> QED BY <1>1, <1>2, <1>5, <2>2, <2>5, <2>6, <2>7, <2>8
<1> QED BY <1>3, <1>4, <1>5

----------------------------------------------------------------------------
(* The entries of the cache.                                               *)

\* One entry an id.
Once(s) == s \in Seq(Entries) /\ \A i, j \in DOMAIN s : s[i].id = s[j].id => i = j
Holds(s, id) == \E i \in DOMAIN s : s[i].id = id
Among(t, s) == \A i \in DOMAIN t : \E j \in DOMAIN s : t[i] = s[j]

LEMMA RemoveAtFacts ==
  ASSUME NEW s \in Seq(Entries), NEW k \in DOMAIN s, NEW t, t = Lives!RemoveAt(s, k)
  PROVE  /\ t \in Seq(Entries) /\ Len(t) <= Len(s) /\ k \in Nat /\ DOMAIN t = 1 .. Len(s) - 1 /\ DOMAIN s = 1 .. Len(s)
         /\ Len(s) \in Nat
         /\ \A i \in 1 .. Len(s) - 1 : t[i] = s[IF i < k THEN i ELSE i + 1]
<1>1. Len(s) \in Nat /\ DOMAIN s = 1 .. Len(s) /\ k \in 1 .. Len(s) /\ k \in Nat OBVIOUS
<1> DEFINE A == SubSeq(s, 1, k - 1)
           B == SubSeq(s, k + 1, Len(s))
<1>2. A \in Seq(Entries) /\ Len(A) = k - 1 /\ \A i \in 1 .. k - 1 : A[i] = s[i] BY <1>1, SubSeqProperties
<1>3. B \in Seq(Entries) /\ Len(B) = Len(s) - k /\ \A i \in 1 .. Len(s) - k : B[i] = s[i + k] BY <1>1, SubSeqProperties
<1>4. t = A \o B BY DEF Lives!RemoveAt
<1> HIDE DEF A, B
<1>5. /\ t \in Seq(Entries) /\ Len(t) = Len(A) + Len(B)
      /\ \A i \in 1 .. Len(A) + Len(B) : t[i] = IF i <= Len(A) THEN A[i] ELSE B[i - Len(A)]
  <2>1. /\ A \o B \in Seq(Entries) /\ Len(A \o B) = Len(A) + Len(B)
        /\ \A i \in 1 .. Len(A) + Len(B) : (A \o B)[i] = IF i <= Len(A) THEN A[i] ELSE B[i - Len(A)]
    BY <1>2, <1>3, ConcatProperties, Zenon
  <2> QED BY <1>4, <2>1
<1>6. Len(t) = Len(s) - 1 BY <1>1, <1>2, <1>3, <1>5
<1>7. DOMAIN t = 1 .. Len(s) - 1 BY <1>5, <1>6
<1>8. ASSUME NEW i \in 1 .. Len(s) - 1 PROVE t[i] = s[IF i < k THEN i ELSE i + 1]
  <2>1. t[i] = IF i <= k - 1 THEN A[i] ELSE B[i - (k - 1)] BY <1>1, <1>2, <1>3, <1>5
  <2>2. CASE i < k
    <3>1. i \in 1 .. k - 1 BY <1>1, <2>2
    <3> QED BY <1>1, <1>2, <2>1, <2>2, <3>1
  <2>3. CASE ~(i < k)
    <3>1. i - (k - 1) \in 1 .. Len(s) - k BY <1>1, <2>3
    <3>2. B[i - (k - 1)] = s[(i - (k - 1)) + k] BY <1>3, <3>1
    <3>3. (i - (k - 1)) + k = i + 1 BY <1>1
    <3> QED BY <1>1, <2>1, <2>3, <3>2, <3>3
  <2> QED BY <2>2, <2>3
<1> QED BY <1>1, <1>5, <1>6, <1>7, <1>8

LEMMA EntryLeaves ==
  ASSUME NEW s, Once(s), NEW k \in DOMAIN s, NEW t, t = Lives!RemoveAt(s, k)
  PROVE  /\ Once(t) /\ Len(t) <= Len(s) /\ Among(t, s)
         /\ \A id : Holds(t, id) <=> Holds(s, id) /\ id # s[k].id
<1>1. s \in Seq(Entries) /\ \A i, j \in DOMAIN s : s[i].id = s[j].id => i = j BY DEF Once
<1>2. /\ t \in Seq(Entries) /\ Len(t) <= Len(s) /\ k \in Nat /\ DOMAIN t = 1 .. Len(s) - 1 /\ DOMAIN s = 1 .. Len(s)
      /\ Len(s) \in Nat
      /\ \A i \in 1 .. Len(s) - 1 : t[i] = s[IF i < k THEN i ELSE i + 1]
  BY <1>1, RemoveAtFacts
<1> DEFINE at(i) == IF i < k THEN i ELSE i + 1
<1>3. \A i \in DOMAIN t : at(i) \in DOMAIN s /\ at(i) # k /\ t[i] = s[at(i)] BY <1>2
<1>4. \A i, j \in DOMAIN t : at(i) = at(j) => i = j BY <1>2
<1>5. ASSUME NEW j \in DOMAIN s, j # k PROVE \E i \in DOMAIN t : t[i] = s[j]
  <2>1. CASE j < k
    <3>1. j \in DOMAIN t /\ at(j) = j BY <1>2, <2>1
    <3>2. t[j] = s[j] BY <1>3, <3>1
    <3> QED BY <3>1, <3>2
  <2>2. CASE ~(j < k)
    <3>1. j - 1 \in DOMAIN t /\ at(j - 1) = j BY <1>2, <1>5, <2>2
    <3>2. t[j - 1] = s[j] BY <1>3, <3>1
    <3> QED BY <3>1, <3>2
  <2> QED BY <2>1, <2>2
<1> HIDE DEF at
<1>6. Once(t) BY <1>1, <1>2, <1>3, <1>4 DEF Once
<1>7. Among(t, s) BY <1>3 DEF Among
<1>8. ASSUME NEW id PROVE Holds(t, id) <=> Holds(s, id) /\ id # s[k].id
  <2>1. ASSUME Holds(t, id) PROVE Holds(s, id) /\ id # s[k].id
    <3>1. PICK i \in DOMAIN t : t[i].id = id BY <2>1 DEF Holds
    <3> QED BY <1>1, <1>3, <3>1 DEF Holds
  <2>2. ASSUME Holds(s, id), id # s[k].id PROVE Holds(t, id)
    <3>1. PICK j \in DOMAIN s : s[j].id = id BY <2>2 DEF Holds
    <3> QED BY <1>5, <2>2, <3>1 DEF Holds
  <2> QED BY <2>1, <2>2
<1> QED BY <1>2, <1>6, <1>7, <1>8

LEMMA EntryComes ==
  ASSUME NEW s, Once(s), NEW e \in Entries, ~Holds(s, e.id), NEW t, t = Append(s, e)
  PROVE  /\ Once(t) /\ (\A i \in DOMAIN t : t[i] = e \/ \E j \in DOMAIN s : t[i] = s[j])
         /\ \A id : Holds(t, id) <=> Holds(s, id) \/ id = e.id
<1>1. s \in Seq(Entries) /\ \A i, j \in DOMAIN s : s[i].id = s[j].id => i = j BY DEF Once
<1>2. /\ t \in Seq(Entries) /\ Len(s) \in Nat /\ DOMAIN s = 1 .. Len(s) /\ DOMAIN t = 1 .. Len(s) + 1
      /\ t[Len(s) + 1] = e /\ \A i \in 1 .. Len(s) : t[i] = s[i]
  BY <1>1, AppendProperties
<1>3. \A i \in DOMAIN t : i = Len(s) + 1 \/ i \in DOMAIN s BY <1>2
<1>4. \A i \in DOMAIN s : i \in DOMAIN t /\ s[i].id # e.id BY <1>2 DEF Holds
<1>5. Once(t) BY <1>1, <1>2, <1>3, <1>4 DEF Once
<1>6. Len(s) + 1 \in DOMAIN t BY <1>2
<1> QED BY <1>2, <1>3, <1>4, <1>5, <1>6 DEF Holds

LEMMA WithoutFacts ==
  ASSUME Once(retired), NEW id
  PROVE  /\ Once(Lives!Without(id)) /\ Len(Lives!Without(id)) <= Len(retired) /\ Among(Lives!Without(id), retired)
         /\ \A i : Holds(Lives!Without(id), i) <=> Holds(retired, i) /\ i # id
<1>1. CASE ~Holds(retired, id)
  <2>1. Lives!Without(id) = retired BY <1>1 DEF Lives!Without, Lives!Known, Holds
  <2>2. Len(retired) \in Nat BY DEF Once
  <2> QED BY <1>1, <2>1, <2>2 DEF Among, Holds
<1>2. CASE Holds(retired, id)
  <2> DEFINE k == CHOOSE i \in DOMAIN retired : retired[i].id = id
  <2>1. k \in DOMAIN retired /\ retired[k].id = id BY <1>2 DEF Holds
  <2>2. Lives!Without(id) = Lives!RemoveAt(retired, k) BY <1>2 DEF Lives!Without, Lives!Known, Holds
  <2> HIDE DEF k
  <2> QED BY <2>1, <2>2, EntryLeaves
<1> QED BY <1>1, <1>2

----------------------------------------------------------------------------
(* The cache: its entries and pass, whom it knows, and why it may be over  *)
(* its capacity.                                                           *)

CacheInv ==
  /\ Once(retired) /\ passes \in Nat /\ Pass(ev)
  /\ ev.pc \in {"evict", "flush", "await"} => ev.id \in Ids /\ ev.tries \in Nat /\ ev.tries < MaxAttempts
  /\ ev.pc = "flush" => ev.g \in Gens
  /\ "flaky" \notin odd => ev.tries = 0 /\ \A i \in DOMAIN retired : retired[i].tries = 0

\* The id left the map while it is being evicted, and nothing took its place.
Evicting(id) == ev.id = id /\ (ev.pc = "evict" \/ (ev.pc = "flush" /\ ev.g = Lives!handleOf(id)))

\* A later run of the id has not ended.
Back(id) == \E p \in Ops : ops[p].id = id /\ ops[p].pc \in {"run", "ended"}

KnownOK == Orderly =>
  \A o \in Ops : ops[o].pc = "done" /\ Lives!handleOf(ops[o].id) = ops[o].g =>
    Holds(retired, ops[o].id) \/ Evicting(ops[o].id) \/ Back(ops[o].id)

\* A call of the id is under way.
Active(id) ==
  \E o \in Ops : \/ ops[o].id = id /\ ops[o].pc \in {"handle", "target"}
                 \/ ops[o].g = Lives!handleOf(id) /\ ops[o].pc \in {"link", "launch", "run", "ended"}

\* The cache may keep the id: it is closing, gone or in use, or was put off
\* because of a background task, whose end nobody tells the cache.
Excused(id) == id \in shut \/ Lives!handleOf(id) = 0 \/ Active(id) \/ id \in ev.putOff

Untroubled == odd \cap {"flaky", "stray"} = {}

OverflowOK == Untroubled /\ passes = 0 =>
  /\ \A id \in Ids : id \in ev.skipped /\ Holds(retired, id) => Excused(id)
  /\ ev.pc = "idle" => Len(retired) <= Capacity \/ \A id \in Ids : Holds(retired, id) => Excused(id)

AllInv == LivesInv /\ CallsInv /\ CacheInv /\ KnownOK /\ OverflowOK

LEMMA CacheKept ==
  ASSUME CacheInv, passes' \in Nat,
         \/ ev' = ev
         \/ Pass(ev)' /\ ev'.pc = "await" /\ ev.pc = "flush" /\ ev'.id = ev.id /\ ev'.tries = ev.tries,
         odd \subseteq odd', Once(retired'),
         \A i \in DOMAIN retired' : retired'[i].tries = 0 \/ \E j \in DOMAIN retired : retired'[i] = retired[j]
  PROVE  CacheInv'
<1>1. Gens' = Gens BY DEF Gens, Lives!Gens
<1> HIDE DEF Gens
<1>2. Pass(ev)' BY DEF CacheInv, Pass
<1>3. Once(retired)' BY DEF Once, Entries
<1> QED BY <1>1, <1>2, <1>3 DEF CacheInv

LEMMA KnownKept ==
  ASSUME LivesInv, CallsInv, KnownOK, Ages, ops' = ops, odd \subseteq odd',
         \A o \in Ops : Orderly' /\ ops[o].pc = "done" /\ Lives!handleOf(ops[o].id) = ops[o].g
                          /\ Holds(retired, ops[o].id) => Holds(retired', ops[o].id),
         \A id \in Ids : Evicting(id) /\ Lives!handleOf(id) # 0 /\ Lives!handleOf(id)' = Lives!handleOf(id) => Evicting(id)'
  PROVE  KnownOK'
<1>1. Ops' = Ops /\ (Orderly' => Orderly) BY DEF Ops, Lives!Ops, Orderly
<1> HIDE DEF Ops
<1> SUFFICES ASSUME Orderly', NEW o \in Ops, ops[o].pc = "done", Lives!handleOf(ops[o].id)' = ops[o].g
             PROVE  Holds(retired', ops[o].id) \/ Evicting(ops[o].id)' \/ Back(ops[o].id)'
  BY <1>1 DEF KnownOK, Holds
<1>2. ops[o].id \in Ids /\ ops[o].g # 0
  <2>1. CallOK(ops[o]) BY DEF CallsInv
  <2> QED BY <2>1, NumbersOfGens DEF CallOK, Bound
<1>3. Lives!handleOf(ops[o].id)' = Lives!handleOf(ops[o].id) BY <1>2, HandlesGo
<1>4. Holds(retired, ops[o].id) \/ Evicting(ops[o].id) \/ Back(ops[o].id) BY <1>1, <1>3 DEF KnownOK
<1>5. CASE Holds(retired, ops[o].id) BY <1>3, <1>5
<1>6. CASE Evicting(ops[o].id) BY <1>2, <1>3, <1>6
<1>7. CASE Back(ops[o].id) BY <1>1, <1>7 DEF Back
<1> QED BY <1>4, <1>5, <1>6, <1>7

LEMMA ExcuseAges ==
  ASSUME LivesInv, Ages, ops' = ops, NEW id \in Ids, Excused(id), id \in shut => id \in shut',
         ev.putOff \subseteq ev'.putOff
  PROVE  Excused(id)'
<1>1. Lives!handleOf(id)' \in {Lives!handleOf(id), 0} BY HandlesGo
<1>2. Ops' = Ops BY DEF Ops, Lives!Ops
<1> HIDE DEF Ops
<1>3. CASE id \in shut BY <1>3 DEF Excused
<1>4. CASE Lives!handleOf(id) = 0 BY <1>1, <1>4 DEF Excused
<1>5. CASE Active(id)
  <2>1. CASE Lives!handleOf(id)' = 0 BY <2>1 DEF Excused
  <2>2. CASE Lives!handleOf(id)' = Lives!handleOf(id)
    <3>1. Active(id)' BY <1>2, <1>5, <2>2 DEF Active
    <3> QED BY <3>1 DEF Excused
  <2> QED BY <1>1, <2>1, <2>2
<1>6. CASE id \in ev.putOff BY <1>6 DEF Excused
<1> QED BY <1>3, <1>4, <1>5, <1>6 DEF Excused

LEMMA OverflowKept ==
  ASSUME CacheInv, OverflowOK, odd \subseteq odd', passes' = passes, Once(retired'), Len(retired') <= Len(retired),
         ev'.skipped = ev.skipped, ev'.pc = "idle" => ev.pc = "idle",
         \A id \in Ids : Holds(retired', id) => Holds(retired, id),
         \A id \in Ids : Untroubled' /\ Holds(retired', id) /\ Excused(id) => Excused(id)'
  PROVE  OverflowOK'
<1>1. Untroubled' => Untroubled BY DEF Untroubled
<1>2. Len(retired) \in Nat /\ Len(retired') \in Nat /\ Capacity \in Nat BY LivesAssumption DEF CacheInv, Once
<1>3. \A id : Holds(retired, id)' <=> Holds(retired', id) BY DEF Holds
<1>4. ASSUME Untroubled', passes' = 0
      PROVE  /\ \A id \in Ids : id \in ev'.skipped /\ Holds(retired', id) => Excused(id)'
             /\ ev'.pc = "idle" => Len(retired') <= Capacity \/ \A id \in Ids : Holds(retired', id) => Excused(id)'
  BY <1>1, <1>2, <1>4 DEF OverflowOK
<1> QED BY <1>3, <1>4 DEF OverflowOK

\* A generation that links or whose build goes on is in use by its creator.
LEMMA UnlinkedIsActive ==
  ASSUME LivesInv, CallsInv, Straight, NEW id \in Ids, Lives!handleOf(id) # 0, gen[Lives!handleOf(id)].mach # "ready"
  PROVE  \E o \in Ops : ops[o].g = Lives!handleOf(id) /\ ops[o].pc = "link"
<1> DEFINE h == Lives!handleOf(id)
<1>1. h \in Gens /\ gen[h].id = id /\ gen[h].removal = "none" /\ gen[h].build \notin {"none", "failing", "failed"}
  BY HandleIs
<1> HIDE DEF h
<1>2. LifeOK(gen[h]) /\ StraightOK(gen[h]) BY <1>1, LifeFacts
<1>3. gen[h].mach = "linking" BY <1>1, <1>2 DEF LifeOK, StraightOK, h
<1>4. creating[id] # 0 /\ ops[creating[id]].g = h BY <1>1, <1>3 DEF CallsInv, JoinsOK
<1>5. ops[creating[id]].pc = "link" BY <1>4 DEF CallsInv, JoinsOK
<1>6. creating[id] \in Ops BY <1>4 DEF CallsInv, CallShapes
<1> QED BY <1>4, <1>5, <1>6 DEF h

\* The steps of a generation: no call moves, and an entry leaves the cache
\* only when no agent of the id is left that has run.
LEMMA AgeingKeepsAll ==
  ASSUME AllInv, LivesInv', Ages, ops' = ops, creating' = creating, passes' = passes, ev' = ev, odd \subseteq odd',
         \/ retired' = retired /\ shut \subseteq shut'
         \/ \E id : /\ retired' = Lives!Without(id) /\ shut \ {id} \subseteq shut'
                    /\ \A o \in Ops : Orderly' /\ ops[o].pc = "done" /\ Lives!handleOf(ops[o].id) = ops[o].g
                                        => ops[o].id # id
  PROVE  AllInv'
<1>1. LivesInv /\ CallsInv /\ CacheInv /\ KnownOK /\ OverflowOK BY DEF AllInv
<1>2. CallsInv' BY <1>1, CallsAge
<1>3. Once(retired) /\ Len(retired) \in Nat BY <1>1 DEF CacheInv, Once
<1>4. /\ Once(retired') /\ Len(retired') <= Len(retired) /\ Among(retired', retired)
      /\ \A id : Holds(retired', id) => Holds(retired, id)
      /\ \A id : Holds(retired', id) /\ id \in shut => id \in shut'
      /\ \A o \in Ops : Orderly' /\ ops[o].pc = "done" /\ Lives!handleOf(ops[o].id) = ops[o].g
                          /\ Holds(retired, ops[o].id) => Holds(retired', ops[o].id)
  <2>1. CASE retired' = retired /\ shut \subseteq shut' BY <1>3, <2>1 DEF Among
  <2>2. ASSUME NEW id, retired' = Lives!Without(id), shut \ {id} \subseteq shut',
               \A o \in Ops : Orderly' /\ ops[o].pc = "done" /\ Lives!handleOf(ops[o].id) = ops[o].g => ops[o].id # id
        PROVE  /\ Once(retired') /\ Len(retired') <= Len(retired) /\ Among(retired', retired)
               /\ \A i : Holds(retired', i) <=> Holds(retired, i) /\ i # id
               /\ \A i : Holds(retired', i) /\ i \in shut => i \in shut'
    <3>1. /\ Once(retired') /\ Len(retired') <= Len(retired) /\ Among(retired', retired)
          /\ \A i : Holds(retired', i) <=> Holds(retired, i) /\ i # id
      BY <1>3, <2>2, WithoutFacts
    <3> QED BY <2>2, <3>1
  <2> QED BY <2>1, <2>2
<1>5. CacheInv' BY <1>1, <1>4, CacheKept DEF CacheInv, Among
<1>6. KnownOK' BY <1>1, <1>4, KnownKept DEF Evicting
<1>7. \A id \in Ids : Holds(retired', id) /\ Excused(id) => Excused(id)' BY <1>1, <1>4, ExcuseAges
<1>8. OverflowOK' BY <1>1, <1>4, <1>7, OverflowKept
<1> QED BY <1>2, <1>5, <1>6, <1>8 DEF AllInv

\* A call that has run and whose agent has a handle.
LEMMA DoneFacts ==
  ASSUME LivesInv, CallsInv, NEW o \in Ops, ops[o].pc = "done", Lives!handleOf(ops[o].id) = ops[o].g
  PROVE  LET g == ops[o].g IN
         /\ g \in Gens /\ roster[ops[o].id] = g /\ gen[g].id = ops[o].id /\ gen[g].build = "ok" /\ gen[g].removal = "none"
         /\ Orderly => gen[g].mach = "ready"
<1> DEFINE g == ops[o].g
<1>1. ops[o].id \in Ids /\ g \in Gens /\ gen[g].build = "ok"
  <2>1. CallOK(ops[o]) BY DEF CallsInv
  <2> QED BY <2>1 DEF CallOK, Bound, Ran
<1>2. g # 0 BY <1>1, NumbersOfGens
<1>3. roster[ops[o].id] = g /\ gen[g].id = ops[o].id /\ gen[g].removal = "none" BY <1>1, <1>2, HandleIs
<1>4. Orderly => StraightOK(gen[g]) BY <1>1, LifeFacts
<1> QED BY <1>1, <1>3, <1>4 DEF StraightOK

LEMMA GenStepKeepsAll ==
  ASSUME AllInv, NEW g \in Gens, Lives!Settled, Lives!GenStep(g) \/ Lives!BuildFails(g)
  PROVE  AllInv'
<1>1. LivesInv /\ CallsInv BY DEF AllInv
<1>2. Ages BY <1>1, GenStepAges
<1>3. CASE Lives!Sealed(g) \/ Lives!Restored(g) \/ Lives!Built(g) \/ Lives!ScopeDisposed(g) \/ Lives!Quiesced(g)
           \/ Lives!StopAgent(g) \/ Lives!BuildFails(g)
  <2>1. LivesInv'
    BY <1>1, <1>3, SealedKeeps, RestoredKeeps, BuiltKeeps, ScopeDisposedKeeps, QuiescedKeeps, StopAgentKeeps, BuildFailsKeeps
  <2>2. /\ ops' = ops /\ creating' = creating /\ passes' = passes /\ ev' = ev /\ retired' = retired /\ shut' = shut
        /\ odd \subseteq odd'
    BY <1>3 DEF Lives!Sealed, Lives!Restored, Lives!Built, Lives!ScopeDisposed, Lives!Quiesced, Lives!StopAgent,
                Lives!BuildFails, Lives!lvars, Lives!cvars
  <2> QED BY <1>2, <2>1, <2>2, AgeingKeepsAll
<1>4. CASE Lives!Registered(g)
  <2>1. LivesInv' BY <1>1, <1>4, RegisteredKeeps
  <2>2. /\ ops' = ops /\ creating' = creating /\ passes' = passes /\ ev' = ev /\ odd' = odd /\ shut' = shut
        /\ retired' = Lives!Without(gen[g].id) /\ gen[g].build = "register"
    BY <1>4 DEF Lives!Registered
  <2>3. ASSUME NEW o \in Ops, Orderly', ops[o].pc = "done", Lives!handleOf(ops[o].id) = ops[o].g PROVE ops[o].id # gen[g].id
    <3>1. Orderly BY <2>2, <2>3 DEF Orderly
    <3>2. OrderlyOK(gen[g]) /\ LifeOK(gen[g]) BY <1>1, <3>1, LifeFacts
    <3>3. gen[g].mach = "linking" BY <2>2, <3>2 DEF OrderlyOK, Lives!Building
    <3>4. roster[gen[g].id] = g BY <1>1, <2>2, <3>3 DEF LivesInv, TablesOK, Alive
    <3>5. roster[ops[o].id] = ops[o].g /\ gen[ops[o].g].build = "ok" BY <1>1, <2>3, DoneFacts
    <3> QED BY <2>2, <3>4, <3>5
  <2> QED BY <1>2, <2>1, <2>2, <2>3, AgeingKeepsAll
<1>5. CASE Lives!BuildFailed(g)
  <2>1. LivesInv' BY <1>1, <1>5, BuildFailedKeeps
  <2>2. /\ ops' = ops /\ creating' = creating /\ passes' = passes /\ ev' = ev /\ odd' = odd /\ gen[g].build = "failing"
        /\ \/ retired' = Lives!Without(gen[g].id) /\ shut' = shut \ {gen[g].id}
           \/ retired' = retired /\ shut' = shut
    BY <1>5 DEF Lives!BuildFailed, Lives!DidClose, Lives!cvars
  <2>3. ASSUME NEW o \in Ops, Orderly', ops[o].pc = "done", Lives!handleOf(ops[o].id) = ops[o].g PROVE ops[o].id # gen[g].id
    <3>1. Orderly BY <2>2, <2>3 DEF Orderly
    <3>2. OrderlyOK(gen[g]) /\ LifeOK(gen[g]) BY <1>1, <3>1, LifeFacts
    <3>3. gen[g].mach = "linking" BY <2>2, <3>2 DEF OrderlyOK
    <3>4. roster[gen[g].id] = 0 BY <1>1, <2>2, <3>3 DEF LivesInv, TablesOK, Alive
    <3>5. roster[ops[o].id] = ops[o].g /\ ops[o].g \in Gens BY <1>1, <2>3, DoneFacts
    <3> QED BY <3>4, <3>5, NumbersOfGens
  <2> QED BY <1>2, <2>1, <2>2, <2>3, AgeingKeepsAll
<1> QED BY <1>3, <1>4, <1>5 DEF Lives!GenStep

LEMMA RemovalOverKeepsAll ==
  ASSUME AllInv, NEW g \in Gens, Lives!RemovalOver(g) PROVE AllInv'
<1>1. LivesInv /\ CallsInv BY DEF AllInv
<1>2. Ages /\ LivesInv' BY <1>1, GenStepAges, RemovalOverKeeps
<1>3. /\ ops' = ops /\ creating' = creating /\ passes' = passes /\ ev' = ev /\ odd' = odd /\ shut' = shut \ {gen[g].id}
      /\ retired' = Lives!Without(gen[g].id) /\ gen[g].removal = "wait" /\ gen[g].mach = "disposed"
  BY DEF Lives!RemovalOver, Lives!DidClose
<1>4. ASSUME NEW o \in Ops, Orderly', ops[o].pc = "done", Lives!handleOf(ops[o].id) = ops[o].g PROVE ops[o].id # gen[g].id
  <2>1. Orderly BY <1>3, <1>4 DEF Orderly
  <2>2. LET h == ops[o].g IN h \in Gens /\ gen[h].id = ops[o].id /\ gen[h].build = "ok" /\ gen[h].mach = "ready"
    BY <1>1, <1>4, <2>1, DoneFacts
  <2> QED BY <1>1, <1>3, <2>1, <2>2 DEF LivesInv, AsksOK, Alive
<1> QED BY <1>2, <1>3, <1>4, AgeingKeepsAll

----------------------------------------------------------------------------
(* The steps of the calls.                                                 *)

\* A call that has no agent yet moves; perhaps a generation is born.
LEMMA BeginningKeepsAll ==
  ASSUME AllInv, LivesInv', CallsInv', UNCHANGED <<retired, passes, shut, ev, odd>>, NEW o \in Ops, NEW c, Begins(o, c),
         \/ UNCHANGED <<gen, roster>>
         \/ \E g : Born(g, ops[o].id) /\ ops[o].id \in Ids /\ Lives!handleOf(ops[o].id) = 0 /\ c.pc = "link" /\ c.g = g
  PROVE  AllInv'
<1>1. LivesInv /\ CallsInv /\ CacheInv /\ KnownOK /\ OverflowOK BY DEF AllInv
<1>2. Ops' = Ops /\ (Orderly' <=> Orderly) BY DEF Ops, Lives!Ops, Orderly
<1>3. /\ ops'[o] = c /\ (\A p \in Ops : p # o => ops'[p] = ops[p]) /\ ops[o].pc \in {"idle", "create"}
      /\ c.pc \in {"create", "meta", "link", "handle", "poll", "failed"}
  BY <1>1, OneCall DEF Begins, CallsInv
<1>4. \A id \in Ids : \/ Lives!handleOf(id)' = Lives!handleOf(id)
                      \/ Lives!handleOf(id) = 0 /\ c.g = Lives!handleOf(id)' /\ c.pc = "link"
  <2>1. CASE UNCHANGED <<gen, roster>> BY <2>1 DEF Lives!handleOf
  <2>2. ASSUME NEW g, Born(g, ops[o].id), ops[o].id \in Ids, Lives!handleOf(ops[o].id) = 0, c.pc = "link", c.g = g
        PROVE  \A id \in Ids : \/ Lives!handleOf(id)' = Lives!handleOf(id)
                               \/ Lives!handleOf(id) = 0 /\ c.g = Lives!handleOf(id)' /\ c.pc = "link"
    <3> SUFFICES ASSUME NEW id \in Ids
                 PROVE  \/ Lives!handleOf(id)' = Lives!handleOf(id)
                        \/ Lives!handleOf(id) = 0 /\ c.g = Lives!handleOf(id)' /\ c.pc = "link"
      OBVIOUS
    <3>1. /\ g \in Gens /\ gen[g].mach = "none" /\ gen'[g].closing = FALSE
          /\ (\A h \in Gens : h # g => gen'[h] = gen[h])
          /\ \A i \in Ids : roster'[i] = IF i = ops[o].id THEN g ELSE roster[i]
      BY <1>1, <2>2 DEF Born, LivesInv, LivesShapes
    <3>2. g # 0 BY <3>1, NumbersOfGens
    <3>3. CASE id = ops[o].id BY <2>2, <3>1, <3>2, <3>3 DEF Lives!handleOf
    <3>4. CASE id # ops[o].id
      <4>1. roster'[id] = roster[id] BY <3>1, <3>4
      <4>2. roster[id] # 0 => gen'[roster[id]] = gen[roster[id]]
        <5>1. roster[id] # 0 => roster[id] \in Gens /\ gen[roster[id]].mach # "none"
          <6>1. roster[id] # 0 => roster[id] \in Gens BY <1>1 DEF LivesInv, LivesShapes, Refs
          <6> QED BY <1>1, <6>1 DEF LivesInv, TablesOK
        <5> QED BY <3>1, <5>1
      <4> QED BY <4>1, <4>2 DEF Lives!handleOf
    <3> QED BY <3>3, <3>4
  <2> QED BY <2>1, <2>2
<1> HIDE DEF Ops
<1>5. CacheInv'
  <2>1. Gens' = Gens /\ CacheInv BY <1>1 DEF Gens, Lives!Gens
  <2> HIDE DEF Gens
  <2> QED BY <2>1 DEF CacheInv, Once, Pass, Entries
<1>6. KnownOK'
  <2> SUFFICES ASSUME Orderly', NEW p \in Ops, ops'[p].pc = "done", Lives!handleOf(ops[p].id)' = ops'[p].g
               PROVE  Holds(retired', ops'[p].id) \/ Evicting(ops[p].id)' \/ Back(ops[p].id)'
    BY <1>2 DEF KnownOK, Holds
  <2>1. p # o /\ ops'[p] = ops[p] BY <1>3
  <2>2. ops[p].id \in Ids /\ gen[ops[p].g].build = "ok" /\ ops[p].g \in Gens
    <3>1. CallOK(ops[p]) BY <1>1 DEF CallsInv
    <3> QED BY <2>1, <3>1 DEF CallOK, Bound, Ran
  <2>3. Lives!handleOf(ops[p].id)' = Lives!handleOf(ops[p].id)
    <3>1. CASE UNCHANGED <<gen, roster>> BY <3>1, <2>1 DEF Lives!handleOf
    <3>2. ASSUME NEW g, Born(g, ops[o].id), c.g = g, Lives!handleOf(ops[o].id) = 0 
          PROVE  Lives!handleOf(ops[p].id)' = Lives!handleOf(ops[p].id)
      <4>1. gen[g].mach = "none" /\ g \in Gens BY <3>2 DEF Born
      <4>2. gen[ops[p].g].mach # "none"
        <5>1. CallOK(ops[p]) BY <1>1 DEF CallsInv
        <5> QED BY <2>1, <5>1 DEF CallOK, Bound
      <4> QED BY <1>4, <2>1, <2>2, <3>2, <4>1, <4>2
    <3> QED BY <3>1, <3>2
  <2>4. Holds(retired, ops[p].id) \/ Evicting(ops[p].id) \/ Back(ops[p].id) BY <1>1, <1>2, <2>1, <2>3 DEF KnownOK
  <2>5. CASE Back(ops[p].id)
    <3>1. PICK q \in Ops : ops[q].id = ops[p].id /\ ops[q].pc \in {"run", "ended"} BY <2>5 DEF Back
    <3>2. ops'[q] = ops[q] BY <1>3, <3>1
    <3> QED BY <1>2, <2>1, <3>1, <3>2 DEF Back
  <2>6. CASE Evicting(ops[p].id) BY <2>1, <2>3, <2>6 DEF Evicting
  <2> QED BY <2>1, <2>4, <2>5, <2>6
<1>7. \A id \in Ids : Excused(id) => Excused(id)'
  <2> SUFFICES ASSUME NEW id \in Ids, Excused(id) PROVE Excused(id)' OBVIOUS
  <2>1. CASE id \in shut BY <2>1 DEF Excused
  <2>2. CASE Lives!handleOf(id)' = Lives!handleOf(id) /\ Active(id)
    <3>1. PICK q \in Ops : \/ ops[q].id = id /\ ops[q].pc \in {"handle", "target"}
                           \/ ops[q].g = Lives!handleOf(id) /\ ops[q].pc \in {"link", "launch", "run", "ended"}
      BY <2>2 DEF Active
    <3>2. ops'[q] = ops[q] BY <1>3, <3>1
    <3>3. Active(id)' BY <1>2, <2>2, <3>1, <3>2 DEF Active
    <3> QED BY <3>3 DEF Excused
  <2>3. CASE Lives!handleOf(id)' = Lives!handleOf(id) /\ Lives!handleOf(id) = 0 BY <2>3 DEF Excused
  <2>4. CASE c.g = Lives!handleOf(id)' /\ c.pc = "link"
    <3>1. Active(id)' BY <1>2, <1>3, <2>4 DEF Active
    <3> QED BY <3>1 DEF Excused
  <2>5. CASE id \in ev.putOff BY <2>5 DEF Excused
  <2> QED BY <1>4, <2>1, <2>2, <2>3, <2>4, <2>5 DEF Excused
<1>8. OverflowOK'
  <2>1. Once(retired) /\ Len(retired) <= Len(retired) BY <1>1 DEF CacheInv, Once
  <2> QED BY <1>1, <1>7, <2>1, OverflowKept
<1> QED BY <1>5, <1>6, <1>8 DEF AllInv

LEMMA MoveExcuses ==
  ASSUME AllInv, LivesStill, NEW o \in Ops, NEW c, ops' = [ops EXCEPT ![o] = c], Call(c), c.id = ops[o].id, Move(o, c),
         passes' = passes, Straight, NEW id \in Ids, Excused(id)
  PROVE  Excused(id)'
<1>1. LivesInv /\ CallsInv BY DEF AllInv
<1>2. Ops' = Ops /\ Lives!handleOf(id)' = Lives!handleOf(id) /\ shut' = shut /\ ev' = ev
  BY DEF Ops, Lives!Ops, LivesStill, Lives!handleOf
<1>3. ops'[o] = c /\ \A p \in Ops : p # o => ops'[p] = ops[p] BY <1>1, OneCall DEF CallsInv
<1> HIDE DEF Ops
<1>4. CASE id \in shut \/ Lives!handleOf(id) = 0 \/ id \in ev.putOff BY <1>2, <1>4 DEF Excused
<1>5. CASE Lives!handleOf(id) # 0 /\ id \notin shut /\ id \notin ev.putOff
  <2> DEFINE h == Lives!handleOf(id)
             Uses(p) == \/ ops'[p].id = id /\ ops'[p].pc \in {"handle", "target"}
                        \/ ops'[p].g = h /\ ops'[p].pc \in {"link", "launch", "run", "ended"}
  <2>0. ASSUME \E p \in Ops : Uses(p) PROVE Excused(id)' BY <1>2, <2>0 DEF Excused, Active
  <2> SUFFICES \E p \in Ops : Uses(p) BY <2>0
  <2> HIDE DEF Uses
  <2>1. h \in Gens /\ gen[h].id = id /\ ~gen[h].closing BY <1>1, <1>5, HandleIs
  <2> HIDE DEF h
  <2>2. PICK q \in Ops : \/ ops[q].id = id /\ ops[q].pc \in {"handle", "target"}
                         \/ ops[q].g = h /\ ops[q].pc \in {"link", "launch", "run", "ended"}
    BY <1>5 DEF Excused, Active, h
  <2>3. CASE q # o BY <1>3, <2>2, <2>3 DEF Uses
  <2>4. CASE q = o /\ ops[o].id = id /\ ops[o].pc = "handle"
    <3>1. c.pc = "target" \/ (c.pc = "failed" /\ (h = 0 \/ Lives!Running(h))) BY <2>4 DEF Move, h
    <3>2. CASE c.pc = "target" BY <1>3, <2>4, <3>2 DEF Uses
    <3>3. CASE Lives!Running(h)
      <4>1. PICK p \in Ops : ops[p].g = h /\ ops[p].pc = "run" BY <3>3 DEF Lives!Running, Ops
      <4>2. p # o BY <2>4, <4>1
      <4>3. Uses(p) BY <1>3, <4>1, <4>2 DEF Uses
      <4> QED BY <4>3
    <3>4. h # 0 BY <1>5 DEF h
    <3> QED BY <3>1, <3>2, <3>3, <3>4
  <2>5. CASE q = o /\ ops[o].id = id /\ ops[o].pc = "target"
    <3>1. c.g = h /\ c.pc = IF c.g = 0 THEN "failed" ELSE "launch" BY <2>5 DEF Move, h
    <3>2. h # 0 BY <1>5 DEF h
    <3> QED BY <1>3, <3>1, <3>2 DEF Uses
  <2>6. CASE q = o /\ ops[o].g = h /\ ops[o].pc = "link"
    <3>1. ops[o].id = id
      <4>1. CallOK(ops[o]) BY <1>1 DEF CallsInv
      <4> QED BY <2>1, <2>6, <4>1 DEF CallOK, Bound
    <3>2. c.pc = "handle" BY <2>6, <3>1 DEF Move, h
    <3> QED BY <1>3, <3>1, <3>2 DEF Uses
  <2>7. CASE q = o /\ ops[o].g = h /\ ops[o].pc = "launch"
    <3>1. CASE c.pc = "run"
      <4>1. c.g = h BY <2>7, <3>1 DEF Move
      <4> QED BY <1>3, <3>1, <4>1 DEF Uses
    <3>2. CASE c.pc # "run"
      <4>1. gen[h].mach # "ready" BY <2>1, <2>7, <3>2 DEF Move
      <4>2. PICK p \in Ops : ops[p].g = h /\ ops[p].pc = "link" BY <1>1, <1>5, <4>1, UnlinkedIsActive DEF h
      <4>3. p # o BY <2>7, <4>2
      <4>4. Uses(p) BY <1>3, <4>2, <4>3 DEF Uses
      <4> QED BY <4>4
    <3> QED BY <3>1, <3>2
  <2>8. CASE q = o /\ ops[o].g = h /\ ops[o].pc = "run"
    <3>1. c.pc = "ended" /\ c.g = h BY <2>8 DEF Move
    <3> QED BY <1>3, <3>1 DEF Uses
  <2>9. CASE q = o /\ ops[o].pc = "ended"
    <3>1. passes' = passes + 1 BY <2>9 DEF Move
    <3>2. passes \in Nat BY DEF AllInv, CacheInv
    <3> QED BY <3>1, <3>2
  <2> QED BY <2>2, <2>3, <2>4, <2>5, <2>6, <2>7, <2>8, <2>9
<1> QED BY <1>4, <1>5

LEMMA MovesKeepAll ==
  ASSUME AllInv, LivesStill, NEW o \in Ops, NEW c, ops' = [ops EXCEPT ![o] = c], Call(c), c.id = ops[o].id, Move(o, c)
  PROVE  AllInv'
<1>1. LivesInv /\ CallsInv /\ CacheInv /\ KnownOK /\ OverflowOK BY DEF AllInv
<1>2. LivesInv' /\ CallsInv' BY <1>1, LivesInvStill, MovesKeepCalls DEF LivesStill
<1>3. Ops' = Ops /\ (\A id : Lives!handleOf(id)' = Lives!handleOf(id)) /\ odd' = odd /\ ev' = ev
      /\ (Orderly' <=> Orderly) /\ (Untroubled' <=> Untroubled)
  BY DEF Ops, Lives!Ops, LivesStill, Lives!handleOf, Orderly, Untroubled
<1>4. ops'[o] = c /\ \A p \in Ops : p # o => ops'[p] = ops[p] BY <1>1, OneCall DEF CallsInv
<1> HIDE DEF Ops
<1> DEFINE id == ops[o].id
<1>5. Once(retired) /\ Len(retired) \in Nat /\ passes \in Nat BY <1>1 DEF CacheInv, Once
<1>6. CASE ops[o].pc # "ended"
  <2>1. /\ passes' = passes
        /\ retired' = retired \/ (retired' = Lives!Without(id) /\ c.pc = "run")
        /\ ops[o].pc = "run" => c.pc = "ended"
        /\ c.pc # "done"
    BY <1>6 DEF Move, Still
  <2>2. /\ Once(retired') /\ Len(retired') <= Len(retired) /\ Among(retired', retired)
        /\ \A i : Holds(retired', i) => Holds(retired, i)
        /\ \A i : Holds(retired, i) => Holds(retired', i) \/ (i = id /\ c.pc = "run")
    <3>1. CASE retired' = retired BY <1>5, <3>1 DEF Among
    <3>2. CASE retired' = Lives!Without(id) /\ c.pc = "run"
      <4>1. /\ Once(retired') /\ Len(retired') <= Len(retired) /\ Among(retired', retired)
            /\ \A i : Holds(retired', i) <=> Holds(retired, i) /\ i # id
        BY <1>5, <3>2, WithoutFacts
      <4> QED BY <3>2, <4>1
    <3> QED BY <2>1, <3>1, <3>2
  <2>3. CacheInv' BY <1>1, <1>3, <1>5, <2>1, <2>2, CacheKept DEF Among
  <2>4. KnownOK'
    <3> SUFFICES ASSUME Orderly, NEW p \in Ops, ops'[p].pc = "done", Lives!handleOf(ops'[p].id) = ops'[p].g
                 PROVE  Holds(retired', ops'[p].id) \/ Evicting(ops'[p].id) \/ Back(ops[p].id)'
      BY <1>3 DEF KnownOK, Holds, Evicting
    <3>1. p # o /\ ops'[p] = ops[p] BY <1>4, <2>1
    <3>2. Holds(retired, ops[p].id) \/ Evicting(ops[p].id) \/ Back(ops[p].id) BY <1>1, <3>1 DEF KnownOK
    <3>3. CASE ops[p].id = id /\ c.pc \in {"run", "ended"} BY <1>3, <1>4, <3>1, <3>3 DEF Back
    <3>4. CASE ~(ops[p].id = id /\ c.pc \in {"run", "ended"})
      <4>1. CASE Holds(retired, ops[p].id) BY <2>2, <3>1, <3>4, <4>1
      <4>2. CASE Back(ops[p].id)
        <5>1. PICK q \in Ops : ops[q].id = ops[p].id /\ ops[q].pc \in {"run", "ended"} BY <4>2 DEF Back
        <5>2. q # o BY <1>6, <2>1, <3>4, <5>1
        <5> QED BY <1>3, <1>4, <3>1, <5>1, <5>2 DEF Back
      <4> QED BY <3>1, <3>2, <4>1, <4>2
    <3> QED BY <3>3, <3>4
  <2>5. ASSUME NEW i \in Ids, Untroubled', Excused(i) PROVE Excused(i)'
    <3>1. Straight BY <1>3, <2>5 DEF Untroubled, Straight
    <3> QED BY <2>1, <2>5, <3>1, MoveExcuses
  <2>6. OverflowOK' BY <1>1, <1>3, <2>1, <2>2, <2>5, OverflowKept
  <2> QED BY <1>2, <2>3, <2>4, <2>6 DEF AllInv
<1>7. CASE ops[o].pc = "ended"
  <2> DEFINE e == [id |-> id, tries |-> 0]
  <2>1. /\ passes' = passes + 1 /\ c.pc = "done" /\ retired' = Append(Lives!Without(id), e) BY <1>7 DEF Move
  <2>2. e \in Entries
    <3>1. CallOK(ops[o]) BY <1>1 DEF CallsInv
    <3>2. MaxAttempts \in Nat BY LivesAssumption
    <3> QED BY <1>7, <3>1, <3>2 DEF CallOK, Entries
  <2>3. /\ Once(Lives!Without(id)) /\ Among(Lives!Without(id), retired)
        /\ \A i : Holds(Lives!Without(id), i) <=> Holds(retired, i) /\ i # id
    BY <1>5, WithoutFacts
  <2>4. e.id = id /\ e.tries = 0 OBVIOUS
  <2> HIDE DEF e
  <2>5. /\ Once(retired')
        /\ \A i \in DOMAIN retired' : retired'[i] = e \/ \E j \in DOMAIN Lives!Without(id) : retired'[i] = Lives!Without(id)[j]
        /\ \A i : Holds(retired', i) <=> Holds(Lives!Without(id), i) \/ i = id
    <3>1. PICK w : w = Lives!Without(id) OBVIOUS
    <3>2. Once(w) /\ ~Holds(w, e.id) BY <2>3, <2>4, <3>1
    <3>3. /\ Once(retired') /\ (\A i \in DOMAIN retired' : retired'[i] = e \/ \E j \in DOMAIN w : retired'[i] = w[j])
          /\ \A i : Holds(retired', i) <=> Holds(w, i) \/ i = e.id
      <4>1. Once(w) /\ ~Holds(w, e.id) /\ e \in Entries /\ retired' = Append(w, e) BY <2>1, <2>2, <3>1, <3>2
      <4>2. Once(retired') BY ONLY <4>1, EntryComes
      <4>3. \A i \in DOMAIN retired' : retired'[i] = e \/ \E j \in DOMAIN w : retired'[i] = w[j] BY ONLY <4>1, EntryComes
      <4>4. \A i : Holds(retired', i) <=> Holds(w, i) \/ i = e.id BY ONLY <4>1, EntryComes
      <4> QED BY <4>2, <4>3, <4>4
    <3> QED BY <2>4, <3>1, <3>3
  <2>6. \A i \in DOMAIN retired' : retired'[i].tries = 0 \/ \E j \in DOMAIN retired : retired'[i] = retired[j]
    BY <2>3, <2>4, <2>5 DEF Among
  <2>7. CacheInv' BY <1>1, <1>3, <1>5, <2>1, <2>5, <2>6, CacheKept
  <2>8. KnownOK'
    <3> SUFFICES ASSUME Orderly, NEW p \in Ops, ops'[p].pc = "done", Lives!handleOf(ops'[p].id) = ops'[p].g
                 PROVE  Holds(retired', ops'[p].id) \/ Evicting(ops'[p].id) \/ Back(ops[p].id)'
      BY <1>3 DEF KnownOK, Holds, Evicting
    <3>1. CASE ops'[p].id = id BY <2>5, <3>1
    <3>2. CASE ops'[p].id # id
      <4>1. p # o /\ ops'[p] = ops[p] BY <1>4, <3>2
      <4>2. Holds(retired, ops[p].id) \/ Evicting(ops[p].id) \/ Back(ops[p].id) BY <1>1, <4>1 DEF KnownOK
      <4>3. CASE Holds(retired, ops[p].id) BY <2>3, <2>5, <3>2, <4>1, <4>3
      <4>4. CASE Back(ops[p].id)
        <5>1. PICK q \in Ops : ops[q].id = ops[p].id /\ ops[q].pc \in {"run", "ended"} BY <4>4 DEF Back
        <5>2. q # o BY <3>2, <4>1, <5>1
        <5> QED BY <1>3, <1>4, <4>1, <5>1, <5>2 DEF Back
      <4> QED BY <4>1, <4>2, <4>3, <4>4
    <3> QED BY <3>1, <3>2
  <2>9. OverflowOK' BY <1>5, <2>1 DEF OverflowOK
  <2> QED BY <1>2, <2>7, <2>8, <2>9 DEF AllInv
<1> QED BY <1>6, <1>7

----------------------------------------------------------------------------
(* The steps of the cache, and of a closing session.                       *)

\* Nothing moves but the cache.
CacheOnly ==
  /\ UNCHANGED <<gen, roster, sess, creating, asks, ops, shut>>
  /\ odd' = odd \/ odd' = odd \cup {"flaky"}

LEMMA CacheOnlyFacts ==
  ASSUME LivesInv, CallsInv, CacheOnly
  PROVE  /\ LivesInv' /\ CallsInv' /\ Ages /\ odd \subseteq odd' /\ (Orderly' <=> Orderly) /\ (Untroubled' => Untroubled)
         /\ \A id \in Ids : /\ Lives!handleOf(id)' = Lives!handleOf(id)
                            /\ (ev.putOff \subseteq ev'.putOff /\ Excused(id) => Excused(id)') /\ (Back(id) => Back(id)')
<1>1. LivesInv' BY LivesInvStill DEF CacheOnly
<1>2. Ages BY DEF Ages, CacheOnly
<1>3. CallsInv' BY <1>2, CallsAge DEF CacheOnly
<1>4. odd \subseteq odd' /\ (Orderly' <=> Orderly) /\ (Untroubled' => Untroubled)
  BY DEF CacheOnly, Orderly, Untroubled
<1>5. Ops' = Ops BY DEF Ops, Lives!Ops
<1> HIDE DEF Ops
<1>6. \A id \in Ids : Lives!handleOf(id)' = Lives!handleOf(id) BY DEF Lives!handleOf, CacheOnly
<1>7. \A id \in Ids : ev.putOff \subseteq ev'.putOff /\ Excused(id) => Excused(id)' BY <1>2, ExcuseAges DEF CacheOnly
<1>8. \A id \in Ids : Back(id) => Back(id)' BY <1>5 DEF Back, CacheOnly
<1> QED BY <1>1, <1>2, <1>3, <1>4, <1>6, <1>7, <1>8

LEMMA StartPassKeeps ==
  ASSUME AllInv, Lives!StartPass PROVE AllInv'
<1>1. LivesInv /\ CallsInv /\ CacheInv /\ KnownOK BY DEF AllInv
<1>2. PICK e : e = [Lives!NoPass EXCEPT !.pc = "loop"] OBVIOUS
<1>3. /\ ev.pc = "idle" /\ passes > 0 /\ passes' = passes - 1 /\ ev' = e /\ retired' = retired /\ odd' = odd /\ CacheOnly
  BY <1>2 DEF Lives!StartPass, Lives!lvars, CacheOnly
<1>4. Pass(e) /\ e.pc = "loop" /\ e.tries = 0 /\ e.skipped = {} BY <1>2 DEF Lives!NoPass, Pass
<1>5. /\ LivesInv' /\ CallsInv' /\ (Orderly' <=> Orderly)
      /\ \A id \in Ids : Lives!handleOf(id)' = Lives!handleOf(id) /\ (Back(id) => Back(id)')
  BY <1>1, <1>3, CacheOnlyFacts
<1>6. CacheInv'
  <2>1. Once(retired)' /\ Pass(ev)' BY <1>1, <1>3, <1>4 DEF CacheInv, Once, Entries, Pass
  <2>2. passes' \in Nat BY <1>1, <1>3 DEF CacheInv
  <2> QED BY <1>1, <1>3, <1>4, <2>1, <2>2 DEF CacheInv
<1>7. \A id : ~Evicting(id) BY <1>3 DEF Evicting
<1>8. KnownOK'
  <2>1. Ages /\ odd \subseteq odd' /\ ops' = ops BY <1>1, <1>3, CacheOnlyFacts DEF CacheOnly
  <2> QED BY <1>1, <1>3, <1>7, <2>1, KnownKept
<1>9. OverflowOK' BY <1>3, <1>4 DEF OverflowOK
<1> QED BY <1>5, <1>6, <1>8, <1>9 DEF AllInv

LEMMA EndPassKeeps ==
  ASSUME AllInv, Lives!EndPass PROVE AllInv'
<1>1. LivesInv /\ CallsInv /\ CacheInv /\ KnownOK /\ OverflowOK BY DEF AllInv
<1>0. PICK e : e = [Lives!NoPass EXCEPT !.putOff = ev.putOff] OBVIOUS
<1>2. /\ ev.pc = "loop" /\ ev' = e /\ retired' = retired /\ passes' = passes /\ odd' = odd /\ CacheOnly
      /\ Len(retired) <= Capacity \/ Lives!Candidates = {}
  BY <1>0 DEF Lives!EndPass, Lives!lvars, Lives!cvars, CacheOnly
<1>3. Pass(e) /\ e.pc = "idle" /\ e.tries = 0 /\ e.skipped = {} /\ e.putOff = ev.putOff
  BY <1>0 DEF Lives!NoPass, Pass
<1>4. LivesInv' /\ CallsInv' /\ (Untroubled' => Untroubled) /\ \A id \in Ids : Excused(id) => Excused(id)'
  BY <1>1, <1>2, <1>3, CacheOnlyFacts
<1>5. CacheInv'
  <2>1. Once(retired)' /\ Pass(ev)' BY <1>1, <1>2, <1>3 DEF CacheInv, Once, Entries, Pass
  <2> QED BY <1>1, <1>2, <1>3, <2>1 DEF CacheInv
<1>6. \A id : ~Evicting(id) BY <1>2 DEF Evicting
<1>7. KnownOK'
  <2>1. Ages /\ odd \subseteq odd' /\ ops' = ops BY <1>1, <1>2, CacheOnlyFacts DEF CacheOnly
  <2> QED BY <1>1, <1>2, <1>6, <2>1, KnownKept
<1>8. OverflowOK'
  <2>1. ASSUME Untroubled', passes' = 0, Lives!Candidates = {}, NEW id \in Ids, Holds(retired, id) PROVE Excused(id)
    <3>1. PICK i \in DOMAIN retired : retired[i].id = id BY <2>1 DEF Holds
    <3>2. retired[i].tries = 0 BY <1>1, <1>2, <2>1, <3>1 DEF CacheInv, Untroubled
    <3>3. MaxAttempts > 0 BY LivesAssumption
    <3>4. id \in ev.skipped BY <2>1, <3>1, <3>2, <3>3 DEF Lives!Candidates
    <3> QED BY <1>1, <1>2, <1>4, <2>1, <3>4 DEF OverflowOK
  <2>2. ASSUME Untroubled', passes' = 0
        PROVE  Len(retired) <= Capacity \/ \A id \in Ids : Holds(retired, id) => Excused(id)'
    BY <1>2, <1>4, <2>1, <2>2
  <2>3. \A id : Holds(retired, id)' <=> Holds(retired, id) BY <1>2 DEF Holds
  <2> QED BY <1>2, <1>3, <2>2, <2>3 DEF OverflowOK
<1> QED BY <1>4, <1>5, <1>7, <1>8 DEF AllInv

LEMMA CandidateKeeps ==
  ASSUME AllInv, Lives!oldestCandidate PROVE AllInv'
<1>1. LivesInv /\ CallsInv /\ CacheInv /\ KnownOK /\ OverflowOK BY DEF AllInv
<1> DEFINE i == CHOOSE j \in Lives!Candidates : \A k \in Lives!Candidates : j <= k
<1>2. /\ ev.pc = "loop" /\ Lives!Candidates # {}
      /\ ev' = [ev EXCEPT !.pc = "evict", !.id = retired[i].id, !.tries = retired[i].tries]
      /\ retired' = Lives!RemoveAt(retired, i) /\ passes' = passes /\ odd' = odd /\ CacheOnly
  BY DEF Lives!oldestCandidate, Lives!lvars, CacheOnly
<1>3. i \in DOMAIN retired /\ retired[i].tries < MaxAttempts
  <2> DEFINE S == Lives!Candidates
  <2>1. S \in SUBSET Nat /\ S # {} BY <1>1, <1>2 DEF Lives!Candidates, CacheInv, Once
  <2> HIDE DEF S
  <2>2. \E x \in S : \A y \in S : ~ (<<y, x>> \in OpToRel(<, Nat)) BY <2>1, NatLessThanWellFounded, WFMin
  <2>3. PICK x \in S : \A y \in S : ~ (<<y, x>> \in OpToRel(<, Nat)) BY <2>2
  <2>4. \A y \in S : ~(y < x) BY <2>1, <2>3, Zenon DEF OpToRel
  <2>5. \A y \in S : x <= y BY <2>1, <2>4
  <2>6. i \in S BY <2>5 DEF S
  <2> QED BY <2>6 DEF S, Lives!Candidates
<1> HIDE DEF i
<1>4. retired[i] \in Entries BY <1>1, <1>3 DEF CacheInv, Once
<1>5. retired[i].id \in Ids /\ retired[i].tries \in Nat BY <1>4, LivesAssumption DEF Entries
<1>6. PICK e : e = [ev EXCEPT !.pc = "evict", !.id = retired[i].id, !.tries = retired[i].tries] OBVIOUS
<1>7. /\ Pass(e) /\ e.pc = "evict" /\ e.id = retired[i].id /\ e.tries = retired[i].tries /\ e.skipped = ev.skipped
      /\ ev' = e /\ e.putOff = ev.putOff
  BY <1>1, <1>2, <1>6 DEF CacheInv, Pass
<1>8. /\ Once(retired') /\ Len(retired') <= Len(retired) /\ Among(retired', retired)
      /\ \A id : Holds(retired', id) <=> Holds(retired, id) /\ id # retired[i].id
  BY <1>1, <1>2, <1>3, EntryLeaves DEF CacheInv
<1>9. /\ LivesInv' /\ CallsInv' /\ (Orderly' <=> Orderly)
      /\ \A id \in Ids : /\ Lives!handleOf(id)' = Lives!handleOf(id)
                         /\ (Excused(id) => Excused(id)') /\ (Back(id) => Back(id)')
  BY <1>1, <1>2, <1>7, CacheOnlyFacts
<1>10. CacheInv'
  <2>1. Once(retired)' /\ Pass(ev)' BY <1>7, <1>8 DEF Once, Entries, Pass
  <2>2. passes' \in Nat BY <1>1, <1>2 DEF CacheInv
  <2>3. "flaky" \notin odd' => ev'.tries = 0 /\ \A k \in DOMAIN retired' : retired'[k].tries = 0
    BY <1>1, <1>2, <1>3, <1>7, <1>8 DEF CacheInv, Among
  <2> QED BY <1>3, <1>5, <1>7, <2>1, <2>2, <2>3 DEF CacheInv
<1>11. KnownOK'
  <2>1. Ops' = Ops /\ ops' = ops BY <1>2 DEF Ops, Lives!Ops, CacheOnly
  <2> HIDE DEF Ops
  <2> SUFFICES ASSUME Orderly, NEW o \in Ops, ops[o].pc = "done", Lives!handleOf(ops[o].id)' = ops[o].g
               PROVE  Holds(retired', ops[o].id) \/ Evicting(ops[o].id)' \/ Back(ops[o].id)'
    BY <1>9, <2>1 DEF KnownOK, Holds
  <2>2. ops[o].id \in Ids
    <3>1. CallOK(ops[o]) BY <1>1 DEF CallsInv
    <3> QED BY <3>1 DEF CallOK
  <2>3. Holds(retired, ops[o].id) \/ Evicting(ops[o].id) \/ Back(ops[o].id)
    <3>1. Lives!handleOf(ops[o].id)' = Lives!handleOf(ops[o].id) BY <1>2 DEF CacheOnly, Lives!handleOf
    <3> QED BY <1>1, <3>1 DEF KnownOK
  <2>4. ~Evicting(ops[o].id) BY <1>2 DEF Evicting
  <2>5. CASE Holds(retired, ops[o].id)
    <3>1. CASE ops[o].id = retired[i].id BY <1>7, <2>1, <3>1 DEF Evicting
    <3>2. CASE ops[o].id # retired[i].id BY <1>8, <2>5, <3>2
    <3> QED BY <3>1, <3>2
  <2>6. CASE Back(ops[o].id)
    <3>1. Back(ops[o].id)' BY <2>1, <2>6 DEF Back
    <3> QED BY <3>1
  <2> QED BY <2>3, <2>4, <2>5, <2>6
<1>12. OverflowOK'
  <2>1. odd \subseteq odd' BY <1>2
  <2> QED BY <1>1, <1>2, <1>7, <1>8, <1>9, <2>1, OverflowKept
<1> QED BY <1>9, <1>10, <1>11, <1>12 DEF AllInv

\* What becomes of the pass and of the entries after an eviction.
PassedOn(x) ==
  /\ Pass(ev') /\ ev'.pc = "loop" /\ ev'.tries = ev.tries /\ ev.putOff \subseteq ev'.putOff
  /\ ev'.skipped = IF x \in {"removed", "missing"} THEN ev.skipped ELSE ev.skipped \cup {ev.id}
  /\ Once(retired')
  /\ \A id : Holds(retired, id) => Holds(retired', id)
  /\ \A id : Holds(retired', id) => Holds(retired, id) \/ (id = ev.id /\ x \notin {"removed", "missing"})
  /\ x \notin {"removed", "missing"} => Holds(retired', ev.id)
  /\ \A i \in DOMAIN retired' : \/ \E j \in DOMAIN retired : retired'[i] = retired[j]
                                \/ x # "timeout" /\ retired'[i].tries = ev.tries
                                \/ x = "timeout"

\* The subagent goes back to the map.
LEMMA GoesBack ==
  ASSUME CacheInv, ev.pc \in {"evict", "flush", "await"}, NEW x, x \notin {"removed", "missing"}, NEW e, ev' = e,
         Pass(e), e.pc = "loop", e.tries = ev.tries, e.skipped = ev.skipped \cup {ev.id}, ev.putOff \subseteq e.putOff,
         NEW n \in Nat, n = ev.tries \/ (x = "timeout" /\ n = ev.tries + 1),
         retired' = IF Lives!Known(ev.id) THEN retired ELSE Append(retired, [id |-> ev.id, tries |-> n])
  PROVE  PassedOn(x)
<1>1. Once(retired) /\ ev.id \in Ids /\ ev.tries \in Nat /\ ev.tries < MaxAttempts /\ MaxAttempts \in Nat
  BY LivesAssumption DEF CacheInv
<1>2. PICK m : m = [id |-> ev.id, tries |-> n] OBVIOUS
<1>3. retired' = IF Holds(retired, ev.id) THEN retired ELSE Append(retired, m) BY <1>2 DEF Lives!Known, Holds
<1>4. m \in Entries /\ m.id = ev.id /\ m.tries = n
  <2>1. m.id = ev.id /\ m.tries = n BY <1>2
  <2>2. n \in 0 .. MaxAttempts BY <1>1
  <2> QED BY <1>1, <1>2, <2>1, <2>2 DEF Entries
<1>5. CASE Holds(retired, ev.id) BY <1>1, <1>3, <1>5 DEF PassedOn
<1>6. CASE ~Holds(retired, ev.id)
  <2>1. Once(retired) /\ ~Holds(retired, m.id) /\ m \in Entries /\ retired' = Append(retired, m)
    BY <1>1, <1>3, <1>4, <1>6
  <2>2. Once(retired') BY ONLY <2>1, EntryComes
  <2>3. \A i \in DOMAIN retired' : retired'[i] = m \/ \E j \in DOMAIN retired : retired'[i] = retired[j]
    BY ONLY <2>1, EntryComes
  <2>4. \A id : Holds(retired', id) <=> Holds(retired, id) \/ id = m.id BY ONLY <2>1, EntryComes
  <2> QED BY <1>4, <2>2, <2>3, <2>4 DEF PassedOn
<1> QED BY <1>5, <1>6

LEMMA DeferFacts ==
  ASSUME CacheInv, ev.pc \in {"evict", "flush"}, NEW g, Lives!Defer(g)
  PROVE  PassedOn("deferred") /\ (g \in tasks => ev.id \in ev'.putOff)
<1>1. Pass(ev) /\ ev.tries \in Nat BY DEF CacheInv
<1>2. PICK put : put = IF g \in tasks THEN ev.putOff \cup {ev.id} ELSE ev.putOff OBVIOUS
<1>3. PICK e : e = [ev EXCEPT !.pc = "loop", !.skipped = ev.skipped \cup {ev.id}, !.putOff = put] OBVIOUS
<1>4. /\ ev' = e
      /\ retired' = IF Lives!Known(ev.id) THEN retired ELSE Append(retired, [id |-> ev.id, tries |-> ev.tries])
  BY <1>2, <1>3 DEF Lives!Defer
<1>5. Pass(e) /\ e.pc = "loop" /\ e.tries = ev.tries /\ e.skipped = ev.skipped \cup {ev.id} /\ e.putOff = put
  BY <1>1, <1>3 DEF Pass
<1>6. ev.putOff \subseteq put /\ (g \in tasks => ev.id \in put) BY <1>2
<1> QED BY <1>1, <1>4, <1>5, <1>6, GoesBack

LEMMA OutcomeFacts ==
  ASSUME CacheInv, ev.pc \in {"evict", "flush", "await"}, NEW x, Lives!Outcome(x)
  PROVE  PassedOn(x)
<1>1. Once(retired) /\ Pass(ev) /\ ev.tries \in Nat BY DEF CacheInv
<1>2. CASE x \in {"removed", "missing"}
  <2>1. PICK e : e = [ev EXCEPT !.pc = "loop"] OBVIOUS
  <2>2. ev' = e /\ retired' = retired BY <1>2, <2>1 DEF Lives!Outcome
  <2>3. Pass(e) /\ e.pc = "loop" /\ e.tries = ev.tries /\ e.skipped = ev.skipped /\ e.putOff = ev.putOff
    BY <1>1, <2>1 DEF Pass
  <2> QED BY <1>1, <1>2, <2>2, <2>3 DEF PassedOn
<1>3. CASE x \notin {"removed", "missing"}
  <2>1. PICK e : e = [ev EXCEPT !.pc = "loop", !.skipped = ev.skipped \cup {ev.id}] OBVIOUS
  <2>2. PICK n \in Nat : n = ev.tries + (IF x = "timeout" THEN 1 ELSE 0) BY <1>1
  <2>3. ev' = e /\ retired' = IF Lives!Known(ev.id) THEN retired ELSE Append(retired, [id |-> ev.id, tries |-> n])
    BY <1>3, <2>1, <2>2 DEF Lives!Outcome
  <2>4. Pass(e) /\ e.pc = "loop" /\ e.tries = ev.tries /\ e.skipped = ev.skipped \cup {ev.id} /\ e.putOff = ev.putOff
    BY <1>1, <2>1 DEF Pass
  <2>5. n = ev.tries \/ (x = "timeout" /\ n = ev.tries + 1) BY <1>1, <2>2
  <2> QED BY <1>3, <2>3, <2>4, <2>5, GoesBack
<1> QED BY <1>2, <1>3

\* An eviction that is over, for now: what went back to the map has its
\* excuse, and what did not is gone.
LEMMA PassOutcomeKeeps ==
  ASSUME AllInv, CacheOnly, passes' = passes, ev.pc \in {"evict", "flush", "await"}, NEW x, PassedOn(x),
         x = "timeout" => "flaky" \in odd',
         x \in {"removed", "missing"} \/ "flaky" \in odd' \/ Excused(ev.id) \/ ev.id \in ev'.putOff,
         x \in {"removed", "missing"} /\ Lives!handleOf(ev.id) # 0 => ~Evicting(ev.id)
  PROVE  AllInv'
<1>1. LivesInv /\ CallsInv /\ CacheInv /\ KnownOK /\ OverflowOK BY DEF AllInv
<1>2. /\ LivesInv' /\ CallsInv' /\ (Orderly' <=> Orderly) /\ (Untroubled' => Untroubled) /\ odd \subseteq odd'
      /\ \A id \in Ids : Lives!handleOf(id)' = Lives!handleOf(id) /\ (Excused(id) => Excused(id)')
  <2>1. ev.putOff \subseteq ev'.putOff BY DEF PassedOn
  <2> QED BY <1>1, <2>1, CacheOnlyFacts
<1>3. /\ Pass(ev') /\ ev'.pc = "loop" /\ ev'.tries = ev.tries
      /\ ev'.skipped = (IF x \in {"removed", "missing"} THEN ev.skipped ELSE ev.skipped \cup {ev.id})
      /\ Once(retired')
      /\ \A id : Holds(retired, id) => Holds(retired', id)
      /\ \A id : Holds(retired', id) => Holds(retired, id) \/ (id = ev.id /\ x \notin {"removed", "missing"})
      /\ x \notin {"removed", "missing"} => Holds(retired', ev.id)
      /\ \A i \in DOMAIN retired' : \/ \E j \in DOMAIN retired : retired'[i] = retired[j]
                                    \/ x # "timeout" /\ retired'[i].tries = ev.tries
                                    \/ x = "timeout"
  BY DEF PassedOn
<1>4. CacheInv'
  <2>1. Once(retired)' /\ Pass(ev)' BY <1>3 DEF Once, Entries, Pass
  <2>2. passes' \in Nat BY <1>1 DEF CacheInv
  <2>3. "flaky" \notin odd' => ev'.tries = 0 /\ \A k \in DOMAIN retired' : retired'[k].tries = 0
    BY <1>1, <1>2, <1>3 DEF CacheInv
  <2> QED BY <1>3, <2>1, <2>2, <2>3 DEF CacheInv
<1>5. KnownOK'
  <2>1. Ops' = Ops /\ ops' = ops BY DEF Ops, Lives!Ops, CacheOnly
  <2> HIDE DEF Ops
  <2> SUFFICES ASSUME Orderly, NEW o \in Ops, ops[o].pc = "done", Lives!handleOf(ops[o].id)' = ops[o].g
               PROVE  Holds(retired', ops[o].id) \/ Evicting(ops[o].id)' \/ Back(ops[o].id)'
    BY <1>2, <2>1 DEF KnownOK, Holds
  <2>2. ops[o].id \in Ids /\ ops[o].g # 0
    <3>1. CallOK(ops[o]) BY <1>1 DEF CallsInv
    <3> QED BY <3>1, NumbersOfGens DEF CallOK, Bound
  <2>3. Lives!handleOf(ops[o].id)' = Lives!handleOf(ops[o].id) BY DEF CacheOnly, Lives!handleOf
  <2>4. Holds(retired, ops[o].id) \/ Evicting(ops[o].id) \/ Back(ops[o].id) BY <1>1, <2>3 DEF KnownOK
  <2>5. CASE Holds(retired, ops[o].id) BY <1>3, <2>5
  <2>6. CASE Evicting(ops[o].id)
    <3>1. ev.id = ops[o].id BY <2>6 DEF Evicting
    <3>2. x \notin {"removed", "missing"} BY <2>2, <2>3, <2>6, <3>1
    <3> QED BY <1>3, <3>1, <3>2
  <2>7. CASE Back(ops[o].id)
    <3>1. Back(ops[o].id)' BY <2>1, <2>7 DEF Back
    <3> QED BY <3>1
  <2> QED BY <2>4, <2>5, <2>6, <2>7
<1>6. OverflowOK'
  <2> SUFFICES ASSUME Untroubled', passes = 0, NEW id \in Ids, id \in ev'.skipped, Holds(retired', id)
               PROVE  Excused(id)'
    BY <1>3 DEF OverflowOK, Holds
  <2>1. "flaky" \notin odd' /\ Untroubled BY <1>2 DEF Untroubled
  <2>2. CASE id = ev.id /\ x \notin {"removed", "missing"}
    <3>1. Excused(ev.id) => Excused(id)' BY <1>2, <2>2
    <3>2. ev.id \in ev'.putOff => Excused(id)' BY <2>2 DEF Excused
    <3> QED BY <2>1, <2>2, <3>1, <3>2
  <2>3. CASE ~(id = ev.id /\ x \notin {"removed", "missing"})
    <3>1. id \in ev.skipped /\ Holds(retired, id) BY <1>3, <2>3
    <3> QED BY <1>1, <1>2, <2>1, <3>1 DEF OverflowOK
  <2> QED BY <2>2, <2>3
<1> QED BY <1>2, <1>4, <1>5, <1>6 DEF AllInv

LEMMA BusyIsExcused ==
  ASSUME NEW id, Lives!busy(Lives!handleOf(id)) PROVE Excused(id) \/ Lives!handleOf(id) \in tasks
<1>1. CASE Lives!Prompted(Lives!handleOf(id))
  <2>1. PICK o \in Ops : ops[o].g = Lives!handleOf(id) /\ ops[o].pc \in {"launch", "run"} BY <1>1 DEF Lives!Prompted, Ops
  <2> QED BY <2>1 DEF Excused, Active
<1> QED BY <1>1 DEF Lives!busy

LEMMA EvictKeeps ==
  ASSUME AllInv, Lives!evict PROVE AllInv'
<1>1. LivesInv /\ CallsInv /\ CacheInv /\ KnownOK /\ OverflowOK BY DEF AllInv
<1> DEFINE g == Lives!handleOf(ev.id)
<1>2. ev.pc = "evict" /\ CacheOnly /\ passes' = passes /\ odd' = odd
  BY DEF Lives!evict, Lives!lvars, CacheOnly
<1>3. ev.id \in Ids BY <1>1, <1>2 DEF CacheInv
<1>4. CASE g = 0
  <2>1. PICK x : x = Lives!Gone(ev.id) OBVIOUS
  <2>2. Lives!Outcome(x) BY <1>4, <2>1 DEF Lives!evict
  <2>3. x \in {"closing", "missing"} BY <2>1 DEF Lives!Gone
  <2>4. Excused(ev.id) BY <1>4 DEF Excused
  <2>5. PassedOn(x) BY <1>1, <1>2, <2>2, OutcomeFacts
  <2> QED BY <1>2, <1>4, <2>3, <2>4, <2>5, PassOutcomeKeeps
<1>5. CASE g # 0 /\ Lives!busy(g)
  <2>1. Lives!Defer(g) BY <1>5 DEF Lives!evict
  <2>2. PassedOn("deferred") /\ (g \in tasks => ev.id \in ev'.putOff) BY <1>1, <1>2, <2>1, DeferFacts
  <2>3. Excused(ev.id) \/ g \in tasks BY <1>5, BusyIsExcused
  <2> QED BY <1>2, <2>2, <2>3, PassOutcomeKeeps
<1>6. CASE g # 0 /\ ~Lives!busy(g)
  <2> HIDE DEF g
  <2>1. PICK e : e = [ev EXCEPT !.pc = "flush", !.g = g] OBVIOUS
  <2>2. ev' = e /\ retired' = retired BY <1>6, <2>1 DEF Lives!evict, g
  <2>3. /\ Pass(e) /\ e.pc = "flush" /\ e.g = g /\ e.id = ev.id /\ e.tries = ev.tries /\ e.skipped = ev.skipped
        /\ e.putOff = ev.putOff
    BY <1>1, <2>1 DEF CacheInv, Pass
  <2>4. g \in Gens BY <1>1, <1>3, <1>6, HandleIs DEF g
  <2>5. /\ LivesInv' /\ CallsInv' /\ Ages /\ odd \subseteq odd' /\ ops' = ops
        /\ \A id \in Ids : Lives!handleOf(id)' = Lives!handleOf(id) /\ (Excused(id) => Excused(id)')
    BY <1>1, <1>2, <2>2, <2>3, CacheOnlyFacts DEF CacheOnly
  <2>6. CacheInv'
    <3>1. Once(retired)' /\ Pass(ev)' BY <1>1, <2>2, <2>3 DEF CacheInv, Once, Entries, Pass
    <3>2. Gens' = Gens BY DEF Gens, Lives!Gens
    <3> HIDE DEF Gens
    <3> QED BY <1>1, <1>2, <2>2, <2>3, <2>4, <3>1, <3>2 DEF CacheInv
  <2>7. ASSUME NEW id \in Ids, Evicting(id) PROVE Evicting(id)'
    <3>1. id = ev.id BY <2>7 DEF Evicting
    <3>2. Lives!handleOf(id)' = g BY <2>5, <3>1 DEF g
    <3> QED BY <2>2, <2>3, <3>1, <3>2 DEF Evicting
  <2>8. KnownOK' BY <1>1, <2>2, <2>5, <2>7, KnownKept
  <2>9. OverflowOK'
    <3>1. Once(retired') /\ Len(retired') <= Len(retired) BY <1>1, <2>2 DEF CacheInv, Once
    <3> QED BY <1>1, <1>2, <2>2, <2>3, <2>5, <3>1, OverflowKept
  <2> QED BY <2>5, <2>6, <2>8, <2>9 DEF AllInv
<1> QED BY <1>4, <1>5, <1>6

\* A removal takes the handle away: the id needs no other excuse.
LEMMA RemoveKeepsAll ==
  ASSUME AllInv, Lives!Settled, NEW id \in Ids, Lives!handleOf(id) # 0, Lives!remove(Lives!handleOf(id)),
         UNCHANGED <<roster, sess, creating, asks, ops, retired, passes>>,
         \/ ev' = ev
         \/ ev.pc = "flush" /\ ev.id = id /\ ev.g = Lives!handleOf(id) /\ ev' = [ev EXCEPT !.pc = "await"]
  PROVE  AllInv'
<1>1. LivesInv /\ CallsInv /\ CacheInv /\ KnownOK /\ OverflowOK BY DEF AllInv
<1> DEFINE g == Lives!handleOf(id)
<1>2. g = roster[id] /\ g \in Gens /\ ~gen[g].closing /\ gen[g].mach # "none" BY <1>1, HandleIs
<1> HIDE DEF g
<1>3. LivesInv' /\ Ages /\ gen'[g].closing BY <1>1, <1>2, RemoveKeeps, RemoveAges DEF g
<1>4. shut \subseteq shut' /\ odd \subseteq odd' /\ ("flaky" \in odd' <=> "flaky" \in odd) BY DEF Lives!remove
<1>5. CallsInv' BY <1>1, <1>3, CallsAge
<1>6. Lives!handleOf(id)' # Lives!handleOf(id)
  <2>1. Lives!handleOf(id)' = 0 BY <1>2, <1>3 DEF Lives!handleOf
  <2> QED BY <2>1
<1>7. \/ ev' = ev
      \/ /\ Pass(ev)' /\ ev'.pc = "await" /\ ev.pc = "flush" /\ ev'.id = ev.id /\ ev'.tries = ev.tries
         /\ ev'.skipped = ev.skipped /\ ev'.putOff = ev.putOff /\ ev.id = id
  <2>1. CASE ev' = ev BY <2>1
  <2>2. CASE ev.pc = "flush" /\ ev.id = id /\ ev' = [ev EXCEPT !.pc = "await"]
    <3>1. PICK e : e = [ev EXCEPT !.pc = "await"] OBVIOUS
    <3>2. /\ Pass(e) /\ e.pc = "await" /\ e.id = ev.id /\ e.tries = ev.tries /\ e.skipped = ev.skipped
          /\ e.putOff = ev.putOff
      BY <1>1, <3>1 DEF CacheInv, Pass
    <3> QED BY <2>2, <3>1, <3>2 DEF Pass
  <2> QED BY <2>1, <2>2
<1>8. Once(retired') /\ Len(retired') <= Len(retired) /\ passes' \in Nat BY <1>1 DEF CacheInv, Once
<1>9. CacheInv'
  <2>1. \A i \in DOMAIN retired' : retired'[i].tries = 0 \/ \E j \in DOMAIN retired : retired'[i] = retired[j] OBVIOUS
  <2> QED BY <1>1, <1>4, <1>7, <1>8, <2>1, CacheKept
<1>10. ASSUME NEW i \in Ids, Evicting(i), Lives!handleOf(i)' = Lives!handleOf(i) PROVE Evicting(i)'
  <2>1. i # id BY <1>6, <1>10
  <2>2. ev.id = i BY <1>10 DEF Evicting
  <2>3. ev' = ev BY <1>7, <2>1, <2>2
  <2> QED BY <1>10, <2>3 DEF Evicting
<1>11. KnownOK' BY <1>1, <1>3, <1>4, <1>10, KnownKept
<1>12. \A i \in Ids : Excused(i) => Excused(i)' BY <1>1, <1>3, <1>4, <1>7, ExcuseAges
<1>13. OverflowOK' BY <1>1, <1>4, <1>7, <1>8, <1>12, OverflowKept
<1> QED BY <1>3, <1>5, <1>9, <1>11, <1>13 DEF AllInv

LEMMA DrainKeepsAll ==
  ASSUME AllInv, Lives!Settled, NEW id \in Ids, Lives!Drain(id) PROVE AllInv'
<1>1. Lives!handleOf(id) # 0 /\ Lives!remove(roster[id]) BY DEF Lives!Drain
<1>2. Lives!handleOf(id) = roster[id] BY <1>1 DEF Lives!handleOf
<1>3. UNCHANGED <<roster, sess, creating, asks, ops, retired, passes, ev>> BY DEF Lives!Drain, Lives!lvars
<1> QED BY <1>1, <1>2, <1>3, RemoveKeepsAll

LEMMA FlushedKeepsAll ==
  ASSUME AllInv, Lives!Settled, Lives!Flushed PROVE AllInv'
<1> DEFINE h == Lives!handleOf(ev.id)
<1>1. ev.pc = "flush" /\ UNCHANGED <<roster, sess, creating, asks, ops, passes>> BY DEF Lives!Flushed, Lives!lvars
<1>2. ev.id \in Ids /\ ev.g \in Gens BY <1>1 DEF AllInv, CacheInv
<1>3. CASE Lives!Outcome("failed") /\ odd' = odd \cup {"flaky"} /\ UNCHANGED <<gen, shut>>
  <2>1. CacheOnly BY <1>1, <1>3 DEF CacheOnly
  <2>2. PassedOn("failed") BY <1>1, <1>3, OutcomeFacts DEF AllInv
  <2> QED BY <1>1, <1>3, <2>1, <2>2, PassOutcomeKeeps
<1>4. CASE h # ev.g /\ Lives!Outcome(Lives!Gone(ev.id)) /\ UNCHANGED <<gen, shut, odd>>
  <2>1. CacheOnly BY <1>1, <1>4 DEF CacheOnly
  <2>2. PICK x : x = Lives!Gone(ev.id) OBVIOUS
  <2>3. x = "missing" \/ (x = "closing" /\ Excused(ev.id)) BY <2>2 DEF Lives!Gone, Excused
  <2>4. ~Evicting(ev.id) BY <1>1, <1>4 DEF Evicting
  <2>5. PassedOn(x)
    <3>1. Lives!Outcome(x) BY <1>4, <2>2
    <3> QED BY <1>1, <3>1, OutcomeFacts DEF AllInv
  <2> QED BY <1>1, <2>1, <2>3, <2>4, <2>5, PassOutcomeKeeps
<1>5. CASE h = ev.g /\ Lives!busy(ev.g) /\ Lives!Defer(ev.g) /\ UNCHANGED <<gen, shut, odd>>
  <2>1. CacheOnly BY <1>1, <1>5 DEF CacheOnly
  <2>2. PassedOn("deferred") /\ (ev.g \in tasks => ev.id \in ev'.putOff) BY <1>1, <1>5, DeferFacts DEF AllInv
  <2>3. Excused(ev.id) \/ ev.g \in tasks BY <1>5, BusyIsExcused
  <2> QED BY <1>1, <1>5, <2>1, <2>2, <2>3, PassOutcomeKeeps
<1>6. CASE h = ev.g /\ Lives!remove(ev.g) /\ ev' = [ev EXCEPT !.pc = "await"] /\ retired' = retired
  <2>1. h # 0 BY <1>2, <1>6, NumbersOfGens
  <2> QED BY <1>1, <1>2, <1>6, <2>1, RemoveKeepsAll
<1> QED BY <1>3, <1>4, <1>5, <1>6 DEF Lives!Flushed

LEMMA EvictedKeepsAll ==
  ASSUME AllInv, Lives!Evicted PROVE AllInv'
<1>1. ev.pc = "await" /\ UNCHANGED <<gen, roster, sess, creating, asks, ops, shut, passes>>
  BY DEF Lives!Evicted, Lives!lvars
<1>2. ~Evicting(ev.id) BY <1>1 DEF Evicting
<1>3. CASE Lives!Outcome("removed") /\ UNCHANGED odd
  <2>1. CacheOnly BY <1>1, <1>3 DEF CacheOnly
  <2>2. PassedOn("removed") BY <1>1, <1>3, OutcomeFacts DEF AllInv
  <2> QED BY <1>1, <1>2, <1>3, <2>1, <2>2, PassOutcomeKeeps
<1>4. CASE (Lives!Outcome("failed") \/ Lives!Outcome("timeout")) /\ odd' = odd \cup {"flaky"}
  <2>1. CacheOnly BY <1>1, <1>4 DEF CacheOnly
  <2>2. PassedOn("failed") \/ PassedOn("timeout") BY <1>1, <1>4, OutcomeFacts DEF AllInv
  <2> QED BY <1>1, <1>2, <1>4, <2>1, <2>2, PassOutcomeKeeps
<1> QED BY <1>3, <1>4 DEF Lives!Evicted

LEMMA LivesNext ==
  ASSUME AllInv, Lives!Next \/ UNCHANGED Lives!vars PROVE AllInv'
<1>1. LivesInv /\ CallsInv BY DEF AllInv
<1>2. ASSUME NEW g \in Gens, Lives!RemovalOver(g) PROVE AllInv' BY <1>2, RemovalOverKeepsAll
<1>3. ASSUME NEW o \in Ops, Lives!create(o) PROVE AllInv'
  <2>1. /\ LivesInv' /\ CallsInv' /\ UNCHANGED <<retired, passes, shut, ev, odd>>
        /\ \E c : /\ Begins(o, c)
                  /\ \/ UNCHANGED <<gen, roster>>
                     \/ \E g : /\ Born(g, ops[o].id) /\ ops[o].id \in Ids /\ Lives!handleOf(ops[o].id) = 0
                               /\ c.pc = "link" /\ c.g = g
    BY <1>1, <1>3, CreateKeeps
  <2> QED BY <2>1, BeginningKeepsAll
<1>4. ASSUME NEW g \in Gens, Lives!Settled, Lives!GenStep(g) \/ Lives!BuildFails(g) PROVE AllInv'
  BY <1>4, GenStepKeepsAll
<1>5. ASSUME NEW o \in Ops, Lives!OpStep(o) PROVE AllInv'
  <2>1. /\ LivesStill
        /\ \E c : ops' = [ops EXCEPT ![o] = c] /\ Call(c) /\ c.id = ops[o].id /\ Move(o, c)
    BY <1>1, <1>5, OpStepMoves
  <2> QED BY <2>1, MovesKeepAll
<1>6. ASSUME NEW o \in Ops, NEW id \in Ids, Lives!Spawn(o, id) \/ Lives!Resume(o, id) PROVE AllInv'
  <2>1. CallsInv' /\ LivesStill /\ Still(o) /\ \E c : Begins(o, c) BY <1>1, <1>6, NewCallKeeps
  <2>2. LivesInv' BY <1>1, <2>1, LivesInvStill DEF LivesStill
  <2>3. UNCHANGED <<retired, passes, shut, ev, odd, gen, roster>> BY <2>1 DEF LivesStill, Still
  <2> QED BY <2>1, <2>2, <2>3, BeginningKeepsAll
<1>7. ASSUME NEW id \in Ids, Lives!Settled, Lives!Drain(id) PROVE AllInv' BY <1>7, DrainKeepsAll
<1>8. ASSUME Lives!Settled, Lives!CacheStep PROVE AllInv'
  BY <1>8, StartPassKeeps, EndPassKeeps, CandidateKeeps, EvictKeeps, FlushedKeepsAll, EvictedKeepsAll DEF Lives!CacheStep
<1>9. ASSUME UNCHANGED Lives!vars PROVE AllInv'
  <2>1. UNCHANGED <<gen, roster, sess, creating, meta, asks, ops, retired, shut, passes, ev, drains, odd>>
    BY <1>9 DEF Lives!vars, Lives!lvars, Lives!cvars
  <2>2. Ages BY <2>1 DEF Ages
  <2>3. LivesInv' BY <1>1, <2>1, LivesInvStill
  <2> QED BY <2>1, <2>2, <2>3, AgeingKeepsAll
<1>10. ASSUME Lives!AgentStep PROVE AllInv'
  BY <1>2, <1>3, <1>4, <1>5, <1>6, <1>7, <1>8, <1>10 DEF Lives!AgentStep, Gens, Ops
<1>11. ASSUME NEW o \in Ops, Lives!LeavesTask(o) PROVE AllInv'
  BY <1>5, <1>11 DEF Lives!LeavesTask, Lives!OpStep
<1>12. ASSUME NEW g \in Gens, Lives!TaskEnds(g) PROVE AllInv'
  <2>1. UNCHANGED <<gen, roster, sess, creating, meta, asks, ops, retired, shut, passes, ev, drains, odd>>
    BY <1>12 DEF Lives!TaskEnds, Lives!lvars, Lives!cvars
  <2>2. Ages BY <2>1 DEF Ages
  <2>3. LivesInv' BY <1>1, <2>1, LivesInvStill
  <2> QED BY <2>1, <2>2, <2>3, AgeingKeepsAll
<1> QED BY <1>9, <1>10, <1>11, <1>12 DEF Lives!Next, Gens, Ops

\* The tasks are those of generations, and only subagents are put off.
TasksIn == tasks \subseteq Gens /\ ev.putOff \subseteq Ids

LEMMA TasksStay ==
  ASSUME AllInv, TasksIn, Lives!Next \/ UNCHANGED Lives!vars PROVE TasksIn'
<1>1. Gens' = Gens BY DEF Gens, Lives!Gens
<1>2. CacheInv /\ Pass(ev) BY DEF AllInv, CacheInv
<1>3. ASSUME Lives!AgentStep PROVE ev' = ev \/ Lives!CacheStep
  BY <1>3 DEF Lives!AgentStep, Lives!RemovalOver, Lives!create, Lives!GenStep, Lives!BuildFails, Lives!OpStep, Lives!Spawn,
              Lives!Resume, Lives!Drain, Lives!Sealed, Lives!Registered, Lives!Restored, Lives!Built, Lives!BuildFailed,
              Lives!ScopeDisposed, Lives!Quiesced, Lives!StopAgent, Lives!Poll, Lives!awaitLinked, Lives!resolveResumeTarget,
              Lives!Rebuilt, Lives!run, Lives!Launched, Lives!LaunchFails, Lives!TurnEnds, Lives!Finished
<1>4. ASSUME NEW x, ev' = [ev EXCEPT !.pc = x] PROVE ev'.putOff = ev.putOff BY <1>2, <1>4 DEF Pass
<1>5. ASSUME NEW x, Lives!Outcome(x) PROVE ev'.putOff = ev.putOff BY <1>2, <1>5 DEF Lives!Outcome, Pass
<1>6. ASSUME NEW g, ev.pc \in {"evict", "flush"}, Lives!Defer(g) PROVE ev'.putOff \subseteq ev.putOff \cup {ev.id}
  BY <1>2, <1>6 DEF Lives!Defer, Pass
<1>7. ev.pc \in {"evict", "flush"} => ev.id \in Ids BY <1>2 DEF CacheInv
<1>8. ASSUME Lives!CacheStep PROVE ev'.putOff \subseteq ev.putOff \cup Ids
  <2>1. CASE Lives!StartPass BY <2>1 DEF Lives!StartPass, Lives!NoPass
  <2>2. CASE Lives!EndPass BY <2>2 DEF Lives!EndPass, Lives!NoPass
  <2>3. CASE Lives!oldestCandidate BY <1>2, <2>3 DEF Lives!oldestCandidate, Pass
  <2>4. CASE Lives!evict
    <3>1. CASE ev' = [ev EXCEPT !.pc = "flush", !.g = Lives!handleOf(ev.id)] BY <1>2, <3>1 DEF Pass
    <3> QED BY <1>5, <1>6, <1>7, <2>4, <3>1 DEF Lives!evict
  <2>5. CASE Lives!Flushed BY <1>4, <1>5, <1>6, <1>7, <2>5 DEF Lives!Flushed
  <2>6. CASE Lives!Evicted BY <1>5, <2>6 DEF Lives!Evicted
  <2> QED BY <1>8, <2>1, <2>2, <2>3, <2>4, <2>5, <2>6 DEF Lives!CacheStep
<1>9. CASE Lives!AgentStep /\ Lives!TasksGo BY <1>1, <1>3, <1>8, <1>9 DEF Lives!TasksGo, TasksIn
<1>10. ASSUME NEW o \in Ops, Lives!LeavesTask(o) PROVE TasksIn'
  <2>1. ops[o].g \in Gens
    <3>1. CallOK(ops[o]) /\ ops[o].pc = "run" BY <1>10 DEF AllInv, CallsInv, Lives!LeavesTask, Lives!TurnEnds
    <3> QED BY <3>1 DEF CallOK, Bound
  <2> QED BY <1>1, <1>10, <2>1 DEF Lives!LeavesTask, Lives!TurnEnds, TasksIn
<1>11. ASSUME NEW g \in Gens, Lives!TaskEnds(g) PROVE TasksIn' BY <1>1, <1>11 DEF Lives!TaskEnds, TasksIn
<1>12. CASE UNCHANGED Lives!vars BY <1>1, <1>12 DEF Lives!vars, TasksIn
<1> QED BY <1>9, <1>10, <1>11, <1>12 DEF Lives!Next, Gens, Ops
----------------------------------------------------------------------------
(* What the invariant says of the property.                                *)

LEMMA LivesBegin == ASSUME Lives!Init PROVE AllInv /\ TasksIn
<1> DEFINE N == Lives!NoGen
           C == Lives!NoOp
           P == Lives!NoPass
<1>1. gen = [g \in Gens |-> N] /\ ops = [o \in Ops |-> C] /\ ev = P /\ retired = << >> /\ shut = {} /\ passes = 0 /\ odd = {}
      /\ roster = Lives!None /\ sess = Lives!None /\ asks = Lives!None /\ creating = Lives!None
  BY DEF Lives!Init, Gens, Ops
<1>2. Generation(N) /\ N.mach = "none" /\ N.build = "none" /\ N.scope = "none" /\ N.closing = FALSE /\ N.removal = "none"
      /\ ~N.created /\ N.closes = 0
  BY DEF Lives!NoGen, Generation
<1>3. Call(C) /\ C.pc = "idle" /\ C.g = 0 BY DEF Lives!NoOp, Call
<1>4. Pass(P) /\ P.pc = "idle" /\ P.tries = 0 /\ P.skipped = {} BY DEF Lives!NoPass, Pass
<1>5. /\ gen = [g \in Gens |-> gen[g]] /\ \A g \in Gens : gen[g] = N
      /\ ops = [o \in Ops |-> ops[o]] /\ \A o \in Ops : ops[o] = C
  BY <1>1
<1>6. \A id \in Ids : roster[id] = 0 /\ sess[id] = 0 /\ asks[id] = 0 /\ creating[id] = 0 BY <1>1 DEF Lives!None
<1>7. Lives!None \in [Ids -> {0}] BY DEF Lives!None
<1> HIDE DEF N, C, P, Gens, Ops
<1>8. LivesShapes BY <1>1, <1>2, <1>5, <1>7 DEF LivesShapes, Refs
<1>9. LifeOK(N) /\ OrderlyOK(N) /\ StraightOK(N)
  <2>1. N = Lives!NoGen BY DEF N
  <2>2. N.closes = (IF N.removal = "over" THEN 1 ELSE 0) + (IF N.build = "failed" /\ N.created THEN 1 ELSE 0)
    BY <1>2
  <2>3. N.closing = (N.removal # "none" \/ N.build \in {"failing", "failed"}) BY <1>2
  <2>4. LifeOK(N) BY <1>2, <2>1, <2>2, <2>3, Zenon DEF LifeOK, Lives!Building, Alive
  <2>5. OrderlyOK(N) /\ StraightOK(N) BY <1>2 DEF OrderlyOK, StraightOK, Lives!Building
  <2> QED BY <2>4, <2>5
<1>10. LivesOK BY <1>1, <1>5, <1>9 DEF LivesOK, Straight
<1>11. TablesOK /\ ShutOK /\ AsksOK BY <1>1, <1>2, <1>5, <1>6 DEF TablesOK, ShutOK, AsksOK, Alive
<1>12. LivesInv BY <1>8, <1>10, <1>11 DEF LivesInv
<1>13. CallsInv
  <2>1. CallShapes BY <1>1, <1>3, <1>5, <1>7 DEF CallShapes
  <2>2. \A o \in Ops : CallOK(ops[o]) BY <1>3, <1>5 DEF CallOK, Bound, Ran
  <2>3. JoinsOK BY <1>2, <1>5, <1>6 DEF JoinsOK
  <2> QED BY <2>1, <2>2, <2>3 DEF CallsInv
<1>14. Once(retired) /\ DOMAIN retired = {} /\ Len(retired) = 0 BY <1>1 DEF Once
<1>15. CacheInv BY <1>1, <1>4, <1>14 DEF CacheInv
<1>16. KnownOK BY <1>3, <1>5 DEF KnownOK
<1>17. OverflowOK BY <1>14 DEF OverflowOK, Holds
<1>18. TasksIn
  <2>1. tasks = {} /\ ev.putOff = {} BY DEF Lives!Init, Lives!NoPass
  <2> QED BY <2>1 DEF TasksIn
<1> QED BY <1>12, <1>13, <1>15, <1>16, <1>17, <1>18 DEF AllInv

LEMMA TypesHold == ASSUME AllInv, TasksIn PROVE Lives!TypeOK
<1>1. \A id \in Ids : /\ roster[id] # 0 => gen[roster[id]].id = id
                      /\ sess[id] # 0 => gen[sess[id]].id = id /\ gen[sess[id]].mach \in {"linking", "ready", "closing"}
  BY DEF AllInv, LivesInv, TablesOK, Alive
<1>2. \A id \in Ids : creating[id] # 0 => ops[creating[id]].id = id /\ ops[creating[id]].pc = "link"
  BY DEF AllInv, CallsInv, JoinsOK
<1>3. \A i, j \in DOMAIN retired : retired[i].id = retired[j].id => i = j BY DEF AllInv, CacheInv, Once
<1>4. \A i \in DOMAIN retired : retired[i].tries \in 0 .. MaxAttempts
  <2>1. retired \in Seq(Entries) BY DEF AllInv, CacheInv, Once
  <2>2. \A i \in DOMAIN retired : retired[i] \in Entries BY <2>1
  <2> QED BY <2>2 DEF Entries
<1>5. odd \subseteq {"orphan", "stray", "flaky"} BY DEF AllInv, LivesInv, LivesShapes
<1> QED BY <1>1, <1>2, <1>3, <1>4, <1>5 DEF Lives!TypeOK, TasksIn, Gens

LEMMA OneWriterHolds == ASSUME AllInv PROVE Lives!OneWriter
<1> SUFFICES ASSUME "orphan" \notin odd, NEW g \in Gens, NEW h \in Gens, gen[g].id = gen[h].id,
                    {gen[g].scope, gen[h].scope} \subseteq {"up", "going"}
             PROVE  g = h
  BY DEF Lives!OneWriter, Gens
<1>1. OrderlyOK(gen[g]) /\ OrderlyOK(gen[h]) BY DEF AllInv, LivesInv, LivesOK, Orderly
<1>2. gen[g].mach \in Alive /\ gen[h].mach \in Alive BY <1>1 DEF OrderlyOK
<1> QED BY <1>2 DEF AllInv, LivesInv, TablesOK

LEMMA AttachedHolds == ASSUME AllInv PROVE Lives!Attached
<1> SUFFICES ASSUME "orphan" \notin odd, NEW id \in Ids, Lives!handleOf(id) # 0, gen[Lives!handleOf(id)].mach = "ready"
             PROVE  asks[id] = Lives!handleOf(id)
  BY DEF Lives!Attached
<1>1. Lives!handleOf(id) \in Gens /\ gen[Lives!handleOf(id)].id = id BY HandleIs DEF AllInv
<1>2. \A g \in Gens : gen[g].mach = "ready" => asks[gen[g].id] = g BY DEF AllInv, LivesInv, AsksOK, Orderly
<1> QED BY <1>1, <1>2

LEMMA ClosedOnceHolds == ASSUME AllInv PROVE Lives!ClosedOnce
<1> SUFFICES ASSUME "orphan" \notin odd, NEW g \in Gens
             PROVE  gen[g].closes <= 1 /\ (gen[g].closes = 1 => gen[g].created)
  BY DEF Lives!ClosedOnce, Gens
<1>1. LifeOK(gen[g]) /\ OrderlyOK(gen[g]) BY DEF AllInv, LivesInv, LivesOK, Orderly
<1> QED BY <1>1 DEF LifeOK, OrderlyOK

LEMMA NothingLeftHolds == ASSUME AllInv PROVE Lives!NothingLeft
<1> SUFFICES ASSUME Lives!Quiet, "stray" \notin odd
             PROVE  /\ roster = sess /\ shut = {} /\ creating = Lives!None
                    /\ \A g \in Gens : gen[g].scope = "up" => roster[gen[g].id] = g
  BY DEF Lives!NothingLeft, Gens
<1>1. \A g \in Gens : /\ gen[g].build \in {"none", "ok", "failed"} /\ gen[g].scope # "going"
                      /\ gen[g].removal \in {"none", "over"}
  BY DEF Lives!Quiet, Gens
<1>2. \A o \in Ops : ops[o].pc \in {"idle", "done", "failed"} BY DEF Lives!Quiet, Ops
<1>3. LivesInv /\ CallsInv BY DEF AllInv
<1>4. \A g \in Gens : LifeOK(gen[g]) /\ StraightOK(gen[g]) BY <1>3 DEF LivesInv, LivesOK, Straight
<1>5. /\ \A g \in Gens : gen[g].mach \in Alive => sess[gen[g].id] = g /\ roster[gen[g].id] = g
      /\ \A id \in Ids : sess[id] # 0 => gen[sess[id]].id = id /\ gen[sess[id]].mach \in Alive
  BY <1>1, <1>3 DEF LivesInv, TablesOK
<1>6. \A id \in Ids : roster[id] # 0 =>
        /\ gen[roster[id]].id = id /\ gen[roster[id]].mach # "none"
        /\ gen[roster[id]].removal # "over" /\ gen[roster[id]].build # "failed"
  BY <1>3 DEF LivesInv, TablesOK
<1>7. roster \in [Ids -> Refs] /\ sess \in [Ids -> Refs] BY <1>3 DEF LivesInv, LivesShapes
<1>8. ASSUME NEW id \in Ids PROVE roster[id] = sess[id]
  <2>1. CASE sess[id] # 0
    <3>1. sess[id] \in Gens BY <1>7, <2>1 DEF Refs
    <3> QED BY <1>5, <2>1, <3>1
  <2>2. CASE roster[id] # 0
    <3>1. roster[id] \in Gens BY <1>7, <2>2 DEF Refs
    <3>2. gen[roster[id]].build = "ok" /\ gen[roster[id]].removal = "none"
      BY <1>1, <1>4, <1>6, <2>2, <3>1 DEF LifeOK
    <3>3. gen[roster[id]].mach = "ready" BY <1>4, <3>1, <3>2 DEF StraightOK
    <3> QED BY <1>5, <1>6, <2>2, <3>1, <3>3 DEF Alive
  <2>3. CASE sess[id] = 0 /\ roster[id] = 0 BY <2>3
  <2> QED BY <2>1, <2>2, <2>3
<1>9. roster = sess BY <1>7, <1>8
<1>10. shut = {} BY <1>1, <1>3 DEF LivesInv, LivesShapes, ShutOK
<1>11. creating = Lives!None
  <2>1. creating \in [Ids -> Ops \cup {0}] /\ \A id \in Ids : creating[id] # 0 => ops[creating[id]].pc = "link"
    BY <1>3 DEF CallsInv, CallShapes, JoinsOK
  <2>2. \A id \in Ids : creating[id] = 0 BY <1>2, <2>1
  <2> QED BY <2>1, <2>2 DEF Lives!None
<1>12. ASSUME NEW g \in Gens, gen[g].scope = "up" PROVE roster[gen[g].id] = g
  <2>1. gen[g].mach \in Alive
    <3>1. LifeOK(gen[g]) BY <1>4
    <3>2. gen[g].mach # "none" BY <1>12, <3>1 DEF LifeOK, Lives!NoGen
    <3> QED BY <1>12, <3>1, <3>2 DEF LifeOK
  <2> QED BY <1>5, <2>1
<1> QED BY <1>9, <1>10, <1>11, <1>12

LEMMA CacheKnowsHolds == ASSUME AllInv PROVE Lives!CacheKnows
<1> SUFFICES ASSUME Lives!Quiet, "orphan" \notin odd, NEW o \in Ops, ops[o].pc = "done",
                    Lives!handleOf(ops[o].id) = ops[o].g
             PROVE  Lives!Known(ops[o].id)
  BY DEF Lives!CacheKnows, Ops
<1>1. (\A p \in Ops : ops[p].pc \in {"idle", "done", "failed"}) /\ ev.pc = "idle" BY DEF Lives!Quiet, Ops
<1>2. Holds(retired, ops[o].id) \/ Evicting(ops[o].id) \/ Back(ops[o].id) BY DEF AllInv, KnownOK, Orderly
<1>3. ~Evicting(ops[o].id) /\ ~Back(ops[o].id) BY <1>1 DEF Evicting, Back
<1> QED BY <1>2, <1>3 DEF Holds, Lives!Known

LEMMA WithinCapacityHolds == ASSUME AllInv PROVE Lives!WithinCapacity
<1> SUFFICES ASSUME Lives!Quiet, odd \cap {"flaky", "stray"} = {}
             PROVE  \/ Lives!Cardinality(Lives!LiveRetired) <= Capacity
                    \/ \A i \in Lives!LiveRetired : retired[i].id \in ev.putOff
  BY DEF Lives!WithinCapacity
<1>1. Lives!Cardinality(Lives!LiveRetired) = Cardinality(Lives!LiveRetired) BY DEF Lives!Cardinality, Cardinality
<1>2. ev.pc = "idle" /\ passes = 0 BY DEF Lives!Quiet
<1>3. Len(retired) <= Capacity \/ \A id \in Ids : Holds(retired, id) => Excused(id)
  BY <1>2 DEF AllInv, OverflowOK, Untroubled
<1>4. retired \in Seq(Entries) BY DEF AllInv, CacheInv, Once
<1>5. Capacity \in Nat BY LivesAssumption
<1>6. CASE Len(retired) <= Capacity
  <2>1. Lives!LiveRetired \subseteq 1 .. Len(retired) /\ Len(retired) \in Nat BY <1>4 DEF Lives!LiveRetired
  <2>2. IsFiniteSet(1 .. Len(retired)) /\ Cardinality(1 .. Len(retired)) = Len(retired) BY <2>1, FS_Interval
  <2>3. Cardinality(Lives!LiveRetired) <= Len(retired) /\ IsFiniteSet(Lives!LiveRetired) BY <2>1, <2>2, FS_Subset
  <2>4. Cardinality(Lives!LiveRetired) \in Nat BY <2>3, FS_CardinalityType
  <2> QED BY <1>1, <1>5, <1>6, <2>1, <2>3, <2>4
<1>7. CASE \A id \in Ids : Holds(retired, id) => Excused(id)
  <2>1. shut = {}
    <3>1. ShutOK /\ shut \subseteq Ids BY DEF AllInv, LivesInv, LivesShapes
    <3>2. \A g \in Gens : gen[g].removal \in {"none", "over"} BY DEF Lives!Quiet, Gens
    <3> QED BY <3>1, <3>2 DEF ShutOK
  <2>2. \A id \in Ids : ~Active(id) BY DEF Active, Lives!Quiet, Ops
  <2>3. \A i \in DOMAIN retired : retired[i].id \in Ids
    <3>1. \A i \in DOMAIN retired : retired[i] \in Entries BY <1>4
    <3> QED BY <3>1 DEF Entries
  <2>4. \A i \in DOMAIN retired : Lives!handleOf(retired[i].id) = 0 \/ retired[i].id \in ev.putOff
    BY <1>7, <2>1, <2>2, <2>3 DEF Holds, Excused
  <2> QED BY <2>4 DEF Lives!LiveRetired
<1> QED BY <1>3, <1>6, <1>7

LEMMA LivesKeepAgreeing == AllInv /\ TasksIn =>
  /\ Lives!TypeOK /\ Lives!OneWriter /\ Lives!Attached /\ Lives!ClosedOnce
  /\ Lives!NothingLeft /\ Lives!CacheKnows /\ Lives!WithinCapacity
BY TypesHold, OneWriterHolds, AttachedHolds, ClosedOnceHolds, NothingLeftHolds, CacheKnowsHolds, WithinCapacityHolds

AgreementIInv == part = "lives" => AllInv /\ TasksIn

LEMMA AgreementStarts == ASSUME Init PROVE AgreementIInv
BY LivesBegin DEF Init, AgreementIInv

LEMMA AgreementStep == ASSUME AgreementIInv, [Next]_vars PROVE AgreementIInv'
<1> SUFFICES ASSUME part' = "lives" PROVE AllInv' /\ TasksIn' BY DEF AgreementIInv
<1>1. part = "lives" /\ (Lives!Next \/ UNCHANGED Lives!vars)
  BY DEF Next, vars, lifeVars, Lives!vars, Lives!lvars, Lives!cvars
<1> QED BY <1>1, LivesNext, TasksStay DEF AgreementIInv

\* However builds, removals, evictions and calls of the Agent tool interleave,
\* an id has one journal writer and its own interactions, is taken leave of at
\* most once, and once all is quiet the roster, the session's table and the
\* cache know the same agents, the cache no more live ones than its capacity or
\* only such as its last pass put off because a background task of theirs ran
\* (AgentLifecycleService, SubagentScopeCacheService, the session machine).
THEOREM LivesAreAgreedOn == Spec => []LivesAgree
<1>1. Init => AgreementIInv BY AgreementStarts
<1>2. AgreementIInv /\ [Next]_vars => AgreementIInv' BY AgreementStep
<1>3. AgreementIInv => LivesAgree BY LivesKeepAgreeing DEF AgreementIInv, LivesAgree
<1> QED BY <1>1, <1>2, <1>3, PTL DEF Spec
=============================================================================
