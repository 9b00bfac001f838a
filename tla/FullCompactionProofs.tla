------------------------ MODULE FullCompactionProofs ------------------------
(***************************************************************************)
(* Compactions exclude each other, undos and turns, for any number of      *)
(* workers, prompts and steps, any window and any thresholds.  The proof   *)
(* is about the control of the compaction alone: what the context holds,   *)
(* and so when a compaction is due, is left open.                          *)
(***************************************************************************)
EXTENDS FullCompaction, TLAPS

TurnPhases == {"idle", "gate", "blocked", "ready", "asking", "tool", "after", "recover", "waiting"}

\* The slot, the lease, the turn and of each worker what the slot depends on.
ControlOK ==
    /\ phase \in {"idle", "running"}
    /\ compacting \in 0 .. MaxWorkers /\ lease \in 0 .. Undo
    /\ worker = [w \in Workers |-> worker[w]]
    /\ \A w \in Workers :
         /\ DOMAIN worker[w] = {"pc", "manual", "aborted", "original", "history", "attempts",
                                "shrinks", "outcome"}
         /\ worker[w] = [f \in DOMAIN worker[w] |-> worker[w][f]]
         /\ worker[w].pc \in Live \cup {"none", "done"}
    /\ turn \in [pc : TurnPhases, on : 0 .. MaxWorkers, more : BOOLEAN, aborted : BOOLEAN]
    /\ turn.pc \in {"blocked", "waiting"} => turn.on \in Workers

CompactionIInv == ControlOK /\ SlotFollowsWorker /\ LeaseIsExclusive

controlVars == <<phase, compacting, worker, lease, turn>>

\* The bounds are numbers, and an undo is not a worker.
LEMMA WorkerNumbers ==
    /\ MaxWorkers \in Nat /\ Workers \subseteq Nat /\ 0 \notin Workers /\ Undo \notin Workers
    /\ Undo # 0 /\ Workers \subseteq 0 .. MaxWorkers /\ \A n \in 0 .. MaxWorkers : n # 0 => n \in Workers
BY BoundAssumption DEF Workers, Undo

\* Before the first prompt nobody compacts.
LEMMA CompactionInit == Init => CompactionIInv
<1> SUFFICES ASSUME Init
             PROVE  CompactionIInv
    OBVIOUS
<1>1. /\ phase = "idle" /\ compacting = 0 /\ lease = 0
      /\ worker = [w \in Workers |-> NoWorker] /\ turn = NoTurn
    BY DEF Init
<1>2. ControlOK
    BY <1>1, WorkerNumbers DEF ControlOK, NoWorker, NoTurn, Live, TurnPhases, Undo
<1>3. SlotFollowsWorker /\ LeaseIsExclusive
    BY <1>1, WorkerNumbers DEF SlotFollowsWorker, LeaseIsExclusive, NoWorker, NoTurn, Live
<1> QED
    BY <1>2, <1>3 DEF CompactionIInv

-----------------------------------------------------------------------------
\* A worker that goes on, in whatever state of its request: it keeps the slot
\* if it has it, and the lease.
LEMMA WorkerGoesOn ==
    ASSUME CompactionIInv, NEW w \in Workers, worker[w].pc \in Live,
           NEW r, worker' = [worker EXCEPT ![w] = r],
           DOMAIN r = DOMAIN worker[w], r = [f \in DOMAIN r |-> r[f]],
           r.pc \in Live, r.manual = worker[w].manual, r.aborted = worker[w].aborted,
           UNCHANGED <<phase, compacting, lease, turn>>
    PROVE  CompactionIInv'
<1>1. /\ worker' = [v \in Workers |-> worker'[v]]
      /\ \A v \in Workers : worker'[v] = IF v = w THEN r ELSE worker[v]
    BY DEF CompactionIInv, ControlOK
<1>2. ControlOK'
    BY <1>1 DEF CompactionIInv, ControlOK
<1>3. SlotFollowsWorker'
    BY <1>1 DEF CompactionIInv, SlotFollowsWorker
<1>4. LeaseIsExclusive'
    BY <1>1 DEF CompactionIInv, LeaseIsExclusive
<1> QED
    BY <1>2, <1>3, <1>4 DEF CompactionIInv

\* The end of compactionWorker, of a worker that has the slot or has lost it.
LEMMA WorkerSettles ==
    ASSUME CompactionIInv, NEW w \in Workers, worker[w].pc \in Live,
           NEW outcome, Settle(w, outcome), UNCHANGED turn
    PROVE  CompactionIInv'
<1> DEFINE r == IF turn.on = w THEN [NoWorker EXCEPT !.pc = "done", !.outcome = outcome] ELSE NoWorker
<1>1. /\ worker' = [v \in Workers |-> worker'[v]]
      /\ \A v \in Workers : worker'[v] = IF v = w THEN r ELSE worker[v]
    BY DEF Settle, CompactionIInv, ControlOK
<1>2. /\ DOMAIN r = DOMAIN NoWorker /\ r = [f \in DOMAIN r |-> r[f]]
      /\ r.pc \in {"none", "done"} /\ r.pc \notin Live
    BY DEF NoWorker, Live
<1>3. ControlOK'
    BY <1>1, <1>2, WorkerNumbers DEF Settle, CompactionIInv, ControlOK, NoWorker, Undo
<1>4. SlotFollowsWorker'
    BY <1>1, <1>2, WorkerNumbers DEF Settle, CompactionIInv, ControlOK, SlotFollowsWorker
<1>5. LeaseIsExclusive'
    BY <1>1, <1>2, WorkerNumbers DEF Settle, CompactionIInv, ControlOK, LeaseIsExclusive
<1> QED
    BY <1>3, <1>4, <1>5 DEF CompactionIInv

\* Every step of a worker is one of the two.
LEMMA WorkerSteps ==
    ASSUME CompactionIInv, NEW w \in Workers, WorkerStep(w)
    PROVE  CompactionIInv'
<1> USE DEF loopVars
<1>1. worker[w].pc \in Live
    BY DEF WorkerStep, HookDone, RequestAborted, SummaryArrives, RequestOverflows,
           RequestFallsShort, RequestFails, BackoffEnds, Flushed, Answered, Live
<1>2. UNCHANGED turn
    BY DEF WorkerStep, HookDone, RequestAborted, SummaryArrives, RequestOverflows,
           RequestFallsShort, RequestFails, BackoffEnds, Flushed
<1>3. CASE \E outcome \in {"aborted", "overflow", "failed", "ok"} : Settle(w, outcome)
    BY <1>1, <1>2, <1>3, WorkerSettles
<1>4. CASE /\ \E r : /\ worker' = [worker EXCEPT ![w] = r]
                     /\ DOMAIN r = DOMAIN worker[w] /\ r = [f \in DOMAIN r |-> r[f]]
                     /\ r.pc \in Live /\ r.manual = worker[w].manual /\ r.aborted = worker[w].aborted
           /\ UNCHANGED <<phase, compacting, lease>>
    BY <1>1, <1>2, <1>4, WorkerGoesOn
<1>5. CASE HookDone(w)
    BY <1>3, <1>4, <1>5 DEF HookDone, CompactionIInv, ControlOK, Live
<1>6. CASE RequestAborted(w)
    BY <1>3, <1>6 DEF RequestAborted
<1>7. CASE SummaryArrives(w)
    BY <1>3, <1>4, <1>7 DEF SummaryArrives, CompactionIInv, ControlOK, Live
<1>8. CASE RequestOverflows(w)
    BY <1>1, <1>3, <1>4, <1>8 DEF RequestOverflows, GiveUp, Again, CompactionIInv, ControlOK
<1>9. CASE RequestFallsShort(w)
    BY <1>1, <1>3, <1>4, <1>9 DEF RequestFallsShort, GiveUp, Again, CompactionIInv, ControlOK
<1>10. CASE RequestFails(w, TRUE) \/ RequestFails(w, FALSE)
    BY <1>3, <1>4, <1>10 DEF RequestFails, CompactionIInv, ControlOK, Live
<1>11. CASE BackoffEnds(w)
    <2> DEFINE r == [worker[w] EXCEPT !.pc = "ask", !.attempts = @ + 1]
    <2>1. /\ worker' = [worker EXCEPT ![w] = r]
          /\ UNCHANGED <<phase, compacting, lease>>
        BY <1>11 DEF BackoffEnds, CompactionIInv, ControlOK
    <2>2. /\ DOMAIN r = DOMAIN worker[w] /\ r = [f \in DOMAIN r |-> r[f]]
          /\ r.pc \in Live /\ r.manual = worker[w].manual /\ r.aborted = worker[w].aborted
        <3> DEFINE s == worker[w]
        <3>1. /\ DOMAIN s = {"pc", "manual", "aborted", "original", "history", "attempts",
                             "shrinks", "outcome"}
              /\ r = [s EXCEPT !.pc = "ask", !.attempts = s.attempts + 1]
            BY DEF CompactionIInv, ControlOK
        <3> HIDE DEF r, s
        <3>2. DOMAIN r = DOMAIN s /\ r = [f \in DOMAIN r |-> r[f]]
            BY <3>1
        <3>3. r.pc = "ask" /\ r.manual = s.manual /\ r.aborted = s.aborted
            BY <3>1
        <3> QED
            BY <3>2, <3>3 DEF s, Live
    <2> HIDE DEF r
    <2> QED
        BY <1>4, <2>1, <2>2
<1>12. CASE Flushed(w)
    BY <1>3, <1>12 DEF Flushed
<1> QED
    BY <1>5, <1>6, <1>7, <1>8, <1>9, <1>10, <1>11, <1>12 DEF WorkerStep

-----------------------------------------------------------------------------
\* begin takes the slot for a worker that is free, and disturbs no other.
LEMMA BeginTakesSlot ==
    ASSUME CompactionIInv, NEW w \in Workers, NEW manual, Begin(w, manual)
    PROVE  /\ compacting = 0 /\ compacting' = w /\ phase' = "running"
           /\ worker' = [v \in Workers |-> worker'[v]]
           /\ DOMAIN worker'[w] = DOMAIN NoWorker /\ worker'[w] = [f \in DOMAIN worker'[w] |-> worker'[w][f]]
           /\ worker'[w].pc = "hook" /\ worker'[w].manual = manual
           /\ \A v \in Workers \ {w} : worker'[v] = worker[v]
           /\ SlotFollowsWorker' /\ w # lease
<1>1. /\ compacting = 0 /\ compacting' = w /\ phase' = "running" /\ worker[w].pc = "none"
      /\ worker' = [worker EXCEPT ![w] =
           [NoWorker EXCEPT !.pc = "hook", !.manual = manual, !.original = ctx.msgs]]
    BY DEF Begin
<1>2. /\ worker' = [v \in Workers |-> worker'[v]]
      /\ DOMAIN worker'[w] = DOMAIN NoWorker /\ worker'[w] = [f \in DOMAIN worker'[w] |-> worker'[w][f]]
      /\ worker'[w].pc = "hook" /\ worker'[w].manual = manual /\ worker'[w].aborted = FALSE
      /\ \A v \in Workers \ {w} : worker'[v] = worker[v]
    BY <1>1 DEF CompactionIInv, ControlOK, NoWorker
<1>3. SlotFollowsWorker'
    BY <1>1, <1>2, WorkerNumbers DEF CompactionIInv, SlotFollowsWorker, Live
<1>4. w # lease
    BY <1>1 DEF CompactionIInv, LeaseIsExclusive, Live
<1> QED
    BY <1>1, <1>2, <1>3, <1>4

\* cancelActive takes the slot from its worker, which goes on to its end.
LEMMA AbortFreesSlot ==
    ASSUME CompactionIInv, NEW w \in Workers, Abort(w)
    PROVE  /\ compacting' = 0 /\ phase' = "idle"
           /\ worker' = [v \in Workers |-> worker'[v]]
           /\ \A v \in Workers :
                /\ DOMAIN worker'[v] = DOMAIN worker[v]
                /\ worker'[v] = [f \in DOMAIN worker'[v] |-> worker'[v][f]]
                /\ worker'[v].pc = worker[v].pc /\ worker'[v].manual = worker[v].manual
           /\ SlotFollowsWorker'
<1>1. /\ compacting = w /\ compacting' = 0 /\ phase' = "idle"
      /\ worker' = [worker EXCEPT ![w].aborted = TRUE, ![w].original = <<>>, ![w].history = <<>>]
    BY DEF Abort
<1>2. /\ worker' = [v \in Workers |-> worker'[v]]
      /\ \A v \in Workers :
           /\ DOMAIN worker'[v] = DOMAIN worker[v]
           /\ worker'[v] = [f \in DOMAIN worker'[v] |-> worker'[v][f]]
           /\ worker'[v].pc = worker[v].pc /\ worker'[v].manual = worker[v].manual
      /\ worker'[w].aborted = TRUE /\ \A v \in Workers \ {w} : worker'[v] = worker[v]
    <2> DEFINE r == [worker[w] EXCEPT !.aborted = TRUE, !.original = <<>>, !.history = <<>>]
    <2>1. /\ worker' = [v \in Workers |-> worker'[v]]
          /\ \A v \in Workers : worker'[v] = IF v = w THEN r ELSE worker[v]
        BY <1>1 DEF CompactionIInv, ControlOK
    <2>2. /\ DOMAIN r = DOMAIN worker[w] /\ r = [f \in DOMAIN r |-> r[f]]
          /\ r.pc = worker[w].pc /\ r.manual = worker[w].manual /\ r.aborted = TRUE
        <3> DEFINE s == worker[w]
        <3>1. /\ DOMAIN s = {"pc", "manual", "aborted", "original", "history", "attempts",
                             "shrinks", "outcome"}
              /\ r = [s EXCEPT !.aborted = TRUE, !.original = <<>>, !.history = <<>>]
            BY DEF CompactionIInv, ControlOK
        <3> HIDE DEF r, s
        <3>2. DOMAIN r = DOMAIN s /\ r = [f \in DOMAIN r |-> r[f]]
            BY <3>1
        <3>3. r.pc = s.pc /\ r.manual = s.manual /\ r.aborted = TRUE
            BY <3>1
        <3> QED
            BY <3>2, <3>3 DEF s
    <2> HIDE DEF r
    <2> QED
        BY <2>1, <2>2 DEF CompactionIInv, ControlOK
<1>3. SlotFollowsWorker'
    BY <1>1, <1>2, WorkerNumbers DEF CompactionIInv, SlotFollowsWorker
<1> QED
    BY <1>1, <1>2, <1>3

\* A step of a turn: the turn is active, so nobody has the lease, and the slot
\* is left alone or taken for an automatic compaction.
LEMMA TurnMoves ==
    ASSUME CompactionIInv, turn.pc # "idle", UNCHANGED lease,
           (\E w \in Workers : Begin(w, FALSE)) \/ UNCHANGED <<compacting, phase, worker>>,
           turn' \in [pc : TurnPhases, on : 0 .. MaxWorkers, more : BOOLEAN, aborted : BOOLEAN],
           turn'.pc \in {"blocked", "waiting"} => turn'.on \in Workers
    PROVE  CompactionIInv'
<1>1. lease = 0 /\ lease' = 0
    BY DEF CompactionIInv, LeaseIsExclusive
<1>2. LeaseIsExclusive'
    BY <1>1, WorkerNumbers DEF LeaseIsExclusive
<1>3. CASE \E w \in Workers : Begin(w, FALSE)
    <2>1. PICK w \in Workers : Begin(w, FALSE)
        BY <1>3
    <2>2. /\ compacting' = w /\ phase' = "running" /\ worker' = [v \in Workers |-> worker'[v]]
          /\ DOMAIN worker'[w] = DOMAIN NoWorker /\ worker'[w] = [f \in DOMAIN worker'[w] |-> worker'[w][f]]
          /\ worker'[w].pc = "hook" /\ \A v \in Workers \ {w} : worker'[v] = worker[v]
          /\ SlotFollowsWorker'
        BY <2>1, BeginTakesSlot
    <2>3. \A v \in Workers :
            /\ DOMAIN worker'[v] = {"pc", "manual", "aborted", "original", "history", "attempts",
                                    "shrinks", "outcome"}
            /\ worker'[v] = [f \in DOMAIN worker'[v] |-> worker'[v][f]]
            /\ worker'[v].pc \in Live \cup {"none", "done"}
        BY <2>2 DEF CompactionIInv, ControlOK, NoWorker, Live
    <2>4. ControlOK'
        BY <1>1, <2>2, <2>3, WorkerNumbers DEF CompactionIInv, ControlOK
    <2> QED
        BY <1>2, <2>2, <2>4 DEF CompactionIInv
<1>4. CASE UNCHANGED <<compacting, phase, worker>>
    <2>1. ControlOK'
        BY <1>1, <1>4 DEF CompactionIInv, ControlOK
    <2>2. SlotFollowsWorker'
        BY <1>4 DEF CompactionIInv, SlotFollowsWorker
    <2> QED
        BY <1>2, <2>1, <2>2 DEF CompactionIInv
<1> QED
    BY <1>3, <1>4

\* The steps of a turn, its wait for a compaction included.
LEMMA TurnSteps ==
    ASSUME CompactionIInv, TurnStep
    PROVE  CompactionIInv'
<1>1. turn \in [pc : TurnPhases, on : 0 .. MaxWorkers, more : BOOLEAN, aborted : BOOLEAN]
    BY DEF CompactionIInv, ControlOK
<1>2. NoTurn \in [pc : TurnPhases, on : 0 .. MaxWorkers, more : BOOLEAN, aborted : BOOLEAN]
    BY WorkerNumbers DEF NoTurn, TurnPhases
<1>3. CASE TurnStart
    <2>1. /\ lease = 0 /\ turn' = [NoTurn EXCEPT !.pc = "gate"]
          /\ UNCHANGED <<phase, compacting, worker, lease>>
        BY <1>3 DEF TurnStart
    <2>2. ControlOK' /\ SlotFollowsWorker'
        BY <1>2, <2>1 DEF CompactionIInv, ControlOK, SlotFollowsWorker, NoTurn, TurnPhases
    <2>3. LeaseIsExclusive'
        BY <2>1, WorkerNumbers DEF LeaseIsExclusive
    <2> QED
        BY <2>2, <2>3 DEF CompactionIInv
<1>4. CASE BeforeStep
    <2>1. compacting' \in 0 .. MaxWorkers
        BY <1>4, BeginTakesSlot, WorkerNumbers
        DEF BeforeStep, CheckAutoCompaction, CompactionIInv, ControlOK
    <2>2. /\ turn.pc = "gate" /\ UNCHANGED lease
          /\ (\E w \in Workers : Begin(w, FALSE)) \/ UNCHANGED <<compacting, phase, worker>>
          /\ turn' = NoTurn \/ (turn' = [turn EXCEPT !.pc = "blocked", !.on = compacting'] /\ compacting' # 0)
             \/ turn' = [turn EXCEPT !.pc = "ready"]
        BY <1>4 DEF BeforeStep, CheckAutoCompaction, EndTurn
    <2> QED
        BY <1>1, <1>2, <2>1, <2>2, TurnMoves, WorkerNumbers DEF NoTurn, TurnPhases
<1>5. CASE StepStarted \/ StepCompleted(TRUE) \/ StepCompleted(FALSE) \/ ToolDone \/ StepFails(TRUE) \/ StepFails(FALSE)
    <2>1. /\ turn.pc \in {"ready", "asking", "tool"} /\ UNCHANGED <<phase, compacting, worker, lease>>
          /\ \/ \E to \in {"asking", "tool", "after", "recover"}, more \in BOOLEAN :
                  \/ turn' = [turn EXCEPT !.pc = to, !.more = more]
                  \/ turn' = [turn EXCEPT !.pc = to]
             \/ turn' = NoTurn
        BY <1>5 DEF StepStarted, StepCompleted, ToolDone, StepFails
    <2> QED
        BY <1>1, <1>2, <2>1, TurnMoves DEF NoTurn, TurnPhases
<1>6. CASE AfterStep
    <2>1. /\ turn.pc = "after" /\ UNCHANGED lease
          /\ (\E w \in Workers : Begin(w, FALSE)) \/ UNCHANGED <<compacting, phase, worker>>
          /\ turn' = [NoTurn EXCEPT !.pc = "gate"] \/ turn' = NoTurn
        BY <1>6 DEF AfterStep, CheckAutoCompaction
    <2> QED
        BY <1>2, <2>1, TurnMoves DEF NoTurn, TurnPhases
<1>7. CASE Recover
    <2>1. compacting' \in 0 .. MaxWorkers /\ (turn' # NoTurn => compacting' # 0)
        <3>1. CASE \E w \in Workers : Begin(w, FALSE)
            BY <3>1, BeginTakesSlot, WorkerNumbers
        <3>2. CASE UNCHANGED compacting /\ compacting # 0
            BY <3>2 DEF CompactionIInv, ControlOK
        <3>3. CASE UNCHANGED compacting /\ turn' = NoTurn
            BY <3>3 DEF CompactionIInv, ControlOK
        <3> QED
            BY <1>7, <3>1, <3>2, <3>3 DEF Recover, EndTurn
    <2>2. /\ turn.pc = "recover" /\ UNCHANGED lease
          /\ (\E w \in Workers : Begin(w, FALSE)) \/ UNCHANGED <<compacting, phase, worker>>
          /\ turn' = NoTurn \/ turn' = [turn EXCEPT !.pc = "waiting", !.on = compacting']
        BY <1>7 DEF Recover, EndTurn
    <2> QED
        BY <1>1, <1>2, <2>1, <2>2, TurnMoves, WorkerNumbers DEF NoTurn, TurnPhases
<1>8. CASE Unblocked
    <2>1. /\ turn.pc \in {"blocked", "waiting"} /\ worker[turn.on].pc = "done"
          /\ worker' = [worker EXCEPT ![turn.on] = NoWorker]
          /\ UNCHANGED <<phase, compacting, lease>>
          /\ \E to \in {"idle", "ready", "gate", "recover"} : turn' = [NoTurn EXCEPT !.pc = to]
        BY <1>8 DEF Unblocked
    <2>2. turn.on \in Workers /\ lease = 0
        BY <2>1 DEF CompactionIInv, ControlOK, LeaseIsExclusive
    <2>3. ControlOK'
        <3>1. /\ worker' = [v \in Workers |-> worker'[v]]
              /\ \A v \in Workers : worker'[v] = IF v = turn.on THEN NoWorker ELSE worker[v]
            BY <2>1, <2>2 DEF CompactionIInv, ControlOK
        <3>2. \A v \in Workers :
                /\ DOMAIN worker'[v] = {"pc", "manual", "aborted", "original", "history", "attempts",
                                        "shrinks", "outcome"}
                /\ worker'[v] = [f \in DOMAIN worker'[v] |-> worker'[v][f]]
                /\ worker'[v].pc \in Live \cup {"none", "done"}
            BY <3>1 DEF CompactionIInv, ControlOK, NoWorker
        <3>3. /\ turn' \in [pc : TurnPhases, on : 0 .. MaxWorkers, more : BOOLEAN, aborted : BOOLEAN]
              /\ turn'.pc \notin {"blocked", "waiting"}
            BY <1>2, <2>1 DEF NoTurn, TurnPhases
        <3> QED
            BY <2>1, <3>1, <3>2, <3>3 DEF CompactionIInv, ControlOK
    <2>4. SlotFollowsWorker'
        BY <2>1, <2>2 DEF CompactionIInv, ControlOK, SlotFollowsWorker, NoWorker, Live
    <2>5. LeaseIsExclusive'
        BY <2>1, <2>2, WorkerNumbers DEF LeaseIsExclusive
    <2> QED
        BY <2>3, <2>4, <2>5 DEF CompactionIInv
<1> QED
    BY <1>3, <1>4, <1>5, <1>6, <1>7, <1>8 DEF TurnStep

-----------------------------------------------------------------------------
\* The user: prompts and notices leave the control alone; an abort of a turn
\* that waits, and a cancel, abort the compaction; a manual compaction and an
\* undo take the lease while no turn runs; a restart begins anew.
LEMMA UserSteps ==
    ASSUME CompactionIInv, UserStep \/ UndoEnd
    PROVE  CompactionIInv'
<1> USE DEF loopVars
<1>1. CASE Prompt \/ Notify \/ ClearContext
    <2>1. UNCHANGED controlVars
        BY <1>1 DEF Prompt, Notify, ClearContext, controlVars
    <2> QED
        BY <2>1 DEF controlVars, CompactionIInv, ControlOK, SlotFollowsWorker, LeaseIsExclusive
<1>2. CASE AbortTurn(TRUE) \/ AbortTurn(FALSE)
    <2>1. CASE turn' = NoTurn /\ UNCHANGED <<compacting, phase, worker>>
        <3>1. turn.pc # "idle" /\ UNCHANGED lease
            BY <1>2 DEF AbortTurn
        <3> QED
            BY <2>1, <3>1, TurnMoves, WorkerNumbers DEF NoTurn, TurnPhases
    <2>2. CASE /\ turn' = [turn EXCEPT !.aborted = TRUE]
               /\ Abort(turn.on) \/ UNCHANGED <<compacting, phase, worker>>
               /\ turn.on # 0
        <3>1. turn.pc # "idle" /\ UNCHANGED lease
            BY <1>2 DEF AbortTurn
        <3>2. /\ turn' \in [pc : TurnPhases, on : 0 .. MaxWorkers, more : BOOLEAN, aborted : BOOLEAN]
              /\ turn'.pc \in {"blocked", "waiting"} => turn'.on \in Workers
            BY <2>2 DEF CompactionIInv, ControlOK
        <3>3. CASE Abort(turn.on)
            <4>1. turn.on \in Workers
                BY <2>2, WorkerNumbers DEF CompactionIInv, ControlOK
            <4>2. /\ compacting' = 0 /\ phase' = "idle" /\ worker' = [v \in Workers |-> worker'[v]]
                  /\ \A v \in Workers :
                       /\ DOMAIN worker'[v] = DOMAIN worker[v]
                       /\ worker'[v] = [f \in DOMAIN worker'[v] |-> worker'[v][f]]
                       /\ worker'[v].pc = worker[v].pc
                  /\ SlotFollowsWorker'
                BY <3>3, <4>1, AbortFreesSlot
            <4>3. ControlOK'
                BY <3>1, <3>2, <4>2, WorkerNumbers DEF CompactionIInv, ControlOK
            <4>4. LeaseIsExclusive'
                BY <3>1, WorkerNumbers DEF CompactionIInv, LeaseIsExclusive
            <4> QED
                BY <4>2, <4>3, <4>4 DEF CompactionIInv
        <3>4. CASE UNCHANGED <<compacting, phase, worker>>
            BY <3>1, <3>2, <3>4, TurnMoves
        <3> QED
            BY <2>2, <3>3, <3>4
    <2> QED
        BY <1>2, <2>1, <2>2 DEF AbortTurn
<1>3. CASE Compact
    <2>1. PICK w \in Workers : Begin(w, TRUE) /\ lease' = w
        BY <1>3 DEF Compact
    <2>2. turn.pc = "idle" /\ UNCHANGED turn
        BY <1>3 DEF Compact, TryAcquireQuiescence
    <2>3. /\ compacting' = w /\ phase' = "running" /\ worker' = [v \in Workers |-> worker'[v]]
          /\ DOMAIN worker'[w] = DOMAIN NoWorker /\ worker'[w] = [f \in DOMAIN worker'[w] |-> worker'[w][f]]
          /\ worker'[w].pc = "hook" /\ worker'[w].manual = TRUE
          /\ \A v \in Workers \ {w} : worker'[v] = worker[v]
          /\ SlotFollowsWorker'
        BY <2>1, BeginTakesSlot
    <2>4. \A v \in Workers :
            /\ DOMAIN worker'[v] = {"pc", "manual", "aborted", "original", "history", "attempts",
                                    "shrinks", "outcome"}
            /\ worker'[v] = [f \in DOMAIN worker'[v] |-> worker'[v][f]]
            /\ worker'[v].pc \in Live \cup {"none", "done"}
        BY <2>3 DEF CompactionIInv, ControlOK, NoWorker, Live
    <2>5. w \in 0 .. Undo
        BY WorkerNumbers DEF Undo
    <2>6. ControlOK'
        BY <2>1, <2>2, <2>3, <2>4, <2>5, WorkerNumbers DEF CompactionIInv, ControlOK
    <2>7. LeaseIsExclusive'
        BY <2>1, <2>2, <2>3, WorkerNumbers DEF LeaseIsExclusive, Live
    <2> QED
        BY <2>3, <2>6, <2>7 DEF CompactionIInv
<1>4. CASE CancelCompaction
    <2>1. PICK w \in Workers : Abort(w)
        BY <1>4 DEF CancelCompaction
    <2>2. UNCHANGED <<lease, turn>>
        BY <1>4 DEF CancelCompaction
    <2>3. /\ compacting' = 0 /\ phase' = "idle" /\ worker' = [v \in Workers |-> worker'[v]]
          /\ \A v \in Workers :
               /\ DOMAIN worker'[v] = DOMAIN worker[v]
               /\ worker'[v] = [f \in DOMAIN worker'[v] |-> worker'[v][f]]
               /\ worker'[v].pc = worker[v].pc /\ worker'[v].manual = worker[v].manual
          /\ SlotFollowsWorker'
        BY <2>1, AbortFreesSlot
    <2>4. ControlOK'
        BY <2>2, <2>3, WorkerNumbers DEF CompactionIInv, ControlOK
    <2>5. LeaseIsExclusive'
        BY <2>2, <2>3 DEF CompactionIInv, LeaseIsExclusive
    <2> QED
        BY <2>3, <2>4, <2>5 DEF CompactionIInv
<1>5. CASE UndoBegin
    <2>1. turn.pc = "idle" /\ compacting = 0 /\ lease' = Undo /\ UNCHANGED <<phase, compacting, worker, turn>>
        BY <1>5 DEF UndoBegin, TryAcquireQuiescence
    <2>2. ControlOK' /\ SlotFollowsWorker'
        BY <2>1, WorkerNumbers DEF CompactionIInv, ControlOK, SlotFollowsWorker, Undo
    <2>3. LeaseIsExclusive'
        BY <2>1, WorkerNumbers DEF LeaseIsExclusive
    <2> QED
        BY <2>2, <2>3 DEF CompactionIInv
<1>6. CASE UndoEnd
    <2>1. lease' = 0 /\ UNCHANGED <<phase, compacting, worker, turn>>
        BY <1>6 DEF UndoEnd
    <2>2. ControlOK' /\ SlotFollowsWorker'
        BY <2>1, WorkerNumbers DEF CompactionIInv, ControlOK, SlotFollowsWorker, Undo
    <2>3. LeaseIsExclusive'
        BY <2>1, WorkerNumbers DEF LeaseIsExclusive
    <2> QED
        BY <2>2, <2>3 DEF CompactionIInv
<1>7. CASE Restart
    <2>1. /\ phase' = "idle" /\ compacting' = 0 /\ lease' = 0
          /\ worker' = [w \in Workers |-> NoWorker] /\ turn' = NoTurn
        BY <1>7 DEF Restart, NormalizeAfterReplay, CompactionIInv, ControlOK
    <2>2. ControlOK'
        BY <2>1, WorkerNumbers DEF ControlOK, NoWorker, NoTurn, Live, TurnPhases, Undo
    <2>3. SlotFollowsWorker' /\ LeaseIsExclusive'
        BY <2>1, WorkerNumbers DEF SlotFollowsWorker, LeaseIsExclusive, NoWorker, NoTurn, Live
    <2> QED
        BY <2>2, <2>3 DEF CompactionIInv
<1> QED
    BY <1>1, <1>2, <1>3, <1>4, <1>5, <1>6, <1>7 DEF UserStep

\* Every step preserves the invariant.
LEMMA CompactionStep ==
    ASSUME CompactionIInv, [Next]_vars
    PROVE  CompactionIInv'
<1>1. CASE Next
    BY <1>1, WorkerSteps, TurnSteps, UserSteps DEF Next
<1>2. CASE UNCHANGED vars
    BY <1>2 DEF vars, CompactionIInv, ControlOK, SlotFollowsWorker, LeaseIsExclusive
<1> QED
    BY <1>1, <1>2

\* AgentFullCompactionService: one worker at a time has the slot, the one that
\* is at work and was not cancelled; the journalled phase says the same; and
\* turns, undos and manual compactions exclude each other by the loop's lease.
THEOREM CompactionsExclude == Spec => []CompactionIsAlone
<1>1. Init => CompactionIInv
    BY CompactionInit
<1>2. CompactionIInv /\ [Next]_vars => CompactionIInv'
    BY CompactionStep
<1>3. CompactionIInv => CompactionIsAlone
    BY DEF CompactionIInv, CompactionIsAlone
<1> QED
    BY <1>1, <1>2, <1>3, PTL DEF Spec
=============================================================================
