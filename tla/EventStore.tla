----------------------------- MODULE EventStore -----------------------------
(***************************************************************************)
(* The event store of an agent (human/eventStore/eventStore.ts) and the    *)
(* journals it is given (agent/loop/machine/storeJournal.ts): every        *)
(* operation waits for the one before it (`tail`), an event is folded into *)
(* the state and then appended to the journal, and a reset replaces the    *)
(* state by the fold of another journal.                                   *)
(*                                                                         *)
(* Events are numbered in the order of their dispatch.  The state is the   *)
(* sequence of the events folded into it, each with the place (`ref`) that *)
(* its fold was told.                                                      *)
(***************************************************************************)
EXTENDS Naturals, Sequences

CONSTANTS MaxEvents,      \* bound: events dispatched
          MaxResets,      \* bound: resets and restarts
          Faults          \* may an append be rejected?

VARIABLES wire,           \* the events in the active chain of the wire journal
          journal,        \* the journal of the store
          state,          \* what was folded
          queue,          \* the operations that `tail` stands for; the head runs
          phase,          \* `phaseValue`
          dispatched, resets,
          unrecorded,     \* events whose append was rejected, and those after them
          excused,        \* a journal was read while operations were queued, or its fold threw
          unbound,        \* events of a turn's start that the context does not hold yet
          expected,       \* the events that were dispatched and not undone
          overlooked      \* those of them that the last reset put aside

vars == <<wire, journal, state, queue, phase, dispatched, resets, unrecorded, excused, unbound, expected,
          overlooked>>
ghosts == <<unrecorded, excused, expected, overlooked>>

\* wireStoreJournal has read the chain `records` (once, when first asked);
\* seededStoreJournal and appendedStoreJournal put a seed in its place or
\* behind it and count what is appended since.
Journal(kind, records, seed) ==
  [kind |-> kind, records |-> records, seed |-> seed, appended |-> 0]

nextSeq(j) ==
  CASE j.kind = "wire"     -> Len(j.records) + j.appended
    [] j.kind = "seeded"   -> Len(j.seed) + j.appended
    [] j.kind = "appended" -> Len(j.records) + Len(j.seed) + j.appended

\* readSync() of a journal nothing was appended to yet.
Contents(j) ==
  CASE j.kind = "wire"     -> j.records
    [] j.kind = "seeded"   -> j.seed
    [] j.kind = "appended" -> j.records \o j.seed

\* The event with which engineJournal and resetHistory record the number of the
\* last turn.  It is not written to the wire.
TurnMark == 0

\* foldRecords: a record is folded at the place it has in the journal.
Folded(records) == [i \in DOMAIN records |-> [event |-> records[i], ref |-> i - 1]]

Events(s) == [i \in DOMAIN s |-> s[i].event]
Elements(s) == {s[i] : i \in DOMAIN s}

Init ==
  /\ wire = <<>>
  /\ journal = Journal("wire", <<>>, <<>>)
  /\ state = <<>> /\ queue = <<>> /\ phase = "open"
  /\ dispatched = 0 /\ resets = 0
  /\ unrecorded = {} /\ excused = FALSE /\ unbound = {} /\ expected = <<>> /\ overlooked = {}

bounds == <<dispatched, resets>>

----------------------------------------------------------------------------
\* dispatch() of one event or of a batch.  The loop's context holds it as well,
\* unless the machine starts a turn with it.
Dispatch(n) ==
  LET events == [i \in 1 .. n |-> dispatched + i] IN
  /\ phase = "open" /\ dispatched + n <= MaxEvents
  /\ queue' = Append(queue, [kind |-> "dispatch", step |-> "fold", events |-> events])
  /\ dispatched' = dispatched + n
  /\ expected' = expected \o events
  /\ unbound' \in {unbound, unbound \cup Elements(events)}
  /\ UNCHANGED <<wire, journal, state, phase, resets, unrecorded, excused, overlooked>>

\* bindMachineTurn, in the gate of the turn: its prompt joins the context.
Bind ==
  /\ unbound # {}
  /\ unbound' = {}
  /\ UNCHANGED <<wire, journal, state, queue, phase, bounds, ghosts>>

Running(kind, step) == queue # <<>> /\ Head(queue).kind = kind /\ Head(queue).step = step
Step(step) == queue' = [queue EXCEPT ![1].step = step]

\* foldAndAppend, up to the await: the event is applied with the next place of
\* the journal.
Fold ==
  /\ Running("dispatch", "fold")
  /\ state' = Append(state, [event |-> Head(queue).events[1], ref |-> nextSeq(journal)])
  /\ Step("append")
  /\ UNCHANGED <<wire, journal, phase, bounds, unbound, ghosts>>

\* The events of the batch after the one that was appended.
Rest(op) == Tail(op.events)

\* append() of a journal ends, through its wrappers, in wire.append.
Written(event) == Append(wire, event)

\* The append resolves.
Appended ==
  LET op == Head(queue) IN
  /\ Running("dispatch", "append")
  /\ wire' = Written(op.events[1])
  /\ journal' = [journal EXCEPT !.appended = @ + 1]
  /\ queue' = IF Rest(op) = <<>> THEN Tail(queue)
              ELSE [queue EXCEPT ![1].events = Rest(op), ![1].step = "fold"]
  /\ UNCHANGED <<state, phase, bounds, unbound, ghosts>>

\* The append is rejected: the event stays in the state, the rest of the batch
\* is not folded and the operations behind it go on.
AppendRejected ==
  /\ Faults /\ Running("dispatch", "append")
  /\ queue' = Tail(queue)
  /\ unrecorded' = unrecorded \cup Elements(Head(queue).events)
  /\ UNCHANGED <<wire, journal, state, phase, bounds, excused, unbound, expected, overlooked>>

----------------------------------------------------------------------------
(* Resets.                                                                 *)

ResetTo(j) ==
  /\ phase = "open" /\ resets < MaxResets
  /\ resets' = resets + 1
  /\ queue' = Append(queue, [kind |-> "reset", step |-> "settle", journal |-> j])

\* Mutant: the seed is what the store has folded by now.
HistoryFromState == SelectSeq(Events(state), LAMBDA e : e # TurnMark)

\* The events of historyFromContext: the context does not wait for the store,
\* and a turn that has started may not have joined it.
HistoryFromContext == SelectSeq(expected, LAMBDA e : e \notin unbound)

\* resetHistory, in the recovery of a failed run.
ResetHistory ==
  /\ ResetTo(Journal("seeded", Contents(journal), Append(HistoryFromContext, TurnMark)))
  /\ overlooked' = unbound
  /\ UNCHANGED <<wire, journal, state, phase, dispatched, unrecorded, excused, unbound, expected>>

\* engineJournal over a new wire journal.
EngineJournal(records) ==
  Journal(IF records = <<>> THEN "seeded" ELSE "appended", records, <<TurnMark>>)

\* An undo cuts the chain of the wire and resetJournal reads it anew.
Undo(n) ==
  /\ n < Len(wire)
  /\ wire' = SubSeq(wire, 1, n)
  /\ ResetTo(EngineJournal(wire'))
  /\ expected' = wire' /\ unbound' = unbound \cap Elements(wire') /\ overlooked' = {}
  /\ excused' = (excused \/ queue # <<>>)
  /\ UNCHANGED <<journal, state, phase, dispatched, unrecorded>>

\* `await this.journal.settled()`, then the records are read.
Settled ==
  /\ Running("reset", "settle")
  /\ Step("refold")
  /\ UNCHANGED <<wire, journal, state, phase, bounds, unbound, ghosts>>

\* refold and the switch to the new journal.
Refold ==
  LET j == Head(queue).journal IN
  /\ Running("reset", "refold")
  /\ state' = Folded(Contents(j))
  /\ journal' = j
  /\ queue' = Tail(queue)
  /\ UNCHANGED <<wire, phase, bounds, unbound, ghosts>>

\* The fold of the records throws: the state is the one before.
RefoldThrows ==
  /\ Faults /\ Running("reset", "refold")
  /\ queue' = Tail(queue)
  /\ excused' = TRUE
  /\ UNCHANGED <<wire, journal, state, phase, bounds, unrecorded, unbound, expected, overlooked>>

----------------------------------------------------------------------------
\* close() waits for the operations before it; what is dispatched meanwhile is
\* still accepted.
Close ==
  /\ phase = "open" /\ queue # <<>> /\ \A i \in DOMAIN queue : queue[i].kind # "close"
  /\ queue' = Append(queue, [kind |-> "close", step |-> "flush"])
  /\ UNCHANGED <<wire, journal, state, phase, bounds, unbound, ghosts>>

Closed ==
  /\ Running("close", "flush")
  /\ phase' = "closed"
  /\ queue' = Tail(queue)
  /\ UNCHANGED <<wire, journal, state, bounds, unbound, ghosts>>

\* The process dies and the agent is restored from the wire journal.
Restart ==
  /\ resets < MaxResets
  /\ resets' = resets + 1
  /\ journal' = EngineJournal(wire)
  /\ state' = Folded(Contents(journal'))
  /\ queue' = <<>> /\ phase' = "open"
  /\ unrecorded' = {} /\ excused' = FALSE /\ expected' = wire
  /\ unbound' = unbound \cap Elements(wire) /\ overlooked' = {}
  /\ UNCHANGED <<wire, dispatched>>

Next ==
  \/ \E n \in 1 .. 2 : Dispatch(n)
  \/ Bind
  \/ Fold \/ Appended \/ AppendRejected
  \/ ResetHistory \/ \E n \in 0 .. MaxEvents : Undo(n)
  \/ Settled \/ Refold \/ RefoldThrows
  \/ Close \/ Closed \/ Restart

Spec == Init /\ [][Next]_vars

----------------------------------------------------------------------------
(* Properties.                                                             *)

TypeOK ==
  /\ Elements(wire) \cup Elements(expected) \subseteq 1 .. dispatched
  /\ Elements(Events(state)) \subseteq 0 .. dispatched
  /\ Len(wire) <= dispatched /\ Len(state) <= dispatched + 1

\* The events of a sequence that are known to have been recorded.
Recorded(s) == SelectSeq(s, LAMBDA e : e \notin unrecorded \cup {TurnMark})

\* When its operations are done the state holds every event once and in order,
\* however resets and dispatches overlapped: a reset neither drops nor repeats
\* an event that was dispatched around it.  Exceptions are a rejected append,
\* an undo that read the wire while events were queued and a failed fold; and
\* the events with which the machine had started a turn that the context did
\* not hold yet when a recovery reset the history: the state loses them, until it
\* is read from the wire again.
StateComplete ==
  LET Kept(s) == SelectSeq(Recorded(s), LAMBDA e : e \notin overlooked) IN
  queue = <<>> /\ ~excused => Kept(Events(state)) = Kept(expected)

\* The wire journal, from which a restart restores the state, has the same.
WireComplete ==
  queue = <<>> /\ ~excused => Recorded(wire) = Recorded(expected)

\* The places that folds were told increase along the state, through every
\* wrapper that a journal was put in: turns are found by them.
RefsAscend ==
  unrecorded = {} => \A i, j \in DOMAIN state : i < j => state[i].ref < state[j].ref
=============================================================================
