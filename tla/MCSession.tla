------------------------------ MODULE MCSession ------------------------------
(***************************************************************************)
(* The services below a session, each a component that shares no state     *)
(* with the others in this program's model: the lock of the session, the   *)
(* append log, the journal that several processes share, the event store   *)
(* of an agent and the emitter its hooks are called through.  A behaviour  *)
(* belongs to one of them, `part`; the others stay in their initial state. *)
(***************************************************************************)
EXTENDS SessionLock

CONSTANTS MaxRecords, MaxRewrites, Faults,
          Sharers, NoProcess, MaxCrashes,
          MaxEvents, MaxResets,
          QueuedFires, ConcurrentFires, Listeners

ASSUME SharersAssumption == NoProcess \notin Sharers
ASSUME FiresAssumption == QueuedFires \cap ConcurrentFires = {}

VARIABLES part,
          logFile, logs, guardOpen, reader, logAppended, rewrites, flushed, dropped,
          stale, again, logExcused,
          disk, legacy, lock, proc, appended, crashes, blind, late,
          wire, journal, state, queue, phase, dispatched, resets, unrecorded,
          excused, unbound, expected, overlooked,
          listeners, subscribed, disposed, deliveryQueue, fire, aborted, busy, fired,
          heard, started, overlapped

Log == INSTANCE AppendLog WITH disk <- logFile, appended <- logAppended, excused <- logExcused
Sharing == INSTANCE SessionSharing WITH Processes <- Sharers
Store == INSTANCE EventStore
Emitter == INSTANCE AsyncEmitter WITH queue <- deliveryQueue

----------------------------------------------------------------------------
logVars ==
  <<logFile, logs, guardOpen, reader, logAppended, rewrites, flushed, dropped, stale,
    again, logExcused>>
sharingVars == <<disk, legacy, lock, proc, appended, crashes, blind, late>>
storeVars ==
  <<wire, journal, state, queue, phase, dispatched, resets, unrecorded, excused, unbound,
    expected, overlooked>>
emitterVars ==
  <<listeners, subscribed, disposed, deliveryQueue, fire, aborted, busy, fired, heard,
    started, overlapped>>
partVars == <<part, vars, logVars, sharingVars, storeVars, emitterVars>>

PartInit ==
  /\ part \in {"lock", "log", "sharing", "store", "emitter"}
  /\ Init /\ Log!Init /\ Sharing!Init /\ Store!Init /\ Emitter!Init
  /\ part # "sharing" => disk = << >>

PartNext ==
  \/ /\ part = "lock" /\ Next
     /\ UNCHANGED <<part, logVars, sharingVars, storeVars, emitterVars>>
  \/ /\ part = "log" /\ Log!Next
     /\ UNCHANGED <<part, vars, sharingVars, storeVars, emitterVars>>
  \/ /\ part = "sharing" /\ Sharing!Next
     /\ UNCHANGED <<part, vars, logVars, storeVars, emitterVars>>
  \/ /\ part = "store" /\ Store!Next
     /\ UNCHANGED <<part, vars, logVars, sharingVars, emitterVars>>
  \/ /\ part = "emitter" /\ Emitter!Next
     /\ UNCHANGED <<part, vars, logVars, sharingVars, storeVars>>

PartSpec == PartInit /\ [][PartNext]_partVars

----------------------------------------------------------------------------
\* A log keeps what was appended, once and in order, writes nothing behind a
\* torn line, and has written what a flush() that resolved was asked to write
\* (AppendLogStore).
LogIntact == part = "log" =>
  /\ Log!TypeOK
  /\ Log!NothingLost
  /\ Log!FileInOrder
  /\ Log!TornLineIsLast
  /\ Log!FlushedIsWritten

\* A turn runs under the session lock and on the whole journal, its records can
\* be read back, and a journal is migrated before anything is appended to it
\* (SessionRunGateService, WireService).
TurnOwnsTheJournal == part = "sharing" =>
  /\ Sharing!TypeOK
  /\ Sharing!TurnHoldsTheLock
  /\ Sharing!TurnSeesTheJournal
  /\ Sharing!TurnRecordsReadable
  /\ Sharing!MigratedFirst

\* Repair and migration lose no record that could be read, although they write
\* what was read earlier (WireService, repair.ts).
RecordsKept == Sharing!RecordsKept

\* When its operations are done the event store and the wire journal hold every
\* event once and in order, whatever resets, failures and restarts overlapped
\* with the dispatches (createEventStore).
StoreComplete == part = "store" =>
  /\ Store!TypeOK
  /\ Store!StateComplete
  /\ Store!WireComplete
  /\ Store!RefsAscend

\* A listener hears every event once and in order, and a call resolves after
\* the listeners are done (AsyncEmitter).
EventsReachListeners == part = "emitter" =>
  /\ Emitter!TypeOK
  /\ Emitter!DeliveredInOrder
  /\ Emitter!ResolvesAfterItsListeners
==============================================================================
