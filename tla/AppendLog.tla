------------------------------ MODULE AppendLog ------------------------------
(***************************************************************************)
(* One log of the append-log store (persistence/backends/node-fs/          *)
(* appendLogStore.ts): appends are kept in memory and written in batches by *)
(* one flush at a time, a rewrite replaces the file, and a released log is  *)
(* retired while its successor already accepts records.                    *)
(*                                                                         *)
(* Records are numbered in the order of their append, so a sequence is in  *)
(* order and free of duplicates when it increases.  `flushPromise` and the *)
(* operations it waits for are a queue: the head runs, the last one is     *)
(* flushPromise.  Lengths are counted in records.                          *)
(***************************************************************************)
EXTENDS Naturals, Sequences

CONSTANTS MaxRecords,     \* bound: records appended
          MaxRewrites,    \* bound: calls of rewrite
          Faults          \* may the storage fail?

VARIABLES disk,           \* the file
          logs,           \* the LogState in use and the retired one before it
          guardOpen,      \* what the write guard answers
          reader,         \* the one client that reads the log and rewrites it
          appended,       \* number of records accepted
          rewrites,       \* number of rewrites asked for
          flushed,        \* records appended before a flush() that has resolved
          dropped,        \* records given up when their log was retired
          stale,          \* written records that a rewrite was asked to leave out
          again,          \* records a rewrite was given while they were pending
          excused         \* what has happened of "reopened", a log retired with work
                          \* to do, and "handled": see RewriteHandled

vars == <<disk, logs, guardOpen, reader, appended, rewrites, flushed, dropped, stale, again, excused>>
history == <<appended, rewrites, flushed, dropped, stale, again, excused>>

\* What a failed append can leave behind: the start of a line.
Torn == 0
Unknown == MaxRecords * (MaxRewrites + 3)

Gens == {"cur", "old"}

\* A state made by state(): nothing pending, no flush, nothing known.
Fresh == [pending |-> <<>>, ops |-> <<>>, failure |-> FALSE, scheduled |-> FALSE,
          declined |-> FALSE, known |-> Unknown, alive |-> TRUE]
Gone == [Fresh EXCEPT !.alive = FALSE]
NoReader == [step |-> "idle", start |-> 0, records |-> <<>>]

Init ==
  /\ disk = <<>>
  /\ logs = [g \in Gens |-> IF g = "cur" THEN Fresh ELSE Gone]
  /\ guardOpen = TRUE
  /\ reader = NoReader
  /\ appended = 0 /\ rewrites = 0
  /\ flushed = {} /\ dropped = {} /\ stale = {} /\ again = {}
  /\ excused = {}

Elements(s) == {s[i] : i \in DOMAIN s}
Running(g) == logs[g].ops # <<>>
Current(g) == Head(logs[g].ops)

\* The operation at the head has reached `step`.
At(g, step) == Running(g) /\ Current(g).step = step

\* `state.ready`: the log before this one is retired.
Ready(g) == g = "old" \/ ~logs["old"].alive

\* An operation under ownFlush: a flush starts with a drain, a rewrite with
\* its write; both go on with drains.
Op(kind, records, callers) ==
  [kind |-> kind, step |-> IF kind = "flush" THEN "ready" ELSE "wait", cut |-> FALSE,
   batch |-> <<>>, records |-> records, callers |-> callers]

SetLog(g, l) == logs' = [logs EXCEPT ![g] = l]

\* flushState: join the flush in flight, be refused, or start one.  `callers`
\* are the records that whoever awaits the result expects to be written.
Flushing(l, callers) ==
  IF l.ops # <<>>
  THEN [l EXCEPT !.ops[Len(l.ops)].callers = @ \cup callers]
  ELSE IF l.failure THEN l
  ELSE [l EXCEPT !.ops = <<Op("flush", <<>>, callers)>>]

----------------------------------------------------------------------------
\* append(), which schedules a flush when none is in flight.
AppendRecord ==
  /\ appended < MaxRecords
  /\ appended' = appended + 1
  /\ SetLog("cur", [logs["cur"] EXCEPT !.pending = Append(@, appended + 1),
                                      !.scheduled = (@ \/ ~Running("cur"))])
  /\ UNCHANGED <<disk, guardOpen, reader, rewrites, flushed, dropped, stale, again, excused>>

ScheduledFlush(g) ==
  /\ logs[g].scheduled
  /\ SetLog(g, [Flushing(logs[g], {}) EXCEPT !.scheduled = FALSE])
  /\ UNCHANGED <<disk, guardOpen, reader, history>>

\* flush() and flushLog(), awaited by a caller.
Flush ==
  /\ LET l == Flushing(logs["cur"], 1 .. appended)
     IN  l # logs["cur"] /\ SetLog("cur", l)
  /\ UNCHANGED <<disk, guardOpen, reader, history>>

----------------------------------------------------------------------------
(* drain                                                                   *)

\* The next round of the while loop.
WriteBatch(l) == [l EXCEPT !.ops[1].step = "append", !.ops[1].batch = l.pending]

\* drain returned: finishOwnedFlush looks at pending next.
Drained(l) == [l EXCEPT !.ops[1].step = "drained", !.ops[1].batch = <<>>]

\* After `await state.ready`: a rewrite since the call, nothing to write, a
\* guard that declines, or the first batch.
StartDrain(g) ==
  LET l == logs[g] IN
  /\ At(g, "ready") /\ Ready(g)
  /\ SetLog(g, IF Current(g).cut \/ l.pending = <<>> THEN Drained(l)
               ELSE IF ~guardOpen THEN [Drained(l) EXCEPT !.declined = TRUE]
               ELSE WriteBatch(l))
  /\ UNCHANGED <<disk, guardOpen, reader, history>>

\* storage.append: the bytes are in the file, and not yet synced.
AppendBytes(g) ==
  /\ At(g, "append")
  /\ disk' = disk \o Current(g).batch
  /\ SetLog(g, [logs[g] EXCEPT !.ops[1].step = "sync"])
  /\ UNCHANGED <<guardOpen, reader, history>>

\* Mutant: the splice removes one record too few.
SplicedShort(l) ==
  LET rest == SubSeq(l.pending, Len(Head(l.ops).batch), Len(l.pending))
  IN  IF Head(l.ops).cut THEN Drained(l)
      ELSE IF Len(rest) = 1 THEN Drained([l EXCEPT !.pending = rest])
      ELSE WriteBatch([l EXCEPT !.pending = rest])

\* The batch leaves pending, unless a rewrite was asked for meanwhile: the
\* new file may lack the batch, which is then written again.
Spliced(l) ==
  LET rest == SubSeq(l.pending, Len(Head(l.ops).batch) + 1, Len(l.pending))
  IN  IF Head(l.ops).cut THEN Drained(l)
      ELSE IF rest = <<>> THEN Drained([l EXCEPT !.pending = rest, !.declined = FALSE])
      ELSE WriteBatch([l EXCEPT !.pending = rest, !.declined = FALSE])

\* storage.append resolved.
AppendDone(g) ==
  /\ At(g, "sync")
  /\ SetLog(g, Spliced([logs[g] EXCEPT
                 !.known = IF @ = Unknown THEN @ ELSE @ + Len(Current(g).batch)]))
  /\ UNCHANGED <<disk, guardOpen, reader, history>>

\* The end of an operation that failed: the failure is latched.
Failed(l) == [l EXCEPT !.ops = Tail(@), !.failure = TRUE]

\* storage.append rejected after it had written nothing, a part of the batch
\* or all of it.
AppendFailed(g) ==
  /\ Faults
  /\ \/ At(g, "sync") /\ UNCHANGED disk
     \/ /\ At(g, "append")
        /\ \E n \in 0 .. Len(Current(g).batch) - 1, rest \in {<<>>, <<Torn>>} :
             disk' = disk \o SubSeq(Current(g).batch, 1, n) \o rest
  /\ SetLog(g, Failed(logs[g]))
  /\ UNCHANGED <<guardOpen, reader, history>>

----------------------------------------------------------------------------
(* rewrite                                                                 *)

\* cutoverEpoch++: a drain that runs or waits for `ready` notices.
Cutover(l) == [i \in DOMAIN l.ops |-> [l.ops[i] EXCEPT !.cut = TRUE]]

InFlight(l) == IF l.ops # <<>> /\ Head(l.ops).step \in {"append", "sync"} THEN Len(Head(l.ops).batch) ELSE 0

\* externallyModified(): the file is not the one a rewrite in flight is about
\* to leave, and is shorter than what this log knows of it, or longer than
\* that and the batch in flight.
externallyModified(l) ==
  /\ l.known # Unknown
  /\ ~(l.ops # <<>> /\ Head(l.ops).step \in {"write", "renamed"} /\ Len(disk) = Len(Head(l.ops).records))
  /\ Len(disk) < l.known \/ Len(disk) > l.known + InFlight(l)

\* The client asks for a rewrite with the records it has read, unless the
\* file has changed in a way this log cannot account for.
Rewrite ==
  LET l == logs["cur"] IN
  /\ reader.step = "read"
  /\ ~externallyModified(l)
  /\ SetLog("cur", [l EXCEPT !.ops = Append(Cutover(l), Op("rewrite", reader.records, {}))])
  /\ rewrites' = rewrites + 1
  /\ stale' = stale \cup (Elements(disk) \ (Elements(reader.records) \cup Elements(l.pending)))
  /\ again' = again \cup (Elements(reader.records) \cap Elements(l.pending))
  /\ reader' = NoReader
  /\ UNCHANGED <<disk, guardOpen, appended, flushed, dropped, excused>>

RewriteDeclined ==
  /\ reader.step = "read" /\ externallyModified(logs["cur"])
  /\ reader' = NoReader
  /\ UNCHANGED <<disk, logs, guardOpen, history>>

\* priorSettled: the rewrite is the oldest operation and the log is ready.
StartRewrite(g) ==
  /\ At(g, "wait") /\ Ready(g)
  /\ SetLog(g, [logs[g] EXCEPT !.ops[1].step = "write"])
  /\ UNCHANGED <<disk, guardOpen, reader, history>>

\* The atomic write has renamed the new file into place.
RewriteRenamed(g) ==
  /\ At(g, "write")
  /\ disk' = Current(g).records
  /\ SetLog(g, [logs[g] EXCEPT !.ops[1].step = "renamed"])
  /\ UNCHANGED <<guardOpen, reader, history>>

Rewritten(l) == [Drained(l) EXCEPT !.failure = FALSE, !.known = Len(Head(l.ops).records)]

RewriteDone(g) ==
  /\ At(g, "renamed")
  /\ SetLog(g, Rewritten(logs[g]))
  /\ UNCHANGED <<disk, guardOpen, reader, history>>

\* The write is rejected, and the caller gave no onError.
RewriteFailed(g) ==
  /\ Faults /\ (At(g, "write") \/ At(g, "renamed"))
  /\ SetLog(g, Failed(logs[g]))
  /\ UNCHANGED <<disk, guardOpen, reader, history>>

\* The write is rejected and the caller's onError is told: the operation goes
\* on with its drains, even when an earlier failure is latched, and writes
\* again what a flush before it has left in the file.
RewriteHandled(g) ==
  /\ Faults /\ (At(g, "write") \/ At(g, "renamed"))
  /\ SetLog(g, Drained(logs[g]))
  /\ excused' = IF logs[g].failure \/ Elements(logs[g].pending) \cap Elements(disk) # {}
                THEN excused \cup {"handled"} ELSE excused
  /\ UNCHANGED <<disk, guardOpen, reader, appended, rewrites, flushed, dropped, stale, again>>

\* The loop of finishOwnedFlush goes on: flushPromise is still its own, there
\* is something to write and the guard allows it.
DrainAgain(l) == Len(l.ops) = 1 /\ l.pending # <<>> /\ guardOpen

\* finishOwnedFlush after a drain or a rewrite.
Finish(g) ==
  LET l == logs[g] IN
  /\ At(g, "drained")
  /\ IF DrainAgain(l)
     THEN /\ SetLog(g, [l EXCEPT !.ops[1].step = "ready", !.ops[1].cut = FALSE])
          /\ UNCHANGED flushed
     ELSE /\ SetLog(g, [l EXCEPT !.ops = Tail(@),
                               !.declined = l.pending # <<>> /\ (@ \/ (Len(l.ops) = 1 /\ ~guardOpen))])
          /\ flushed' = flushed \cup Current(g).callers
  /\ UNCHANGED <<disk, guardOpen, reader, appended, rewrites, dropped, stale, again, excused>>

----------------------------------------------------------------------------
(* read                                                                    *)

\* read() starts with a flush and goes on when that has resolved.
ReadFlush ==
  /\ reader.step = "idle" /\ rewrites < MaxRewrites
  /\ ~logs["cur"].failure
  /\ reader' = [reader EXCEPT !.step = "flush"]
  /\ SetLog("cur", Flushing(logs["cur"], {}))
  /\ UNCHANGED <<disk, guardOpen, history>>

ReadStart ==
  /\ reader.step = "flush" /\ ~Running("cur")
  /\ reader' = IF logs["cur"].failure THEN NoReader
               ELSE [reader EXCEPT !.step = "stream", !.start = Len(disk)]
  /\ UNCHANGED <<disk, logs, guardOpen, history>>

\* The stream returns what the file held when it was opened, and perhaps what
\* was added since, up to a torn line.  A file that has grown during the read is
\* known up to its old length.
ReadEnd ==
  /\ reader.step = "stream"
  /\ \E n \in reader.start .. Len(disk) :
       reader' = [step |-> "read", start |-> 0,
                  records |-> SelectSeq(SubSeq(disk, 1, n), LAMBDA r : r # Torn)]
  /\ SetLog("cur", [logs["cur"] EXCEPT !.known = reader.start])
  /\ UNCHANGED <<disk, guardOpen, history>>

----------------------------------------------------------------------------
\* The answer of the guard: whether the session lock could be held.
GuardTurns ==
  /\ guardOpen' = ~guardOpen
  /\ UNCHANGED <<disk, logs, reader, history>>

\* release() by the last user: the state is retired, with a last flush, and
\* the next call of state() makes a new one that waits for it.
Release ==
  /\ ~logs["old"].alive /\ reader = NoReader
  /\ Running("cur") \/ logs["cur"].pending # <<>> \/ logs["cur"].failure
  /\ logs' = [logs EXCEPT !["old"] = Flushing(logs["cur"], {}), !["cur"] = Fresh]
  /\ excused' = excused \cup {"reopened"}
  /\ UNCHANGED <<disk, guardOpen, reader, appended, rewrites, flushed, dropped, stale, again>>

\* settleRetiredState: whatever is still pending is dropped.
Retired ==
  /\ logs["old"].alive /\ ~Running("old")
  /\ dropped' = dropped \cup Elements(logs["old"].pending)
  /\ SetLog("old", Gone)
  /\ UNCHANGED <<disk, guardOpen, reader, appended, rewrites, flushed, stale, again, excused>>

Storage(g) ==
  \/ ScheduledFlush(g) \/ StartDrain(g) \/ Finish(g)
  \/ AppendBytes(g) \/ AppendDone(g) \/ AppendFailed(g)
  \/ StartRewrite(g) \/ RewriteRenamed(g) \/ RewriteDone(g)
  \/ RewriteFailed(g) \/ RewriteHandled(g)

Next ==
  \/ AppendRecord \/ Flush \/ Rewrite \/ RewriteDeclined
  \/ ReadFlush \/ ReadStart \/ ReadEnd
  \/ GuardTurns \/ Release \/ Retired
  \/ \E g \in Gens : Storage(g)

Spec == Init /\ [][Next]_vars

----------------------------------------------------------------------------
(* Properties.                                                             *)

Numbers == 0 .. MaxRecords
TypeOK ==
  /\ Elements(disk) \subseteq Numbers
  /\ reader.step \in {"idle", "flush", "stream", "read"}
  /\ \A g \in Gens :
       /\ Elements(logs[g].pending) \subseteq 1 .. appended
       /\ logs[g].known \in 0 .. Unknown
       /\ \A i \in DOMAIN logs[g].ops : i > 1 => logs[g].ops[i].step = "wait"

Pending == UNION {Elements(logs[g].pending) : g \in Gens}

\* Every record that append() accepted is in the file or in memory.  Two
\* losses are on purpose: a retired log drops what it may not write, and a
\* rewrite leaves out what its caller has not read.
NothingLost == 1 .. appended \subseteq Elements(disk) \cup Pending \cup dropped \cup stale

\* The file keeps the order of the appends and holds each record once,
\* whatever flushes, rewrites, failures and retired logs do at the same time;
\* except for records that a rewrite was given while they were pending, and
\* after a rewrite that failed between records written and to be written again.
FileInOrder ==
  "handled" \notin excused =>
  LET settled == SelectSeq(disk, LAMBDA r : r \notin again \cup {Torn})
  IN  \A i, j \in DOMAIN settled : i < j => settled[i] < settled[j]

\* Nothing is written behind the torn line of a failed append: a latched
\* failure stops the log.  It does not stop the log that succeeds a retired
\* one, nor a rewrite whose failure its caller handles.
TornLineIsLast == excused = {} => \A i \in DOMAIN disk : disk[i] = Torn => i = Len(disk)

RewriteInFlight(l) == \E i \in DOMAIN l.ops : l.ops[i].kind = "rewrite"

\* When flush() resolves, the records appended before the call are in the
\* file.  Those that are not are still in memory, for a reason: the guard
\* declined, the storage failed, or a rewrite is to be followed by them.
FlushedIsWritten ==
  \A r \in flushed \ (Elements(disk) \cup dropped \cup stale) :
    \E g \in Gens :
      /\ r \in Elements(logs[g].pending)
      /\ logs[g].declined \/ logs[g].failure \/ RewriteInFlight(logs[g])

=============================================================================
