--------------------------- MODULE SessionSharing ---------------------------
(***************************************************************************)
(* Several processes that have one session open (wire/wireService.ts,      *)
(* wire/repair.ts, session/sessionActivity/sessionRunGateService.ts): each *)
(* has read the journal of an agent into memory, and whoever holds the     *)
(* session lock may run a turn and append to it.  A process may crash in   *)
(* the middle of a write and leave a torn line; the next one to open the   *)
(* journal rewrites it to what can be read.                                *)
(*                                                                         *)
(* The lock excludes (module SessionLock says when it does not), and that  *)
(* of a dead process is free.  The append log (module AppendLog) writes    *)
(* one record at a time and does not fail.                                 *)
(***************************************************************************)
EXTENDS Naturals, Sequences, FiniteSets

CONSTANTS Processes, NoProcess,
          MaxRecords,     \* bound: records appended
          MaxCrashes      \* bound: crashes

VARIABLES disk,           \* lines of the journal
          legacy,         \* the journal has an older protocol version
          lock,           \* the process that holds the session
          proc,           \* the memory of each process
          appended, crashes,
          blind,          \* a write outside a turn to a journal the writer had not seen
          late            \* a lock was released while a write was in flight

vars == <<disk, legacy, lock, proc, appended, crashes, blind, late>>
bounds == <<appended, crashes>>

\* A line: a record, appended during a turn or outside one, or a torn one.
Line(id, turn) == [id |-> id, turn |-> turn]
Torn == Line(0, FALSE)
Metadata == Line(1, TRUE)

\* The length in bytes: a torn line is shorter than a record.
Bytes(s) == 2 * Len(s) - Cardinality({i \in DOMAIN s : s[i] = Torn})

\* What read() yields: the lines before the first torn one.
Readable(s) ==
  LET torn == {i \in DOMAIN s : s[i] = Torn}
  IN  IF torn = {} THEN s
      ELSE SubSeq(s, 1, (CHOOSE i \in torn : \A j \in torn : i <= j) - 1)

Closed == [step |-> "closed", known |-> 0, pending |-> <<>>, queue |-> <<>>,
           rewrite |-> <<>>, owed |-> "nothing", io |-> "none", at |-> 0,
           busy |-> FALSE, releasing |-> "no"]

Init ==
  /\ disk \in {<<>>, <<Metadata>>}
  /\ legacy \in {FALSE, disk # <<>>}
  /\ lock = NoProcess
  /\ proc = [p \in Processes |-> Closed]
  /\ appended = 1 /\ crashes = 0
  /\ blind = FALSE /\ late = FALSE

Set(p, s) == proc' = [proc EXCEPT ![p] = s]
Is(p, step) == proc[p].step = step

\* tryHold
CanHold(p) == lock \in {NoProcess, p}

\* externallyModified, with the bytes of the own write in flight.
externallyModified(p) ==
  LET s == proc[p]
  IN  \/ Bytes(disk) < s.known
      \/ Bytes(disk) > s.known + (IF s.io \in {"write", "part"} THEN 2 ELSE 0)

----------------------------------------------------------------------------
(* Opening the session: readEntries.                                       *)

\* The journal is read, a torn one perhaps again; an empty one gets its
\* metadata record.  What has to be written back is decided next.
Read(p) ==
  /\ Is(p, "closed") \/ Is(p, "read")
  /\ Set(p, [Closed EXCEPT
       !.step = "read", !.known = Bytes(disk),
       !.rewrite = IF Readable(disk) = <<>> THEN <<Metadata>> ELSE Readable(disk),
       !.owed = IF Readable(disk) # disk THEN "repair"
                ELSE IF legacy \/ disk = <<>> THEN "migration" ELSE "nothing"])
  /\ UNCHANGED <<disk, legacy, lock, bounds, blind, late>>

\* pendingRepair or pendingRewrite, once the rewrite was not made at once.
Owes(s) == s.owed # "nothing"

\* Mutant: the journal is written back although it has changed since.
MayRewriteStale(p) == CanHold(p)

\* The condition of repairJournal and of rewriteMigratedJournal.
MayRewrite(p) == CanHold(p) /\ ~externallyModified(p)

\* repairJournal, rewriteMigratedJournal: write now, or owe it.
Settle(p) ==
  /\ Is(p, "read")
  /\ IF Owes(proc[p]) /\ MayRewrite(p)
     THEN Set(p, [proc[p] EXCEPT !.step = "open", !.io = "rewrite"]) /\ lock' = p
     ELSE Set(p, [proc[p] EXCEPT !.step = "open"]) /\ UNCHANGED lock
  /\ UNCHANGED <<disk, legacy, bounds, blind, late>>

\* The rewrite of the append log has finished.
Rewritten(p) ==
  /\ proc[p].io = "rewrite"
  /\ disk' = proc[p].rewrite
  /\ legacy' = FALSE
  /\ Set(p, [proc[p] EXCEPT !.io = "none", !.owed = "nothing", !.rewrite = <<>>, !.known = Bytes(disk')])
  /\ UNCHANGED <<lock, bounds, blind, late>>

----------------------------------------------------------------------------
(* Appending.                                                              *)

\* appendRecord takes the direct way: nothing owed, nothing queued and no
\* parts to offload.
Direct(s, slow) == ~Owes(s) /\ s.io # "rewrite" /\ s.queue = <<>> /\ ~slow

\* During a turn or outside one.
AppendRecord(p, slow) ==
  LET s == proc[p]
      r == Line(appended + 1, s.busy)
  IN  /\ Is(p, "open") /\ appended < MaxRecords
      /\ appended' = appended + 1
      /\ Set(p, IF Direct(s, slow) THEN [s EXCEPT !.pending = Append(@, r)]
                                   ELSE [s EXCEPT !.queue = Append(@, r)])
      /\ UNCHANGED <<disk, legacy, lock, crashes, blind, late>>

\* The next promise of persistQueue: pay what is owed, or refuse the record.
QueueStep(p) ==
  LET s == proc[p] IN
  /\ Is(p, "open") /\ s.queue # <<>> /\ s.io # "rewrite"
  /\ IF ~Owes(s)
     THEN /\ Set(p, [s EXCEPT !.queue = Tail(@), !.pending = Append(@, Head(s.queue))])
          /\ UNCHANGED lock
     ELSE IF MayRewrite(p)
     THEN Set(p, [s EXCEPT !.io = "rewrite"]) /\ lock' = p
     ELSE Set(p, [s EXCEPT !.queue = Tail(@)]) /\ UNCHANGED lock
  /\ UNCHANGED <<disk, legacy, bounds, blind, late>>

\* drain: the write guard is tryHold, and nothing else.
StartWrite(p) ==
  LET s == proc[p] IN
  /\ Is(p, "open") /\ s.pending # <<>> /\ s.io = "none"
  /\ CanHold(p) /\ lock' = p
  /\ Set(p, [s EXCEPT !.io = "write"])
  /\ blind' = (blind \/ (~s.busy /\ externallyModified(p)))
  /\ UNCHANGED <<disk, legacy, bounds, late>>

WritePart(p) ==
  /\ proc[p].io = "write"
  /\ disk' = Append(disk, Torn)
  /\ Set(p, [proc[p] EXCEPT !.io = "part", !.at = Len(disk')])
  /\ UNCHANGED <<legacy, lock, bounds, blind, late>>

WriteDone(p) ==
  LET s == proc[p] IN
  /\ s.io = "part" /\ s.at <= Len(disk)
  /\ disk' = [disk EXCEPT ![s.at] = Head(s.pending)]
  /\ Set(p, [s EXCEPT !.io = "none", !.at = 0, !.pending = Tail(@), !.known = @ + 2])
  /\ UNCHANGED <<legacy, lock, bounds, blind, late>>

----------------------------------------------------------------------------
(* The run gate.                                                           *)

\* begin(), at the start of a turn, an undo or a compaction.
Begin(p) ==
  /\ Is(p, "open") /\ CanHold(p) /\ ~externallyModified(p)
  /\ lock' = p
  /\ Set(p, [proc[p] EXCEPT !.busy = TRUE])
  /\ UNCHANGED <<disk, legacy, bounds, blind, late>>

\* "was updated by another client; reload it before continuing"
BeginStale(p) ==
  /\ Is(p, "open") /\ CanHold(p) /\ externallyModified(p)
  /\ lock' = NoProcess
  /\ late' = (late \/ proc[p].io # "none")
  /\ UNCHANGED <<disk, legacy, proc, bounds, blind>>

EndTurn(p) ==
  /\ proc[p].busy
  /\ Set(p, [proc[p] EXCEPT !.busy = FALSE])
  /\ UNCHANGED <<disk, legacy, lock, bounds, blind, late>>

\* releaseWhenIdle: the timer fires, the flush resolves, and the lock goes if
\* the session is still idle.
ReleaseFlush(p) ==
  LET s == proc[p] IN
  /\ Is(p, "open") /\ ~s.busy /\ lock = p /\ s.releasing = "no"
  /\ Set(p, [s EXCEPT !.releasing = "flush"])
  /\ UNCHANGED <<disk, legacy, lock, bounds, blind, late>>

ReleaseFlushed(p) ==
  LET s == proc[p] IN
  /\ s.releasing = "flush" /\ s.pending = <<>> /\ s.io = "none"
  /\ Set(p, [s EXCEPT !.releasing = "flushed"])
  /\ UNCHANGED <<disk, legacy, lock, bounds, blind, late>>

\* Mutant: whether the session is idle is not asked again after the flush.
KeepsNever(s) == FALSE

StillBusy(s) == s.busy

ReleaseLock(p) ==
  LET s == proc[p] IN
  /\ s.releasing = "flushed"
  /\ Set(p, [s EXCEPT !.releasing = "no"])
  /\ IF StillBusy(s) \/ lock # p
     THEN UNCHANGED <<lock, late>>
     ELSE lock' = NoProcess /\ late' = (late \/ s.io # "none")
  /\ UNCHANGED <<disk, legacy, bounds, blind>>

\* The session is closed, perhaps to be reloaded.
Close(p) ==
  LET s == proc[p] IN
  /\ Is(p, "open") /\ ~s.busy /\ s.pending = <<>> /\ s.queue = <<>> /\ s.io = "none"
  /\ Set(p, Closed)
  /\ lock' = IF lock = p THEN NoProcess ELSE lock
  /\ UNCHANGED <<disk, legacy, bounds, blind, late>>

\* A crash during a write leaves a torn line; a rewrite is atomic.
Crash(p) ==
  /\ ~Is(p, "closed") /\ crashes < MaxCrashes
  /\ crashes' = crashes + 1
  /\ Set(p, Closed)
  /\ lock' = IF lock = p THEN NoProcess ELSE lock
  /\ UNCHANGED <<disk, legacy, appended, blind, late>>

Next ==
  \E p \in Processes :
    \/ Read(p) \/ Settle(p) \/ Rewritten(p)
    \/ \E slow \in BOOLEAN : AppendRecord(p, slow)
    \/ QueueStep(p) \/ StartWrite(p) \/ WritePart(p) \/ WriteDone(p)
    \/ Begin(p) \/ BeginStale(p) \/ EndTurn(p)
    \/ ReleaseFlush(p) \/ ReleaseFlushed(p) \/ ReleaseLock(p)
    \/ Close(p) \/ Crash(p)

Spec == Init /\ [][Next]_vars

----------------------------------------------------------------------------
(* Properties.                                                             *)

TypeOK ==
  /\ lock \in Processes \cup {NoProcess}
  /\ \A p \in Processes :
       /\ proc[p].step \in {"closed", "read", "open"}
       /\ proc[p].io \in {"none", "write", "part", "rewrite"}
       /\ proc[p].io = "rewrite" => proc[p].owed # "nothing"

\* A turn runs under the session lock: a release that was started while the
\* session was idle does not take it away.  Here and in the next three: unless
\* a lock was released while a write was in flight, or a record was written
\* outside a turn to a journal that its writer had not seen.
TurnHoldsTheLock ==
  blind \/ late \/ \A p \in Processes : proc[p].busy => lock = p

\* The process that runs a turn has seen the whole journal: nobody has
\* written to it since the process read it.
TurnSeesTheJournal ==
  blind \/ late \/ \A p \in Processes : proc[p].busy => ~externallyModified(p)

\* A record of a turn is never written behind a torn line, where no reader
\* would find it, whoever crashed and whoever was open at the time.
TurnRecordsReadable ==
  blind \/ late \/ \A i, j \in DOMAIN disk : i < j /\ disk[i] = Torn => ~disk[j].turn

\* Records in the journal stay in it: the repair and the migration write back
\* everything that was readable, although they write what was read earlier.
RecordsKept ==
  [][blind \/ late \/
     \A i \in DOMAIN disk : disk[i] # Torn => \E j \in DOMAIN disk' : disk'[j] = disk[i]]_vars

\* Nothing is appended to a journal of an older version: the migration comes
\* first, also when another process holds the lock at the time of the read.
MigratedFirst == legacy => Len(disk) <= 1

=============================================================================
