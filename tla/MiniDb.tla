------------------------------- MODULE MiniDb -------------------------------
(***************************************************************************)
(* The write path of minidb: the write-ahead log with its group commit,    *)
(* the rollback of a failed flush group, the recovery of a poisoned log in *)
(* place, and the compaction that rotates snapshot and log under the       *)
(* writers (wal.ts, wal-group.ts, write-path.ts, compaction.ts,            *)
(* snapshot.ts, recovery.ts, MiniDb.recoverWalInPlace).                    *)
(*                                                                         *)
(* A frame is the operation it carries and an offset is a number of        *)
(* frames; the value an operation writes is the operation itself.  An      *)
(* operation names a set of keys: one for set() and del(), several for     *)
(* batch().  Continuations of settled promises (Runnable) run before the   *)
(* next completion of an I/O call, in any order.  Values live on disk once *)
(* their frame has landed (valueMode 'disk').                              *)
(***************************************************************************)
EXTENDS Naturals, Sequences, SequencesExt, FiniteSets, FiniteSetsExt

CONSTANTS
    Keys,           \* the keys of the store
    Ops,            \* the operations issued, numbered from 1
    KeysOf,         \* KeysOf[o]: the keys operation o writes
    Deletes,        \* the operations that are del()
    Serialized,     \* whether a unique index serializes set() and batch()
    FsyncAlways,    \* whether fsyncPolicy is 'always'
    MaxFaults,      \* bound: failing I/O calls
    MaxThrows,      \* bound: in-memory applies that throw
    MaxCompactions, \* bound: compactions started
    MaxCrashes      \* bound: crashes of the process

ASSUME MiniDbAssumption ==
    /\ Ops \subseteq Nat \ {0}
    /\ KeysOf \in [Ops -> SUBSET Keys \ {{}}]
    /\ Deletes \subseteq Ops

VARIABLES
    pc,       \* pc[o]: where operation o stands
    chain,    \* serializeUniqueWrites: the operations in it, the holder first
    store,    \* store[k]: the record of key k
    preQ,     \* pre-group records of the group still queued
    preF,     \* pre-group records of the group in flight
    wal,      \* the current WAL object
    rec,      \* the in-place recovery of a poisoned WAL
    cp,       \* the compaction
    disk,     \* the files db.snapshot and db.wal
    alt,      \* files a power loss could bring back: renames not yet durable
    rd,       \* the files the ValueReader has open
    disabled, \* writeDisabled
    faults, throws, crashes,
    off,      \* off[o]: the offset appendLoc predicted for the frame of o
    hist,     \* operations in the order their frames were queued
    mark      \* what the properties except

writing == <<pc, chain, store, preQ, preF>>
files == <<disk, alt, rd>>
spent == <<faults, throws, crashes>>
notes == <<off, hist, mark>>
vars == <<writing, wal, rec, cp, files, disabled, spent, notes>>

None == 0
NoOffset == 1000   \* no offset: larger than any offset of a run

-----------------------------------------------------------------------------
(* Records, groups and files. *)

InMemory == <<"memory", 0>>
Absent == [v |-> None, by |-> None, loc |-> InMemory]
NoPre == [k \in {} |-> Absent]

\* What operation o leaves in key k.
Written(o) == IF o \in Deletes THEN None ELSE o

\* applyOp: the records of st after operation o.  `by` stands for the
\* record's seq, unique to this apply.
ApplyOp(st, o) ==
    [k \in Keys |->
        IF k \notin KeysOf[o] THEN st[k]
        ELSE IF o \in Deletes THEN Absent
        ELSE [v |-> o, by |-> o, loc |-> InMemory]]

\* restoreGroupKey for every key of pre: the old record under a new seq.
Restore(st, pre) ==
    [k \in Keys |-> IF k \in DOMAIN pre THEN [pre[k] EXCEPT !.by = None] ELSE st[k]]

\* groupNoteKey: the earliest capture per key wins.
Noted(pre, st, o) ==
    [k \in DOMAIN pre \cup KeysOf[o] |-> IF k \in DOMAIN pre THEN pre[k] ELSE st[k]]

\* What replaying the log ws over the snapshot sn leaves: last writer wins.
Recovered(sn, ws) ==
    [k \in Keys |->
        LET writes == {i \in 1..Len(ws) : k \in KeysOf[ws[i]]}
        IN  IF writes = {} THEN sn[k] ELSE Written(ws[Max(writes)])]

FreshWal(opened, size) ==
    [next |-> size, size |-> size, queue |-> <<>>, inflight |-> <<>>, start |-> 0,
     syncing |-> FALSE, sealed |-> FALSE, closed |-> FALSE, opened |-> opened,
     poison |-> NoOffset]

IdleRecovery == [at |-> "idle", old |-> FALSE, offset |-> NoOffset]

IdleCompaction ==
    [at |-> "off", base |-> 0, copied |-> 0, tmp |-> [k \in Keys |-> None],
     tail |-> <<>>, rotated |-> FALSE, unacked |-> {}, started |-> 0]

Poisoned(w) == w.poison # NoOffset
Settled == {"ok", "failed"}

\* Operations whose awaited promise has settled: they run before the next
\* I/O completion is delivered.
Runnable == {o \in Ops : pc[o] \in {"entered", "run", "resume"}}

\* _rotateLock is held from the seal to the end of the rotation.
RotateLock == cp.at \in {"drain", "close", "renSnap", "dir1", "renWal", "dir2", "open", "catch"}

Idle(w) == w.inflight = <<>> /\ w.queue = <<>>

\* Operations in ops take the outcome; the holder of the unique-write chain
\* hands it to the next one when it settles.
Settle(ops, outcome) ==
    LET done == [o \in Ops |-> IF o \in ops THEN outcome ELSE pc[o]]
        over == chain # <<>> /\ done[Head(chain)] \in Settled
    IN  /\ chain' = IF over THEN Tail(chain) ELSE chain
        /\ pc' = IF over /\ Len(chain) > 1
                 THEN [done EXCEPT ![chain[2]] = "run"] ELSE done

\* kickWalRecovery: one recovery per poison.
Kick(w) ==
    rec' = IF Poisoned(w) /\ rec.at = "idle"
           THEN [at |-> "wait", old |-> FALSE, offset |-> NoOffset] ELSE rec

\* poisonWith: a second failure widens the truncation point.
PoisonWith(w, o) == [w EXCEPT !.poison = Min({w.poison, o})]

Fault == faults < MaxFaults /\ faults' = faults + 1
NoFault == UNCHANGED faults
Event == Runnable = {}

-----------------------------------------------------------------------------
Init ==
    /\ pc = [o \in Ops |-> "new"]
    /\ chain = <<>>
    /\ store = [k \in Keys |-> Absent]
    /\ preQ = NoPre /\ preF = NoPre
    /\ wal = FreshWal(TRUE, 0)
    /\ rec = IdleRecovery
    /\ cp = IdleCompaction
    /\ disk = [snap |-> [k \in Keys |-> None], wal |-> <<>>, synced |-> 0]
    /\ alt = [snaps |-> {}, wals |-> {}]
    /\ rd = [snap |-> [k \in Keys |-> None], wal |-> <<>>, live |-> TRUE]
    /\ disabled = FALSE
    /\ faults = 0 /\ throws = 0 /\ crashes = 0
    /\ off = [o \in Ops |-> 0]
    /\ hist = <<>>
    /\ mark = [tainted |-> {},      \* keys a snapshot holds as a failed write left them
               weak |-> {},         \* acknowledged under 'always' without their fsync
               undurable |-> FALSE, \* the log's rename is in use and not fsynced
               stranded |-> FALSE,  \* a rotation failed and so did its catch
               overlap |-> FALSE]   \* a compaction fenced during a recovery

-----------------------------------------------------------------------------
(* The write operations. *)

\* set(), del(), batch(): the checks, then the writer gate of a rotation.
Start(o) ==
    /\ Event
    /\ pc[o] = "new"
    /\ pc' = [pc EXCEPT ![o] = IF disabled THEN "failed"
                               ELSE IF RotateLock THEN "parked" ELSE "entered"]
    /\ UNCHANGED <<chain, store, preQ, preF, wal, rec, cp, files, disabled, spent,
                   notes>>

\* Past the gate: del() of a missing key is done, set() and batch() take
\* their turn in the unique-write chain.
Enter(o) ==
    /\ pc[o] = "entered"
    /\ LET chained == Serialized /\ o \notin Deletes
       IN  /\ pc' = [pc EXCEPT ![o] =
                       IF o \in Deletes /\ \A k \in KeysOf[o] : store[k].v = None THEN "ok"
                       ELSE IF chained /\ chain # <<>> THEN "chained" ELSE "run"]
           /\ chain' = IF chained THEN Append(chain, o) ELSE chain
    /\ UNCHANGED <<store, preQ, preF, wal, rec, cp, files, disabled, spent, notes>>

\* walRecoveryGate: throw while writes are disabled, wait for a recovery.
Gate(o) ==
    /\ pc[o] = "run"
    /\ IF disabled THEN Settle({o}, "failed")
       ELSE /\ pc' = [pc EXCEPT ![o] = IF rec.at = "idle" THEN "resume" ELSE "gated"]
            /\ UNCHANGED chain
    /\ UNCHANGED <<store, preQ, preF, wal, rec, cp, files, disabled, spent, notes>>

\* The commit body: append the frame and apply the operation in one tick.
AppendFrame(o) ==
    /\ pc[o] = "resume"
    /\ ~wal.closed /\ ~Poisoned(wal) /\ ~wal.sealed
    /\ wal' = [wal EXCEPT !.queue = Append(@, o), !.next = @ + 1]
    /\ store' = ApplyOp(store, o)
    /\ preQ' = Noted(preQ, store, o)
    /\ off' = [off EXCEPT ![o] = wal.next]
    /\ hist' = Append(hist, o)
    /\ pc' = [pc EXCEPT ![o] = "sent"]
    /\ UNCHANGED <<chain, preF, rec, cp, files, disabled, spent, mark>>

\* The same with an apply that throws (a text index registered between
\* prepare and apply): poisonPending rejects everything queued and the group
\* is rolled back; the batch in flight keeps its own fate.
AppendThrows(o) ==
    /\ pc[o] = "resume"
    /\ throws < MaxThrows
    /\ ~wal.closed /\ ~Poisoned(wal) /\ ~wal.sealed
    /\ throws' = throws + 1
    /\ LET w == [PoisonWith(wal, wal.next - Len(wal.queue))
                    EXCEPT !.queue = <<>>, !.next = @ + 1]
       IN  /\ wal' = w
           /\ Kick(w)
    /\ store' = Restore(store, Noted(preQ, store, o))
    /\ preQ' = NoPre
    /\ hist' = Append(hist, o)
    /\ Settle({o} \cup ToSet(wal.queue), "failed")
    /\ UNCHANGED <<preF, cp, files, disabled, faults, crashes, off, mark>>

\* A frame the log refuses at once: the operation is applied and taken back
\* in the same tick (restoreKey).  Sealed, or closed inside a rotation, it is
\* retried after the rotation; otherwise it fails.
AppendRefused(o) ==
    /\ pc[o] = "resume"
    /\ wal.closed \/ Poisoned(wal) \/ wal.sealed
    /\ IF RotateLock /\ (wal.closed \/ ~Poisoned(wal))
       THEN pc' = [pc EXCEPT ![o] = "reparked"] /\ UNCHANGED chain
       ELSE Settle({o}, "failed")
    /\ store' = Restore(store, Noted(NoPre, store, o))
    /\ Kick(wal)
    /\ UNCHANGED <<preQ, preF, wal, cp, files, disabled, spent, notes>>

-----------------------------------------------------------------------------
(* The flush. *)

\* A failed flush of w: poison at the start of the batch, reject what is
\* queued, newest first, then the batch; their groups roll back in that order.
FailFlush(w, queued, flown) ==
    /\ LET p == [PoisonWith(w, w.start) EXCEPT !.queue = <<>>, !.inflight = <<>>, !.syncing = FALSE]
       IN  wal' = p /\ Kick(p)
    /\ store' = Restore(Restore(store, queued), flown)
    /\ preQ' = NoPre /\ preF' = NoPre
    /\ Settle(ToSet(w.inflight) \cup ToSet(w.queue), "failed")

\* publishWalRef for the operations of a landed batch: the record an
\* operation wrote, if it is still that one, points into the log.
Publish(st, ops) ==
    [k \in Keys |->
        IF st[k].v # None /\ st[k].by \in ops
        THEN [st[k] EXCEPT !.loc = <<"wal", off[st[k].by]>>, !.by = None] ELSE st[k]]

\* The batch w landed: its operations are acknowledged.
Acknowledge(w) ==
    /\ wal' = [w EXCEPT !.inflight = <<>>, !.syncing = FALSE]
    /\ store' = Publish(store, ToSet(w.inflight))
    /\ preF' = NoPre
    /\ Settle(ToSet(w.inflight), "ok")
    /\ UNCHANGED <<preQ, rec>>

\* flushBatch drains the queue.  A WAL that is not open yet has no file
\* handle: its writev throws in the same tick.
BeginFlush ==
    /\ Event
    /\ wal.queue # <<>> /\ wal.inflight = <<>> /\ ~Poisoned(wal)
    /\ LET w == [wal EXCEPT !.inflight = wal.queue, !.queue = <<>>,
                            !.start = wal.next - Len(wal.queue)]
       IN  IF w.opened
           THEN /\ wal' = w
                /\ preF' = preQ /\ preQ' = NoPre
                /\ UNCHANGED <<pc, chain, store, rec>>
           ELSE FailFlush(w, NoPre, preQ)
    /\ UNCHANGED <<cp, files, disabled, spent, notes>>

\* The batch is in the file.  Under 'always' an fsync follows, but sync() does
\* nothing on a poisoned WAL.
WriteLands ==
    /\ Event
    /\ wal.inflight # <<>> /\ ~wal.syncing
    /\ disk' = [disk EXCEPT !.wal = @ \o wal.inflight]
    /\ LET w == [wal EXCEPT !.size = @ + Len(wal.inflight)]
       IN  IF FsyncAlways /\ ~Poisoned(wal)
           THEN /\ wal' = [w EXCEPT !.syncing = TRUE]
                /\ UNCHANGED <<writing, rec, mark>>
           ELSE /\ Acknowledge(w)
                /\ mark' = IF FsyncAlways
                           THEN [mark EXCEPT !.weak = @ \cup ToSet(w.inflight)] ELSE mark
    /\ UNCHANGED <<cp, alt, rd, disabled, spent, off, hist>>

\* The writev fails after part of the batch.
WriteFails ==
    /\ Event
    /\ wal.inflight # <<>> /\ ~wal.syncing
    /\ Fault
    /\ \E n \in 0..Len(wal.inflight) :
          /\ disk' = [disk EXCEPT !.wal = @ \o SubSeq(wal.inflight, 1, n)]
          /\ FailFlush([wal EXCEPT !.size = @ + n], preQ, preF)
    /\ UNCHANGED <<cp, alt, rd, disabled, throws, crashes, notes>>

\* The fsync of an 'always' flush returns, or fails like a write.
SyncReturns ==
    /\ Event
    /\ wal.syncing
    /\ \/ /\ NoFault
          /\ disk' = [disk EXCEPT !.synced = Len(disk.wal)]
          /\ Acknowledge(wal)
       \/ /\ Fault
          /\ UNCHANGED disk
          /\ FailFlush(wal, preQ, preF)
    /\ UNCHANGED <<cp, alt, rd, disabled, throws, crashes, notes>>

-----------------------------------------------------------------------------
(* recoverWalInPlace *)

\* whenIdle: the point is read again once the batch in flight has settled.
RecoveryIdle ==
    /\ Event
    /\ rec.at = "wait"
    /\ rec.old \/ wal.inflight = <<>>
    /\ rec' = [rec EXCEPT !.at = "truncate", !.offset = IF rec.old THEN @ ELSE wal.poison]
    /\ UNCHANGED <<writing, wal, cp, files, disabled, spent, notes>>

\* Operations waiting at the recovery gate run once the recovery is over.
OpenGate == pc' = [o \in Ops |-> IF pc[o] = "gated" THEN "resume" ELSE pc[o]]

\* Truncate db.wal to the point unless the file is shorter by now; a failure
\* leaves the WAL poisoned and disables writes.
RecoveryTruncate ==
    /\ Event
    /\ rec.at = "truncate"
    /\ \/ /\ NoFault
          /\ disk' = IF rec.offset <= Len(disk.wal)
                     THEN [disk EXCEPT !.wal = SubSeq(@, 1, rec.offset),
                                       !.synced = Min({@, rec.offset})]
                     ELSE disk
          /\ rec' = [rec EXCEPT !.at = "refresh"]
          /\ UNCHANGED <<pc, disabled>>
       \/ /\ Fault
          /\ disabled' = TRUE
          /\ rec' = IdleRecovery
          /\ OpenGate
          /\ UNCHANGED disk
    /\ UNCHANGED <<chain, store, preQ, preF, wal, cp, alt, rd, throws, crashes, notes>>

\* refreshSize on the current WAL, clearPoison on the poisoned one.
RecoveryClear ==
    /\ Event
    /\ rec.at = "refresh"
    /\ LET w == IF wal.opened /\ ~wal.closed
                THEN [wal EXCEPT !.size = Len(disk.wal), !.next = Len(disk.wal)] ELSE wal
       IN  wal' = IF rec.old THEN w ELSE [w EXCEPT !.poison = NoOffset]
    /\ rec' = IdleRecovery
    /\ OpenGate
    /\ UNCHANGED <<chain, store, preQ, preF, cp, files, disabled, spent, notes>>

-----------------------------------------------------------------------------
(* Compaction.  A failure before the seal ends it; one after the seal is    *)
(* handled by the catch of runCompaction.                                   *)

CompactionFrame ==
    UNCHANGED <<chain, preQ, preF, rec, disabled, throws, crashes, off, hist>>

CompactionOnly ==
    CompactionFrame /\ UNCHANGED <<pc, store, wal, files, mark>>

Off == [IdleCompaction EXCEPT !.started = cp.started]

StartCompaction ==
    /\ Event
    /\ cp.at = "off" /\ cp.started < MaxCompactions /\ ~disabled
    /\ cp' = [Off EXCEPT !.at = "fence", !.started = @ + 1]
    /\ NoFault /\ CompactionOnly

\* flush() throws on a poisoned WAL.
FenceFails ==
    /\ Event
    /\ cp.at \in {"fence", "copy"} /\ Poisoned(wal)
    /\ cp' = Off
    /\ NoFault /\ CompactionOnly

\* The fence: everything below the size of the log is in the store.  Frames
\* queued while flush() returned come after it.
Fence ==
    /\ Event
    /\ cp.at = "fence" /\ ~Poisoned(wal) /\ wal.inflight = <<>>
    /\ cp' = [cp EXCEPT !.at = "collect", !.base = wal.size, !.copied = wal.size]
    /\ mark' = [mark EXCEPT !.overlap = @ \/ rec.at # "idle"]
    /\ NoFault
    /\ CompactionFrame /\ UNCHANGED <<pc, store, wal, files>>

\* writeSnapshot collects every live record in one tick, acknowledged or not.
WriteSnapshot ==
    /\ Event
    /\ cp.at = "collect"
    /\ \/ /\ NoFault
          /\ cp' = [cp EXCEPT !.at = "copy", !.tmp = [k \in Keys |-> store[k].v],
                              !.unacked = {o \in Ops : pc[o] = "sent"}]
       \/ Fault /\ cp' = Off
    /\ CompactionOnly

\* The frames of the log from the copied point to its size.
TailOf == SubSeq(disk.wal, cp.copied + 1, wal.size)

\* A pre-copy pass: the tail that has landed so far goes to db.wal.tmp.
PreCopy ==
    /\ Event
    /\ cp.at = "copy" /\ ~Poisoned(wal) /\ wal.inflight = <<>> /\ cp.copied < wal.size
    /\ \/ /\ NoFault
          /\ cp' = [cp EXCEPT !.tail = @ \o TailOf, !.copied = wal.size]
       \/ Fault /\ cp' = Off
    /\ CompactionOnly

\* The rotation begins: take _rotateLock and seal the log.
Seal ==
    /\ Event
    /\ cp.at = "copy" /\ ~Poisoned(wal) /\ wal.inflight = <<>>
    /\ cp' = [cp EXCEPT !.at = "drain"]
    /\ wal' = [wal EXCEPT !.sealed = TRUE]
    /\ NoFault
    /\ CompactionFrame /\ UNCHANGED <<pc, store, files, mark>>

\* The sealed log is flushed, its last frames copied and close() called.
Drain ==
    /\ Event
    /\ cp.at = "drain"
    /\ \/ /\ Poisoned(wal)
          /\ cp' = [cp EXCEPT !.at = "catch"]
          /\ NoFault /\ UNCHANGED wal
       \/ /\ ~Poisoned(wal) /\ Idle(wal)
          /\ NoFault
          /\ cp' = [cp EXCEPT !.at = "close", !.tail = @ \o TailOf, !.copied = wal.size]
          /\ wal' = [wal EXCEPT !.closed = TRUE]
       \/ /\ ~Poisoned(wal) /\ Idle(wal)
          /\ Fault
          /\ cp' = [cp EXCEPT !.at = "catch"]
          /\ UNCHANGED wal
    /\ CompactionFrame /\ UNCHANGED <<pc, store, files, mark>>

\* The final fsync of close().
CloseWal ==
    /\ Event
    /\ cp.at = "close"
    /\ \/ /\ NoFault
          /\ cp' = [cp EXCEPT !.at = "renSnap"]
          /\ disk' = [disk EXCEPT !.synced = Len(disk.wal)]
       \/ Fault /\ cp' = [cp EXCEPT !.at = "catch"] /\ UNCHANGED disk
    /\ CompactionFrame /\ UNCHANGED <<pc, store, wal, alt, rd, mark>>

\* Mutant: the new log is renamed in before the new snapshot.
RenameWalFirst ==
    /\ Event
    /\ cp.at = "renSnap"
    /\ cp' = [cp EXCEPT !.at = "dir2", !.rotated = TRUE]
    /\ disk' = [disk EXCEPT !.wal = cp.tail, !.synced = Len(cp.tail)]
    /\ alt' = [alt EXCEPT !.wals = @ \cup {disk.wal}]
    /\ rd' = [rd EXCEPT !.wal = disk.wal, !.live = FALSE]
    /\ NoFault
    /\ CompactionFrame /\ UNCHANGED <<pc, store, wal, mark>>

\* db.snapshot.tmp replaces db.snapshot; the ValueReader keeps the old file.
RenameSnapshot ==
    /\ Event
    /\ cp.at = "renSnap"
    /\ \/ /\ NoFault
          /\ cp' = [cp EXCEPT !.at = "dir1"]
          /\ disk' = [disk EXCEPT !.snap = cp.tmp]
          /\ alt' = [alt EXCEPT !.snaps = @ \cup {disk.snap}]
          /\ mark' = [mark EXCEPT !.tainted = @ \cup
                UNION {KeysOf[o] : o \in {u \in cp.unacked : pc[u] = "failed"}}]
       \/ /\ Fault
          /\ cp' = [cp EXCEPT !.at = "catch"]
          /\ UNCHANGED <<disk, alt, mark>>
    /\ CompactionFrame /\ UNCHANGED <<pc, store, wal, rd>>

\* The strict fsync of the directory between the renames.
SyncDirectory ==
    /\ Event
    /\ cp.at = "dir1"
    /\ \/ /\ NoFault
          /\ cp' = [cp EXCEPT !.at = "renWal"]
          /\ alt' = [snaps |-> {}, wals |-> {}]
       \/ Fault /\ cp' = [cp EXCEPT !.at = "catch"] /\ UNCHANGED alt
    /\ CompactionFrame /\ UNCHANGED <<pc, store, wal, disk, rd, mark>>

\* db.wal.tmp replaces db.wal: the commit point of the rotation.
RenameWal ==
    /\ Event
    /\ cp.at = "renWal"
    /\ \/ /\ NoFault
          /\ cp' = [cp EXCEPT !.at = "dir2", !.rotated = TRUE]
          /\ disk' = [disk EXCEPT !.wal = cp.tail, !.synced = Len(cp.tail)]
          /\ alt' = [alt EXCEPT !.wals = @ \cup {disk.wal}]
          /\ rd' = IF rd.live THEN [rd EXCEPT !.wal = disk.wal, !.live = FALSE] ELSE rd
       \/ /\ Fault
          /\ cp' = [cp EXCEPT !.at = "catch"]
          /\ UNCHANGED files
    /\ CompactionFrame /\ UNCHANGED <<pc, store, wal, mark>>

\* The second directory fsync, and the fresh WAL in place of the old one.
SyncRename ==
    /\ Event
    /\ cp.at = "dir2"
    /\ \/ /\ NoFault
          /\ cp' = [cp EXCEPT !.at = "open"]
          /\ alt' = [snaps |-> {}, wals |-> {}]
          /\ wal' = FreshWal(FALSE, 0)
          /\ UNCHANGED mark
       \/ /\ Fault
          /\ cp' = [cp EXCEPT !.at = "catch"]
          /\ mark' = [mark EXCEPT !.undurable = TRUE]
          /\ UNCHANGED <<alt, wal>>
    /\ CompactionFrame /\ UNCHANGED <<pc, store, disk, rd>>

\* Writers parked on _rotateLock run.
Release ==
    pc' = [o \in Ops |-> IF pc[o] = "parked" THEN "entered"
                         ELSE IF pc[o] = "reparked" THEN "run" ELSE pc[o]]

\* Mutant: pointers into the log are not shifted.
RemapUnshifted(st) ==
    [k \in Keys |->
        LET r == st[k]
        IN  IF r.v = None \/ r.loc = InMemory THEN r
            ELSE IF r.loc[1] = "wal" /\ r.loc[2] >= cp.base THEN r
            ELSE IF cp.tmp[k] # None THEN [r EXCEPT !.loc = <<"snapshot", 0>>]
            ELSE r]

\* remap: a pointer past the fence shifts into the new log, any other one
\* goes to the key's value in the new snapshot.
Remap(st) ==
    [k \in Keys |->
        LET r == st[k]
        IN  IF r.v = None \/ r.loc = InMemory THEN r
            ELSE IF r.loc[1] = "wal" /\ r.loc[2] >= cp.base
                 THEN [r EXCEPT !.loc = <<"wal", r.loc[2] - cp.base>>]
            ELSE IF cp.tmp[k] # None THEN [r EXCEPT !.loc = <<"snapshot", 0>>]
            ELSE r]

Reopened == [snap |-> disk.snap, wal |-> <<>>, live |-> TRUE]

\* The fresh WAL is opened: pointers and reader move to the new files.
OpenWal ==
    /\ Event
    /\ cp.at = "open"
    /\ \/ /\ NoFault
          /\ wal' = [wal EXCEPT !.opened = TRUE, !.size = Len(disk.wal), !.next = Len(disk.wal)]
          /\ store' = Remap(store)
          /\ rd' = Reopened
          /\ cp' = Off
          /\ Release
       \/ /\ Fault
          /\ cp' = [cp EXCEPT !.at = "catch"]
          /\ UNCHANGED <<wal, store, rd, pc>>
    /\ CompactionFrame /\ UNCHANGED <<disk, alt, mark>>

\* Mutant: the catch does not release the parked writers.
RotationCatchForgets ==
    /\ Event
    /\ cp.at = "catch" /\ Idle(wal)
    /\ NoFault
    /\ wal' = FreshWal(TRUE, Len(disk.wal))
    /\ cp' = Off
    /\ UNCHANGED <<writing, rec, files, disabled, throws, crashes, notes>>

\* The catch of a failed rotation: close() flushes what is queued, then a
\* fresh WAL on db.wal, at its real end.  When that fails too the closed WAL
\* stays.
RotationCatch ==
    /\ Event
    /\ cp.at = "catch" /\ Idle(wal)
    /\ \/ /\ NoFault
          /\ wal' = FreshWal(TRUE, Len(disk.wal))
          /\ rec' = IF Poisoned(wal) /\ rec.at # "idle"
                    THEN [rec EXCEPT !.old = TRUE, !.offset = wal.poison] ELSE rec
          /\ store' = IF cp.rotated THEN Remap(store) ELSE store
          /\ rd' = IF cp.rotated THEN Reopened ELSE rd
          /\ UNCHANGED mark
       \/ /\ Fault
          /\ wal' = [wal EXCEPT !.closed = TRUE]
          /\ mark' = [mark EXCEPT !.stranded = TRUE]
          /\ UNCHANGED <<rec, store, rd>>
    /\ cp' = Off
    /\ Release
    /\ UNCHANGED <<chain, preQ, preF, disabled, throws, crashes, off, hist, disk, alt>>

-----------------------------------------------------------------------------
\* The process dies, part of the batch in flight in the file, and the
\* database is opened again: snapshot, then log, last writer wins.
Crash ==
    /\ crashes < MaxCrashes
    /\ crashes' = crashes + 1
    /\ \E n \in 0..Len(wal.inflight) :
          LET ws == IF wal.syncing THEN disk.wal ELSE disk.wal \o SubSeq(wal.inflight, 1, n)
              value == Recovered(disk.snap, ws)
          IN  /\ disk' = [disk EXCEPT !.wal = ws]
              /\ store' = [k \in Keys |->
                    LET writes == {i \in 1..Len(ws) : k \in KeysOf[ws[i]]}
                    IN  IF value[k] = None THEN Absent
                        ELSE [v |-> value[k], by |-> None,
                              loc |-> IF writes = {} THEN <<"snapshot", 0>>
                                      ELSE <<"wal", Max(writes) - 1>>]]
              /\ wal' = FreshWal(TRUE, Len(ws))
    /\ rd' = Reopened
    /\ pc' = [o \in Ops |-> IF pc[o] \in {"new", "ok"} THEN pc[o] ELSE "failed"]
    /\ chain' = <<>>
    /\ preQ' = NoPre /\ preF' = NoPre
    /\ rec' = IdleRecovery
    /\ cp' = Off
    /\ disabled' = FALSE
    /\ mark' = [mark EXCEPT !.undurable = @ \/ alt.wals # {}]
    /\ UNCHANGED <<alt, faults, throws, off, hist>>

\* The event loop is idle: nothing runs until the next operation arrives.
Idling ==
    /\ Event
    /\ Idle(wal) /\ rec.at = "idle" /\ cp.at = "off"
    /\ UNCHANGED vars

Write == \E o \in Ops : Start(o) \/ Enter(o) \/ Gate(o) \/ AppendFrame(o)
                        \/ AppendThrows(o) \/ AppendRefused(o)
Flush == BeginFlush \/ WriteLands \/ WriteFails \/ SyncReturns
Recovery == RecoveryIdle \/ RecoveryTruncate \/ RecoveryClear
Compaction ==
    \/ StartCompaction \/ FenceFails \/ Fence \/ WriteSnapshot \/ PreCopy \/ Seal
    \/ Drain \/ CloseWal \/ RenameSnapshot \/ SyncDirectory \/ RenameWal
    \/ SyncRename \/ OpenWal \/ RotationCatch

Next == Write \/ Flush \/ Recovery \/ Compaction \/ Crash \/ Idling

Spec == Init /\ [][Next]_vars

\* Promise continuations run and I/O calls return; only the start of an
\* operation or of a compaction, faults and crashes are not promised.
FairSpec ==
    /\ Spec
    /\ \A o \in Ops : WF_vars(Enter(o) \/ Gate(o) \/ AppendFrame(o) \/ AppendRefused(o))
    /\ WF_vars(BeginFlush) /\ WF_vars(WriteLands \/ WriteFails) /\ WF_vars(SyncReturns)
    /\ WF_vars(Recovery)
    /\ WF_vars(Compaction)

-----------------------------------------------------------------------------
(* Properties. *)

TypeOK ==
    /\ pc \in [Ops -> {"new", "parked", "entered", "chained", "run", "gated", "resume",
                       "sent", "reparked"} \cup Settled]
    /\ \A k \in Keys : store[k].v \in Ops \cup {None}
    /\ ToSet(chain) \subseteq Ops
    /\ ToSet(wal.queue \o wal.inflight) = {o \in Ops : pc[o] = "sent"}
    /\ DOMAIN preQ \subseteq Keys /\ DOMAIN preF \subseteq Keys
    /\ disk.synced <= Len(disk.wal)
    /\ mark.tainted \subseteq Keys /\ mark.weak \subseteq Ops

\* Position in hist of the last acknowledged operation on key k, 0 if none.
LastAcked(k, ok) ==
    Max({0} \cup {i \in DOMAIN hist : hist[i] \in ok /\ k \in KeysOf[hist[i]]})

\* Value v of key k is the last acknowledged one, or that of an operation
\* queued after it and not acknowledged (its error is flagged ambiguous).
Explained(k, v, ok) ==
    LET a == LastAcked(k, ok)
    IN  \/ v = IF a = 0 THEN None ELSE Written(hist[a])
        \/ \E i \in DOMAIN hist :
              i > a /\ k \in KeysOf[hist[i]] /\ v = Written(hist[i])

Acked == {o \in Ops : pc[o] = "ok"}

\* The group rollback is exact: whenever no frame is pending, the store holds
\* for every key what its last acknowledged operation wrote, however flushes,
\* failures and rollbacks of several groups followed one another.
RollbackExact ==
    crashes = 0 /\ (\A o \in Ops : pc[o] # "sent") =>
        \A k \in Keys : LET a == LastAcked(k, Acked)
                        IN  store[k].v = IF a = 0 THEN None ELSE Written(hist[a])

\* What the files hold, with any part of the batch in flight, explains every
\* acknowledged write.
AckedReplay ==
    \A n \in 0..(IF wal.syncing THEN 0 ELSE Len(wal.inflight)) :
        LET value == Recovered(disk.snap, disk.wal \o SubSeq(wal.inflight, 1, n))
        IN  \A k \in Keys : Explained(k, value[k], Acked)

\* No acknowledged write is lost by a crash of the process: at every moment
\* of a flush, a recovery or a rotation, the files replay to the last
\* acknowledged value of each key or to that of a later unacknowledged write.
\* Excepted: a compaction that fences while a recovery still has to truncate
\* (overlap).
AckedSurvivesCrash == ~mark.overlap => AckedReplay

\* The files a power loss may leave: the durable part of the log, and the
\* old file where the directory entry of a rename was not yet synced.
AfterPowerLoss ==
    {<<s, w>> \in ({disk.snap} \cup alt.snaps) \X
                  ({SubSeq(disk.wal, 1, n) : n \in disk.synced..Len(disk.wal)} \cup alt.wals) :
        alt.wals # {} => s = disk.snap}

\* Under fsyncPolicy 'always' no acknowledged write is lost by a power loss.
\* Excepted: a batch acknowledged while the WAL is poisoned (weak), a rename
\* kept though its fsync failed (undurable), and overlap.
AckedSurvivesPowerLoss ==
    FsyncAlways /\ ~mark.undurable /\ ~mark.overlap =>
        \A f \in AfterPowerLoss : \A k \in Keys :
            Explained(k, Recovered(f[1], f[2])[k], Acked \ mark.weak)

\* Nothing is pending and the log is usable.
Quiet ==
    /\ \A o \in Ops : pc[o] # "sent"
    /\ rec.at = "idle" /\ ~Poisoned(wal) /\ ~disabled

\* In-memory state never diverges from what a reopen replays: when nothing is
\* pending the files replay to the store, in the middle of a rotation too.
\* Keys whose failed write a snapshot has captured are excepted (tainted).
MemoryMatchesDisk ==
    Quiet /\ ~mark.overlap => \A k \in Keys \ mark.tainted :
                Recovered(disk.snap, disk.wal)[k] = store[k].v

PointerReads(k) ==
    LET r == store[k]
        log == IF rd.live THEN disk.wal ELSE rd.wal
    IN  r.v # None =>
          /\ r.loc[1] = "wal" => r.loc[2] < Len(log) /\ log[r.loc[2] + 1] = r.v
          /\ r.loc[1] = "snapshot" => rd.snap[k] = r.v

\* A value pointer reads the value of its record through the files the
\* ValueReader holds: no pointer is published too early, survives a
\* truncation, or is left behind by a rotation.  Excepted: tainted keys, and
\* what follows a rotation whose catch failed too (stranded).
PointersRead ==
    ~mark.stranded /\ ~mark.overlap => \A k \in Keys \ mark.tainted : PointerReads(k)

\* An acknowledged write survives a crash of the process and, under
\* fsyncPolicy 'always', a power loss (Wal, runCompaction, recovery).
AckedSurvives == AckedSurvivesCrash /\ AckedSurvivesPowerLoss

\* The store is what its acknowledged writes made it and what the files replay
\* to, and its value pointers read (WritePath, recoverWalInPlace,
\* runCompaction).
StoreMatchesFiles == TypeOK /\ RollbackExact /\ MemoryMatchesDisk /\ PointersRead

\* Every write settles: none is parked for ever by a failed rotation, a
\* recovery or the unique-write chain.
EveryWriteSettles ==
    \A o \in Ops : pc[o] # "new" ~> pc[o] \in Settled
=============================================================================
