--------------------------- MODULE SessionProofs ---------------------------
(***************************************************************************)
(* What a session promises, whoever shares it and in whatever order.       *)
(*                                                                         *)
(* The lock excludes until an unlink hits a file that was replaced after   *)
(* it was read: ownership of the lock file is inductive together with the  *)
(* type invariant, because a process in the middle of a claim or a release *)
(* is not a holder.                                                        *)
(*                                                                         *)
(* The shared journal: a turn runs over all the records on disk, and a     *)
(* rewrite keeps them.  A length stands for a content here because records *)
(* have one length and a torn line another, so a journal that still has    *)
(* the length a process read or wrote is the one it knows (KnowledgeOK).   *)
(*                                                                         *)
(* The emitter: what was delivered and what still stands in the shared     *)
(* queue is, put together, in the order of the calls and without a         *)
(* repetition (DeliveriesOK), and a delivery that a returned call owes is  *)
(* neither queued nor waited for by a call that did not overlap it.        *)
(***************************************************************************)
EXTENDS MCSession, SequenceTheorems, FiniteSetTheorems, TLAPS

----------------------------------------------------------------------------
(* The session lock.                                                       *)

\* No process holds the session at first.
LEMMA LockInit == Init => OwnedByItsHolder
<1> SUFFICES ASSUME Init
             PROVE  OwnedByItsHolder
  OBVIOUS
<1>1. TypeOK
  <2>1. raced \in BOOLEAN
    BY Zenon DEF Init
  <2>2. /\ dead = {} /\ holding = {} /\ held = {} /\ leases = {}
        /\ lockFile = NoFile /\ guardFile = NoFile
    BY DEF Init
  <2>3. attempt \in [Processes -> 0 .. 1]
    BY DEF Init
  <2>4. /\ pc = [p \in Processes |-> "idle"]
        /\ wants = [p \in Processes |-> "hold"]
    BY DEF Init
  <2> QED
    BY <2>1, <2>2, <2>3, <2>4 DEF TypeOK, ClaimSteps
<1>2. HolderOwnsTheFile
  <2>1. Holders = {}
    BY DEF Init, Holders
  <2> QED
    BY <2>1 DEF HolderOwnsTheFile
<1> QED
  BY <1>1, <1>2 DEF OwnedByItsHolder

\* A step of claim, release or takeover that only reads a file, or that works
\* on the reclaim file, leaves the lock file and its holders alone.
LEMMA ReadingSteps ==
  ASSUME OwnedByItsHolder, NEW p \in Processes,
         \/ \E request \in {"hold", "lease"} : Claim(p, request)
         \/ ReadHolder(p) \/ LinkGuard(p) \/ ReadGuard(p) \/ UnlinkStaleGuard(p)
         \/ ReadLock(p) \/ UnlinkGuard(p) \/ Takeover(p) \/ EvictRead(p)
  PROVE  OwnedByItsHolder'
<1>1. HolderOwnsTheFile'
  BY DEF OwnedByItsHolder, HolderOwnsTheFile, Holders, Claim, ReadHolder, LinkGuard, ReadGuard,
         UnlinkStaleGuard, ReadLock, UnlinkGuard, Takeover, EvictRead, fileVars, heldVars,
         historyVars
<1>2. TypeOK'
  <2> USE DEF OwnedByItsHolder, TypeOK, ClaimSteps, Step, Goto, fileVars, heldVars, historyVars
  <2>1. CASE \E request \in {"hold", "lease"} : Claim(p, request)
    BY <2>1 DEF Claim
  <2>2. CASE ReadHolder(p)
    BY <2>2 DEF ReadHolder
  <2>3. CASE LinkGuard(p)
    BY <2>3 DEF LinkGuard
  <2>4. CASE ReadGuard(p)
    BY <2>4 DEF ReadGuard, NextAttempt
  <2>5. CASE UnlinkStaleGuard(p)
    BY <2>5 DEF UnlinkStaleGuard, NextAttempt
  <2>6. CASE ReadLock(p)
    BY <2>6 DEF ReadLock
  <2>7. CASE UnlinkGuard(p)
    BY <2>7 DEF UnlinkGuard, NextAttempt
  <2>8. CASE Takeover(p)
    BY <2>8 DEF Takeover
  <2>9. CASE EvictRead(p)
    BY <2>9 DEF EvictRead
  <2> QED
    BY <2>1, <2>2, <2>3, <2>4, <2>5, <2>6, <2>7, <2>8, <2>9
<1> QED
  BY <1>1, <1>2 DEF OwnedByItsHolder

\* A claim that ends with an entry in heldSessions: the link has published the
\* file, or a file system error let the process go on without a lock.
LEMMA EnteringSteps ==
  ASSUME OwnedByItsHolder, NoFile \notin Processes, NEW p \in Processes, LinkLock(p) \/ ClaimFails(p)
  PROVE  OwnedByItsHolder'
<1> USE DEF OwnedByItsHolder, TypeOK, ClaimSteps, Step, Goto, fileVars, heldVars, historyVars
<1>1. CASE LinkLock(p)
  <2>1. CASE lockFile = NoFile
    <3>1. TypeOK'
      BY <1>1, <2>1 DEF LinkLock, Entered
    <3>2. ~raced => Holders = {}
      BY <2>1 DEF HolderOwnsTheFile, Holders
    <3>3. HolderOwnsTheFile'
      BY <1>1, <2>1, <3>2 DEF LinkLock, Entered, HolderOwnsTheFile, Holders
    <3> QED
      BY <3>1, <3>3
  <2>2. CASE lockFile # NoFile
    BY <1>1, <2>2 DEF LinkLock, HolderOwnsTheFile, Holders
  <2> QED
    BY <2>1, <2>2
<1>2. CASE ClaimFails(p)
  <2>1. TypeOK'
    BY <1>2 DEF ClaimFails, Entered
  <2>2. HolderOwnsTheFile'
    BY <1>2 DEF ClaimFails, Entered, HolderOwnsTheFile, Holders
  <2> QED
    BY <2>1, <2>2
<1> QED
  BY <1>1, <1>2

\* hold() and lease() on an existing entry, and releases; the entry goes with
\* the last of them.
LEMMA EntrySteps ==
  ASSUME OwnedByItsHolder, NEW p \in Processes,
         HoldAgain(p) \/ LeaseAgain(p) \/ ReleaseHold(p) \/ ReleaseLease(p) \/ ReleaseAll(p)
  PROVE  OwnedByItsHolder'
<1> USE DEF OwnedByItsHolder, TypeOK, ClaimSteps, Step, Goto, fileVars, historyVars, HolderOwnsTheFile,
            Holders, Released, Unused
<1>1. CASE HoldAgain(p)
  BY <1>1 DEF HoldAgain
<1>2. CASE LeaseAgain(p)
  BY <1>2 DEF LeaseAgain
<1>3. CASE ReleaseHold(p)
  BY <1>3 DEF ReleaseHold
<1>4. CASE ReleaseLease(p)
  BY <1>4 DEF ReleaseLease
<1>5. CASE ReleaseAll(p)
  BY <1>5 DEF ReleaseAll
<1> QED
  BY <1>1, <1>2, <1>3, <1>4, <1>5

\* The three unlinks of the lock file, and what precedes the one of a release:
\* each either removes the file of a process that does not hold the session,
\* or is recorded as an eviction or as a race.
LEMMA UnlinkingSteps ==
  ASSUME OwnedByItsHolder, NoFile \notin Processes, NEW p \in Processes,
         UnlinkLock(p) \/ ReadToken(p) \/ UnlinkOwn(p) \/ EvictUnlink(p) \/ Crash(p)
  PROVE  OwnedByItsHolder'
<1> USE DEF OwnedByItsHolder, TypeOK, ClaimSteps, Step, Goto, fileVars, heldVars, HolderOwnsTheFile, Holders
<1>1. CASE UnlinkLock(p)
  BY <1>1 DEF UnlinkLock, NotAlive
<1>2. CASE ReadToken(p)
  BY <1>2 DEF ReadToken
<1>3. CASE UnlinkOwn(p)
  BY <1>3 DEF UnlinkOwn
<1>4. CASE EvictUnlink(p)
  BY <1>4 DEF EvictUnlink
<1>5. CASE Crash(p)
  BY <1>5 DEF Crash
<1> QED
  BY <1>1, <1>2, <1>3, <1>4, <1>5

\* Every step of every process preserves the invariant.
LEMMA LockStep ==
  ASSUME OwnedByItsHolder, NoFile \notin Processes, [Next]_vars
  PROVE  OwnedByItsHolder'
<1>1. CASE Next
  BY <1>1, ReadingSteps, EnteringSteps, EntrySteps, UnlinkingSteps DEF Next
<1>2. CASE UNCHANGED vars
  BY <1>2 DEF vars, fileVars, heldVars, historyVars, OwnedByItsHolder, TypeOK, HolderOwnsTheFile, Holders
<1> QED
  BY <1>1, <1>2

\* As long as no unlink has hit a file that was replaced after it was read,
\* whoever believes to hold the session (SessionLockService.hold and lease)
\* owns its lock file, whatever the others do and whoever crashes.
THEOREM LockFileHasItsHolder ==
  ASSUME NoFile \notin Processes
  PROVE  Spec => []OwnedByItsHolder
<1>1. OwnedByItsHolder /\ [Next]_vars => OwnedByItsHolder'
  BY LockStep
<1> QED
  BY LockInit, <1>1, PTL DEF Spec

\* So the race that TLC finds is the only way in which two processes come to
\* hold one session: as long as it has not happened, hold() and lease()
\* exclude (but for takeovers and file system errors).
THEOREM LockExcludesUntilRaced ==
  ASSUME NoFile \notin Processes
  PROVE  Spec => [](~raced => HeldByOneProcess)
<1>1. OwnedByItsHolder /\ [Next]_vars => OwnedByItsHolder'
  BY LockStep
<1>2. OwnedByItsHolder => (~raced => HeldByOneProcess)
  BY DEF OwnedByItsHolder, HolderOwnsTheFile, HeldByOneProcess
<1> QED
  BY LockInit, <1>1, <1>2, PTL DEF Spec

----------------------------------------------------------------------------
(* The shared journal.                                                     *)

Lines == [id : Nat, turn : BOOLEAN]
Records == Lines \ {Sharing!Torn}
Whole(s) == \A i \in DOMAIN s : s[i] # Sharing!Torn
TornIsLast(s) == \A i \in DOMAIN s : s[i] = Sharing!Torn => i = Len(s)
StartsWith(s, t) == Len(t) <= Len(s) /\ \A i \in DOMAIN t : s[i] = t[i]
Even == {2 * n : n \in Nat}

Fields == {"step", "known", "pending", "queue", "rewrite", "owed", "io", "at", "busy", "releasing"}

\* A journal of the older version is the metadata alone, and whoever has read it
\* owes the migration and does not write before it is paid.
LegacyOK ==
  legacy =>
    /\ disk = <<Sharing!Metadata>>
    /\ \A p \in Sharers :
         /\ proc[p].pending = << >> /\ proc[p].io \notin {"write", "part"}
         /\ proc[p].step # "closed" => proc[p].owed # "nothing"

ControlOK ==
  /\ Sharing!TypeOK
  /\ DOMAIN proc = Sharers
  /\ \A p \in Sharers :
       /\ DOMAIN proc[p] = Fields
       /\ proc[p].step = "read" => proc[p].io = "none" /\ ~proc[p].busy

\* The control state of a process that does input and output or runs a turn.
ProcessOK(p) ==
  LET s == proc[p] IN
  /\ s.pending \in Seq(Records) /\ s.queue \in Seq(Records) /\ s.busy \in BOOLEAN
  /\ s.io # "none" => lock = p /\ s.step = "open"
  /\ s.busy => lock = p /\ s.step = "open"
  /\ s.io \in {"write", "part"} => s.pending # << >>
  /\ s.pending # << >> => s.owed = "nothing" /\ s.step = "open"

\* What a process knows of the journal.  Who owes nothing knows whole records,
\* so that a torn line shows in the length; who owes a rewrite has in memory
\* what was readable when the journal had the known length.
KnowledgeOK(p) ==
  LET s == proc[p] IN
  /\ s.step # "closed" /\ s.owed = "nothing" => s.known \in Even
  /\ s.step # "closed" /\ s.owed # "nothing" =>
       /\ s.rewrite \in Seq(Records) /\ s.known \in Nat
       /\ \/ s.rewrite = <<Sharing!Metadata>> /\ s.known <= 1
          \/ StartsWith(disk, s.rewrite) /\ s.known \in {2 * Len(s.rewrite), 2 * Len(s.rewrite) + 1}
  /\ s.io \in {"write", "rewrite"} => Sharing!Bytes(disk) = s.known
  /\ s.io = "part" => /\ s.at = Len(disk) /\ disk # << >> /\ disk[s.at] = Sharing!Torn
                      /\ Sharing!Bytes(disk) = s.known + 1
  /\ s.busy /\ s.io = "none" => Sharing!Bytes(disk) = s.known

JournalOK ==
  /\ disk \in Seq(Lines) /\ TornIsLast(disk) /\ appended \in Nat \ {0}
  /\ \A p \in Sharers : ProcessOK(p) /\ KnowledgeOK(p)

SharingIInv == ControlOK /\ LegacyOK /\ (blind \/ late \/ JournalOK)

LEMMA LineFacts ==
  /\ Sharing!Torn \in Lines /\ Sharing!Metadata \in Records
  /\ \A n \in Nat \ {0}, turn \in BOOLEAN : Sharing!Line(n, turn) \in Records
  /\ DOMAIN Sharing!Closed = Fields
BY DEF Lines, Records, Sharing!Torn, Sharing!Metadata, Sharing!Line, Sharing!Closed, Fields

LEMMA BytesOf ==
  ASSUME NEW s \in Seq(Lines), TornIsLast(s)
  PROVE  /\ Whole(s) => Sharing!Bytes(s) = 2 * Len(s)
         /\ ~Whole(s) => s # << >> /\ s[Len(s)] = Sharing!Torn /\ Sharing!Bytes(s) = 2 * Len(s) - 1
         /\ Len(s) \in Nat /\ DOMAIN s = 1 .. Len(s) /\ Sharing!Bytes(s) \in Nat
<1> DEFINE torn == {i \in DOMAIN s : s[i] = Sharing!Torn}
<1>1. Len(s) \in Nat /\ DOMAIN s = 1 .. Len(s)
  OBVIOUS
<1>2. Sharing!Bytes(s) = 2 * Len(s) - Cardinality(torn)
  BY DEF Sharing!Bytes, Sharing!Cardinality, Cardinality
<1>3. CASE Whole(s)
  <2>1. torn = {}
    BY <1>3 DEF Whole
  <2>2. Cardinality(torn) = 0
    BY <2>1, FS_EmptySet
  <2> HIDE DEF torn
  <2> QED
    BY <1>1, <1>2, <1>3, <2>2
<1>4. CASE ~Whole(s)
  <2>1. torn = {Len(s)}
    BY <1>1, <1>4 DEF Whole, TornIsLast
  <2>2. Cardinality(torn) = 1
    BY <2>1, FS_Singleton
  <2>3. Len(s) \in DOMAIN s /\ s[Len(s)] = Sharing!Torn
    BY <2>1
  <2> HIDE DEF torn
  <2> QED
    BY <1>1, <1>2, <1>4, <2>2, <2>3
<1> QED
  BY <1>3, <1>4

LEMMA ReadableOf ==
  ASSUME NEW s \in Seq(Lines), TornIsLast(s)
  PROVE  /\ Sharing!Readable(s) \in Seq(Records)
         /\ Whole(s) <=> Sharing!Readable(s) = s
         /\ StartsWith(s, Sharing!Readable(s))
         /\ Len(Sharing!Readable(s)) = IF Whole(s) THEN Len(s) ELSE Len(s) - 1
<1> DEFINE torn == {i \in DOMAIN s : s[i] = Sharing!Torn}
<1>1. Len(s) \in Nat /\ DOMAIN s = 1 .. Len(s)
  OBVIOUS
<1>2. CASE Whole(s)
  <2>1. torn = {}
    BY <1>2 DEF Whole
  <2>2. Sharing!Readable(s) = s
    BY <2>1 DEF Sharing!Readable
  <2>3. s \in Seq(Records)
    <3>1. \A i \in 1 .. Len(s) : s[i] \in Records
      BY <1>1, <1>2 DEF Whole, Records
    <3>2. s = [i \in 1 .. Len(s) |-> s[i]]
      BY <1>1
    <3> QED
      BY <1>1, <3>1, <3>2, SeqDef
  <2> QED
    BY <1>1, <1>2, <2>2, <2>3 DEF StartsWith
<1>3. CASE ~Whole(s)
  <2>1. torn = {Len(s)} /\ Len(s) >= 1
    BY <1>1, <1>3 DEF Whole, TornIsLast
  <2>2. (CHOOSE i \in torn : \A j \in torn : i <= j) = Len(s)
    BY <1>1, <2>1
  <2>3. Sharing!Readable(s) = SubSeq(s, 1, Len(s) - 1)
    BY <2>1, <2>2 DEF Sharing!Readable
  <2> DEFINE r == SubSeq(s, 1, Len(s) - 1)
  <2>4. r \in Seq(Lines) /\ Len(r) = Len(s) - 1 /\ \A i \in 1 .. Len(s) - 1 : r[i] = s[i]
    BY <1>1, <2>1, SubSeqProperties
  <2>5. \A i \in 1 .. Len(r) : r[i] \in Records
    BY <1>1, <2>1, <2>4 DEF Records
  <2>6. r = [i \in 1 .. Len(r) |-> r[i]] /\ Len(r) \in Nat /\ DOMAIN r = 1 .. Len(r)
    BY <1>1, <2>1, <2>4
  <2>7. r \in Seq(Records)
    BY <2>5, <2>6, SeqDef
  <2> HIDE DEF r
  <2>8. Len(r) # Len(s)
    BY <2>4, LenProperties
  <2>9. StartsWith(s, r)
    BY <1>1, <2>4, <2>6 DEF StartsWith
  <2> QED
    BY <1>3, <2>3, <2>4, <2>7, <2>8, <2>9 DEF r
<1> QED
  BY <1>2, <1>3

\* Metadata alone is a whole journal.
LEMMA MetadataFacts ==
  /\ <<Sharing!Metadata>> \in Seq(Lines) /\ <<Sharing!Metadata>> \in Seq(Records)
  /\ Whole(<<Sharing!Metadata>>) /\ TornIsLast(<<Sharing!Metadata>>) /\ Len(<<Sharing!Metadata>>) = 1
  /\ <<Sharing!Metadata>> # << >>
BY LineFacts DEF Whole, TornIsLast, Records

\* Only p changes, and of its state only the fields in S.
Changes(p, S) ==
  /\ DOMAIN proc' = Sharers /\ \A q \in Sharers \ {p} : proc'[q] = proc[q]
  /\ DOMAIN proc'[p] = Fields /\ \A f \in Fields \ S : proc'[p][f] = proc[p][f]

\* What the actions do to the process that takes them.
LEMMA ReadEffect ==
  ASSUME ControlOK, NEW p \in Sharers, Sharing!Read(p)
  PROVE  /\ Changes(p, Fields)
         /\ proc'[p].step = "read" /\ proc'[p].known = Sharing!Bytes(disk)
         /\ proc'[p].pending = << >> /\ proc'[p].queue = << >> /\ proc'[p].io = "none" /\ proc'[p].busy = FALSE
         /\ proc'[p].rewrite = IF Sharing!Readable(disk) = << >> THEN <<Sharing!Metadata>> ELSE Sharing!Readable(disk)
         /\ proc'[p].owed = IF Sharing!Readable(disk) # disk THEN "repair"
                            ELSE IF legacy \/ disk = << >> THEN "migration" ELSE "nothing"
<1>1. DOMAIN proc = Sharers /\ DOMAIN proc[p] = Fields
  BY DEF ControlOK
<1> QED
  BY <1>1 DEF Sharing!Read, Sharing!Set, Sharing!Is, Sharing!Closed, Changes, Fields

LEMMA SettleEffect ==
  ASSUME ControlOK, NEW p \in Sharers, Sharing!Settle(p)
  PROVE  /\ Changes(p, {"step", "io"}) /\ proc[p].step = "read" /\ proc'[p].step = "open"
         /\ \/ /\ proc[p].owed # "nothing" /\ lock \in {NoProcess, p} /\ lock' = p
               /\ proc'[p].io = "rewrite" /\ ~Sharing!externallyModified(p)
            \/ proc'[p].io = proc[p].io /\ lock' = lock
<1>1. DOMAIN proc = Sharers /\ DOMAIN proc[p] = Fields
  BY DEF ControlOK
<1>2. proc[p].step = "read"
  BY DEF Sharing!Settle, Sharing!Is
<1>3. CASE Sharing!Owes(proc[p]) /\ Sharing!MayRewrite(p)
  <2>1. proc' = [proc EXCEPT ![p] = [proc[p] EXCEPT !.step = "open", !.io = "rewrite"]] /\ lock' = p
    BY <1>3 DEF Sharing!Settle, Sharing!Set
  <2>2. Changes(p, {"step", "io"}) /\ proc'[p].step = "open" /\ proc'[p].io = "rewrite"
    BY <1>1, <2>1 DEF Changes, Fields
  <2> QED
    BY <1>2, <1>3, <2>1, <2>2 DEF Sharing!MayRewrite, Sharing!Owes, Sharing!CanHold
<1>4. CASE ~(Sharing!Owes(proc[p]) /\ Sharing!MayRewrite(p))
  <2>1. proc' = [proc EXCEPT ![p] = [proc[p] EXCEPT !.step = "open"]] /\ lock' = lock
    BY <1>4 DEF Sharing!Settle, Sharing!Set
  <2>2. Changes(p, {"step", "io"}) /\ proc'[p].step = "open" /\ proc'[p].io = proc[p].io
    BY <1>1, <2>1 DEF Changes, Fields
  <2> QED
    BY <1>2, <2>1, <2>2
<1> QED
  BY <1>3, <1>4

LEMMA RewrittenEffect ==
  ASSUME ControlOK, NEW p \in Sharers, Sharing!Rewritten(p)
  PROVE  /\ Changes(p, {"io", "owed", "rewrite", "known"})
         /\ proc[p].io = "rewrite" /\ proc'[p].io = "none" /\ proc'[p].owed = "nothing"
         /\ disk' = proc[p].rewrite /\ proc'[p].known = Sharing!Bytes(disk')
         /\ legacy' = FALSE /\ lock' = lock
<1>1. DOMAIN proc = Sharers /\ DOMAIN proc[p] = Fields
  BY DEF ControlOK
<1> QED
  BY <1>1 DEF Sharing!Rewritten, Sharing!Set, Sharing!Is, Changes, Fields

LEMMA AppendEffect ==
  ASSUME ControlOK, NEW p \in Sharers, NEW slow, Sharing!AppendRecord(p, slow)
  PROVE  /\ Changes(p, {"pending", "queue"}) /\ proc[p].step = "open" /\ appended' = appended + 1 /\ lock' = lock
         /\ \/ /\ proc[p].owed = "nothing" /\ proc'[p].queue = proc[p].queue
               /\ proc'[p].pending = Append(proc[p].pending, Sharing!Line(appended + 1, proc[p].busy))
            \/ /\ proc'[p].queue = Append(proc[p].queue, Sharing!Line(appended + 1, proc[p].busy))
               /\ proc'[p].pending = proc[p].pending
<1>1. DOMAIN proc = Sharers /\ DOMAIN proc[p] = Fields
  BY DEF ControlOK
<1> QED
  BY <1>1 DEF Sharing!AppendRecord, Sharing!Direct, Sharing!Owes, Sharing!Set, Sharing!Is, Changes, Fields

LEMMA QueueEffect ==
  ASSUME ControlOK, NEW p \in Sharers, Sharing!QueueStep(p)
  PROVE  /\ Changes(p, {"queue", "pending", "io"}) /\ proc[p].step = "open"
         /\ proc[p].queue # << >> /\ proc[p].io # "rewrite"
         /\ \/ /\ proc[p].owed = "nothing" /\ lock' = lock /\ proc'[p].io = proc[p].io
               /\ proc'[p].queue = Tail(proc[p].queue)
               /\ proc'[p].pending = Append(proc[p].pending, Head(proc[p].queue))
            \/ /\ proc[p].owed # "nothing" /\ lock \in {NoProcess, p} /\ lock' = p
               /\ ~Sharing!externallyModified(p) /\ proc'[p].io = "rewrite"
               /\ proc'[p].queue = proc[p].queue /\ proc'[p].pending = proc[p].pending
            \/ /\ proc[p].owed # "nothing" /\ lock' = lock /\ proc'[p].io = proc[p].io
               /\ proc'[p].queue = Tail(proc[p].queue) /\ proc'[p].pending = proc[p].pending
<1>1. DOMAIN proc = Sharers /\ DOMAIN proc[p] = Fields
  BY DEF ControlOK
<1>2. /\ proc[p].step = "open" /\ proc[p].queue # << >> /\ proc[p].io # "rewrite"
      /\ \/ /\ proc[p].owed = "nothing" /\ lock' = lock
            /\ proc' = [proc EXCEPT ![p] = [proc[p] EXCEPT !.queue = Tail(@), !.pending = Append(@, Head(proc[p].queue))]]
         \/ /\ proc[p].owed # "nothing" /\ lock \in {NoProcess, p} /\ lock' = p /\ ~Sharing!externallyModified(p)
            /\ proc' = [proc EXCEPT ![p] = [proc[p] EXCEPT !.io = "rewrite"]]
         \/ /\ proc[p].owed # "nothing" /\ lock' = lock
            /\ proc' = [proc EXCEPT ![p] = [proc[p] EXCEPT !.queue = Tail(@)]]
  BY DEF Sharing!QueueStep, Sharing!Set, Sharing!Is, Sharing!Owes, Sharing!MayRewrite, Sharing!CanHold
<1> QED
  BY <1>1, <1>2 DEF Changes, Fields

LEMMA WriteEffect ==
  ASSUME ControlOK, NEW p \in Sharers
  PROVE  /\ Sharing!StartWrite(p) =>
              /\ Changes(p, {"io"}) /\ proc[p].step = "open" /\ proc[p].pending # << >>
              /\ proc[p].io = "none" /\ proc'[p].io = "write" /\ lock \in {NoProcess, p} /\ lock' = p
              /\ blind' = (blind \/ (~proc[p].busy /\ Sharing!externallyModified(p)))
              /\ disk' = disk
         /\ Sharing!WritePart(p) =>
              /\ Changes(p, {"io", "at"}) /\ proc[p].io = "write" /\ proc'[p].io = "part"
              /\ disk' = Append(disk, Sharing!Torn) /\ proc'[p].at = Len(disk') /\ lock' = lock
         /\ Sharing!WriteDone(p) =>
              /\ Changes(p, {"io", "at", "pending", "known"}) /\ proc[p].io = "part" /\ proc'[p].io = "none"
              /\ disk' = [disk EXCEPT ![proc[p].at] = Head(proc[p].pending)]
              /\ proc'[p].pending = Tail(proc[p].pending) /\ proc'[p].known = proc[p].known + 2 /\ lock' = lock
<1>1. DOMAIN proc = Sharers /\ DOMAIN proc[p] = Fields
  BY DEF ControlOK
<1> QED
  BY <1>1 DEF Sharing!StartWrite, Sharing!WritePart, Sharing!WriteDone, Sharing!Set, Sharing!Is, Sharing!CanHold, Changes, Fields

LEMMA TurnEffect ==
  ASSUME ControlOK, NEW p \in Sharers
  PROVE  /\ Sharing!Begin(p) =>
              /\ Changes(p, {"busy"}) /\ proc[p].step = "open" /\ lock \in {NoProcess, p} /\ lock' = p
              /\ ~Sharing!externallyModified(p) /\ proc'[p].busy = TRUE
         /\ Sharing!EndTurn(p) => Changes(p, {"busy"}) /\ proc'[p].busy = FALSE /\ proc[p].busy /\ lock' = lock
         /\ Sharing!ReleaseFlush(p) \/ Sharing!ReleaseFlushed(p) => Changes(p, {"releasing"}) /\ lock' = lock
         /\ Sharing!ReleaseLock(p) =>
              /\ Changes(p, {"releasing"})
              /\ \/ lock' = lock
                 \/ lock = p /\ lock' = NoProcess /\ ~proc[p].busy /\ late' = (late \/ proc[p].io # "none")
         /\ Sharing!Close(p) \/ Sharing!Crash(p) =>
              /\ Changes(p, Fields) /\ proc'[p] = Sharing!Closed
              /\ lock' = IF lock = p THEN NoProcess ELSE lock
<1>1. DOMAIN proc = Sharers /\ DOMAIN proc[p] = Fields
  BY DEF ControlOK
<1> USE <1>1 DEF Sharing!Set, Sharing!Is, Changes, Fields
<1>2. ASSUME Sharing!Begin(p)
      PROVE  /\ Changes(p, {"busy"}) /\ proc[p].step = "open" /\ lock \in {NoProcess, p} /\ lock' = p
             /\ ~Sharing!externallyModified(p) /\ proc'[p].busy = TRUE
  BY <1>2 DEF Sharing!Begin, Sharing!CanHold
<1>3. ASSUME Sharing!EndTurn(p)
      PROVE  Changes(p, {"busy"}) /\ proc'[p].busy = FALSE /\ proc[p].busy /\ lock' = lock
  BY <1>3 DEF Sharing!EndTurn
<1>4. ASSUME Sharing!ReleaseFlush(p) \/ Sharing!ReleaseFlushed(p)
      PROVE  Changes(p, {"releasing"}) /\ lock' = lock
  BY <1>4 DEF Sharing!ReleaseFlush, Sharing!ReleaseFlushed
<1>5. ASSUME Sharing!ReleaseLock(p)
      PROVE  /\ Changes(p, {"releasing"})
             /\ \/ lock' = lock
                \/ lock = p /\ lock' = NoProcess /\ ~proc[p].busy /\ late' = (late \/ proc[p].io # "none")
  BY <1>5 DEF Sharing!ReleaseLock, Sharing!StillBusy
<1>6. ASSUME Sharing!Close(p) \/ Sharing!Crash(p)
      PROVE  /\ Changes(p, Fields) /\ proc'[p] = Sharing!Closed
             /\ lock' = IF lock = p THEN NoProcess ELSE lock
  BY <1>6 DEF Sharing!Close, Sharing!Crash, Sharing!Closed
<1> QED
  BY <1>2, <1>3, <1>4, <1>5, <1>6

LEMMA ControlSet ==
  ASSUME ControlOK, LegacyOK, NEW p \in Sharers, NEW S, Changes(p, S), lock' \in Sharers \cup {NoProcess},
         proc'[p].step \in {"closed", "read", "open"}, proc'[p].io \in {"none", "write", "part", "rewrite"},
         proc'[p].io = "rewrite" => proc'[p].owed # "nothing",
         proc'[p].step = "read" => proc'[p].io = "none" /\ ~proc'[p].busy,
         legacy' => /\ legacy /\ disk' = disk
                    /\ proc'[p].pending = << >> /\ proc'[p].io \notin {"write", "part"}
                    /\ proc'[p].step # "closed" => proc'[p].owed # "nothing"
  PROVE  ControlOK' /\ LegacyOK'
<1>1. \A q \in Sharers \ {p} : proc'[q] = proc[q]
  BY DEF Changes
<1>2. DOMAIN proc' = Sharers /\ DOMAIN proc'[p] = Fields
  BY DEF Changes
<1>3. ControlOK'
  BY <1>1, <1>2 DEF ControlOK, Sharing!TypeOK
<1>4. LegacyOK'
  BY <1>1 DEF LegacyOK
<1> QED
  BY <1>3, <1>4

\* The actions, one by one.
SharingAction(p) ==
  \/ Sharing!Read(p) \/ Sharing!Settle(p) \/ Sharing!Rewritten(p)
  \/ \E slow \in BOOLEAN : Sharing!AppendRecord(p, slow)
  \/ Sharing!QueueStep(p) \/ Sharing!StartWrite(p) \/ Sharing!WritePart(p) \/ Sharing!WriteDone(p)
  \/ Sharing!Begin(p) \/ Sharing!BeginStale(p) \/ Sharing!EndTurn(p)
  \/ Sharing!ReleaseFlush(p) \/ Sharing!ReleaseFlushed(p) \/ Sharing!ReleaseLock(p)
  \/ Sharing!Close(p) \/ Sharing!Crash(p)

\* The control of the processes, and the migration, whatever happens.
LEMMA ControlStep ==
  ASSUME ControlOK, LegacyOK, NEW p \in Sharers, SharingAction(p)
  PROVE  ControlOK' /\ LegacyOK'
<1>1. /\ proc[p].step \in {"closed", "read", "open"} /\ proc[p].io \in {"none", "write", "part", "rewrite"}
      /\ proc[p].io = "rewrite" => proc[p].owed # "nothing"
      /\ lock \in Sharers \cup {NoProcess}
      /\ proc[p].step = "read" => proc[p].io = "none" /\ ~proc[p].busy
  BY DEF ControlOK, Sharing!TypeOK
<1>2. legacy => /\ proc[p].pending = << >> /\ proc[p].io \notin {"write", "part"}
                /\ proc[p].step # "closed" => proc[p].owed # "nothing"
  BY DEF LegacyOK
<1>3. CASE Sharing!Read(p)
  <2>1. legacy' = legacy /\ disk' = disk /\ lock' = lock
    BY <1>3 DEF Sharing!Read
  <2> QED
    BY <1>1, <1>2, <1>3, <2>1, ReadEffect, ControlSet
<1>4. CASE Sharing!Settle(p)
  <2>1. legacy' = legacy /\ disk' = disk
    BY <1>4 DEF Sharing!Settle
  <2>2. proc'[p].owed = proc[p].owed /\ proc'[p].pending = proc[p].pending /\ proc'[p].busy = proc[p].busy
    BY <1>4, SettleEffect DEF Changes, Fields
  <2> QED
    BY <1>1, <1>2, <1>4, <2>1, <2>2, SettleEffect, ControlSet
<1>5. CASE Sharing!Rewritten(p)
  <2>2. proc'[p].step = proc[p].step /\ proc'[p].pending = proc[p].pending /\ proc'[p].busy = proc[p].busy
    <3>1. Changes(p, {"io", "owed", "rewrite", "known"})
      BY <1>5, RewrittenEffect
    <3> QED
      BY ONLY <3>1 DEF Changes, Fields
  <2> QED
    BY <1>1, <1>2, <1>5, <2>2, RewrittenEffect, ControlSet
<1>6. CASE \E slow \in BOOLEAN : Sharing!AppendRecord(p, slow)
  <2>1. legacy' = legacy /\ disk' = disk
    BY <1>6 DEF Sharing!AppendRecord
  <2>2. proc'[p].step = proc[p].step /\ proc'[p].io = proc[p].io /\ proc'[p].owed = proc[p].owed /\ proc'[p].busy = proc[p].busy
    BY <1>6, AppendEffect DEF Changes, Fields
  <2> QED
    BY <1>1, <1>2, <1>6, <2>1, <2>2, AppendEffect, ControlSet
<1>7. CASE Sharing!QueueStep(p)
  <2>1. legacy' = legacy /\ disk' = disk
    BY <1>7 DEF Sharing!QueueStep
  <2>2. proc'[p].step = proc[p].step /\ proc'[p].owed = proc[p].owed /\ proc'[p].busy = proc[p].busy
    BY <1>7, QueueEffect DEF Changes, Fields
  <2> QED
    BY <1>1, <1>2, <1>7, <2>1, <2>2, QueueEffect, ControlSet
<1>8. CASE Sharing!StartWrite(p)
  <2>1. legacy' = legacy
    BY <1>8 DEF Sharing!StartWrite
  <2>2. proc'[p].step = proc[p].step /\ proc'[p].owed = proc[p].owed /\ proc'[p].busy = proc[p].busy /\ proc'[p].pending = proc[p].pending
    BY <1>8, WriteEffect DEF Changes, Fields
  <2> QED
    BY <1>1, <1>2, <1>8, <2>1, <2>2, WriteEffect, ControlSet
<1>9. CASE Sharing!WritePart(p)
  <2>1. legacy' = legacy
    BY <1>9 DEF Sharing!WritePart
  <2>2. proc'[p].step = proc[p].step /\ proc'[p].owed = proc[p].owed /\ proc'[p].busy = proc[p].busy /\ proc'[p].pending = proc[p].pending
    BY <1>9, WriteEffect DEF Changes, Fields
  <2> QED
    BY <1>1, <1>2, <1>9, <2>1, <2>2, WriteEffect, ControlSet
<1>10. CASE Sharing!WriteDone(p)
  <2>1. legacy' = legacy
    BY <1>10 DEF Sharing!WriteDone
  <2>2. proc'[p].step = proc[p].step /\ proc'[p].owed = proc[p].owed /\ proc'[p].busy = proc[p].busy
    BY <1>10, WriteEffect DEF Changes, Fields
  <2> QED
    BY <1>1, <1>2, <1>10, <2>1, <2>2, WriteEffect, ControlSet
<1>11. CASE Sharing!Begin(p) \/ Sharing!EndTurn(p)
  <2>1. legacy' = legacy /\ disk' = disk
    BY <1>11 DEF Sharing!Begin, Sharing!EndTurn
  <2>2. proc'[p].step = proc[p].step /\ proc'[p].io = proc[p].io /\ proc'[p].owed = proc[p].owed /\ proc'[p].pending = proc[p].pending
    BY <1>11, TurnEffect DEF Changes, Fields
  <2> QED
    BY <1>1, <1>2, <1>11, <2>1, <2>2, TurnEffect, ControlSet
<1>12. CASE Sharing!BeginStale(p)
  BY <1>12 DEF Sharing!BeginStale, ControlOK, LegacyOK, Sharing!TypeOK
<1>13. CASE Sharing!ReleaseFlush(p) \/ Sharing!ReleaseFlushed(p) \/ Sharing!ReleaseLock(p)
  <2>1. legacy' = legacy /\ disk' = disk
    BY <1>13 DEF Sharing!ReleaseFlush, Sharing!ReleaseFlushed, Sharing!ReleaseLock
  <2>2. proc'[p].step = proc[p].step /\ proc'[p].io = proc[p].io /\ proc'[p].owed = proc[p].owed /\ proc'[p].pending = proc[p].pending /\ proc'[p].busy = proc[p].busy
    BY <1>13, TurnEffect DEF Changes, Fields
  <2> QED
    BY <1>1, <1>2, <1>13, <2>1, <2>2, TurnEffect, ControlSet
<1>14. CASE Sharing!Close(p) \/ Sharing!Crash(p)
  <2>1. legacy' = legacy /\ disk' = disk
    BY <1>14 DEF Sharing!Close, Sharing!Crash
  <2>2. Changes(p, Fields) /\ proc'[p] = Sharing!Closed /\ lock' = IF lock = p THEN NoProcess ELSE lock
    BY <1>14, TurnEffect
  <2>3. proc'[p].step = "closed" /\ proc'[p].io = "none" /\ proc'[p].pending = << >>
    BY <2>2 DEF Sharing!Closed
  <2>4. lock' \in Sharers \cup {NoProcess}
    BY <1>1, <2>2
  <2> QED
    BY <2>1, <2>2, <2>3, <2>4, ControlSet
<1> QED
  BY <1>3, <1>4, <1>5, <1>6, <1>7, <1>8, <1>9, <1>10, <1>11, <1>12, <1>13, <1>14 DEF SharingAction
----------------------------------------------------------------------------
\* Who runs or writes holds the lock, so the others do neither.
LEMMA OthersRest ==
  ASSUME NoProcess \notin Sharers, JournalOK, NEW p \in Sharers, NEW q \in Sharers \ {p}, lock \in {NoProcess, p}
  PROVE  proc[q].io = "none" /\ (proc[q].busy => FALSE)
BY DEF JournalOK, ProcessOK

\* What others know survives a step that leaves the journal alone.
LEMMA OthersKnow ==
  ASSUME JournalOK, NEW q \in Sharers, proc'[q] = proc[q], disk' = disk,
         lock' = lock \/ (proc[q].io = "none" /\ (proc[q].busy => FALSE))
  PROVE  ProcessOK(q)' /\ KnowledgeOK(q)'
<1>1. ProcessOK(q)'
  BY DEF JournalOK, ProcessOK
<1>2. KnowledgeOK(q)'
  BY DEF JournalOK, KnowledgeOK
<1> QED
  BY <1>1, <1>2

\* And one that writes back or adds what nobody else has read.
LEMMA OthersLag ==
  ASSUME JournalOK, NEW q \in Sharers, proc'[q] = proc[q],
         proc[q].io = "none" /\ (proc[q].busy => FALSE),
         \A t \in Seq(Records) : StartsWith(disk, t) => StartsWith(disk', t)
  PROVE  ProcessOK(q)' /\ KnowledgeOK(q)'
<1>1. ProcessOK(q)'
  BY DEF JournalOK, ProcessOK
<1>2. KnowledgeOK(q)'
  BY DEF JournalOK, KnowledgeOK
<1> QED
  BY <1>1, <1>2

\* A check that passes has seen the whole journal.
LEMMA UnmodifiedIsKnown ==
  ASSUME JournalOK, NEW p \in Sharers, proc[p].step # "closed", ~Sharing!externallyModified(p),
         proc[p].io \notin {"write", "part"}
  PROVE  Sharing!Bytes(disk) = proc[p].known
<1>1. Sharing!Bytes(disk) \in Nat
  BY BytesOf DEF JournalOK
<1>2. proc[p].known \in Nat
  BY DEF JournalOK, KnowledgeOK, Even
<1> QED
  BY <1>1, <1>2 DEF Sharing!externallyModified

\* Who owes nothing and knows the length sees a whole journal.
LEMMA KnownIsWhole ==
  ASSUME JournalOK, NEW p \in Sharers, proc[p].step # "closed", proc[p].owed = "nothing",
         Sharing!Bytes(disk) = proc[p].known
  PROVE  Whole(disk) /\ Sharing!Bytes(disk) = 2 * Len(disk)
<1>1. PICK n \in Nat : Sharing!Bytes(disk) = 2 * n
  BY DEF JournalOK, KnowledgeOK, Even
<1>2. disk \in Seq(Lines) /\ TornIsLast(disk)
  BY DEF JournalOK
<1>3. Len(disk) \in Nat
  BY <1>2
<1>4. ~Whole(disk) => Sharing!Bytes(disk) = 2 * Len(disk) - 1
  BY <1>2, BytesOf
<1>5. Whole(disk)
  BY <1>1, <1>3, <1>4
<1> QED
  BY <1>2, <1>5, BytesOf

\* The steps that open the journal.
LEMMA OpeningSteps ==
  ASSUME NoProcess \notin Sharers, ControlOK, JournalOK, NEW p \in Sharers,
         Sharing!Read(p) \/ Sharing!Settle(p)
  PROVE  JournalOK'
<1>1. disk \in Seq(Lines) /\ TornIsLast(disk) /\ disk' = disk /\ appended' = appended
  BY DEF JournalOK, Sharing!Read, Sharing!Settle, Sharing!bounds
<1>2. Len(disk) \in Nat
  BY <1>1
<1>3. CASE Sharing!Read(p)
  <2>1. lock' = lock
    BY <1>3 DEF Sharing!Read
  <2>2. \A q \in Sharers \ {p} : ProcessOK(q)' /\ KnowledgeOK(q)'
    BY <1>1, <1>3, <2>1, ReadEffect, OthersKnow DEF Changes
  <2>3. ProcessOK(p)'
    <3>1. /\ proc'[p].pending = << >> /\ proc'[p].queue = << >> /\ proc'[p].io = "none" /\ proc'[p].busy = FALSE
      BY <1>3, ReadEffect
    <3>2. << >> \in Seq(Records) /\ FALSE \in BOOLEAN
      OBVIOUS
    <3>3. (proc'[p].io # "none") = FALSE /\ proc'[p].busy \in BOOLEAN /\ ~proc'[p].busy
      BY <3>1
    <3> QED
      BY <3>1, <3>2, <3>3 DEF ProcessOK
  <2>4. KnowledgeOK(p)'
    <3>1. proc'[p].io = "none" /\ proc'[p].busy = FALSE
      BY <1>3, ReadEffect
    <3>2. proc'[p].owed = "nothing" => proc'[p].known \in Even
      <4>1. proc'[p].owed = "nothing" => Whole(disk)
        BY <1>1, <1>3, ReadEffect, ReadableOf
      <4> QED
        BY <1>1, <1>2, <1>3, <4>1, ReadEffect, BytesOf DEF Even
    <3>3. proc'[p].known \in Nat
      BY <1>1, <1>3, ReadEffect, BytesOf
    <3>4. CASE Sharing!Readable(disk) = << >>
      <4>1. proc'[p].rewrite = <<Sharing!Metadata>> /\ proc'[p].known = Sharing!Bytes(disk)
        BY <1>3, <3>4, ReadEffect
      <4>2. Len(Sharing!Readable(disk)) = 0
        BY <3>4
      <4>3. Sharing!Bytes(disk) <= 1
        BY <1>1, <1>2, <4>2, ReadableOf, BytesOf
      <4> QED
        BY <3>1, <3>2, <3>3, <4>1, <4>3, MetadataFacts DEF KnowledgeOK
    <3>5. CASE Sharing!Readable(disk) # << >>
      <4>1. proc'[p].rewrite = Sharing!Readable(disk) /\ proc'[p].known = Sharing!Bytes(disk)
        BY <1>3, <3>5, ReadEffect
      <4>2. Sharing!Readable(disk) \in Seq(Records) /\ StartsWith(disk, Sharing!Readable(disk))
        BY <1>1, ReadableOf
      <4>3. Len(Sharing!Readable(disk)) = IF Whole(disk) THEN Len(disk) ELSE Len(disk) - 1
        BY <1>1, ReadableOf
      <4>4. Sharing!Bytes(disk) \in {2 * Len(Sharing!Readable(disk)), 2 * Len(Sharing!Readable(disk)) + 1}
        <5>1. CASE Whole(disk)
          BY <1>1, <4>3, <5>1, BytesOf
        <5>2. CASE ~Whole(disk)
          <6>1. Sharing!Bytes(disk) = 2 * Len(disk) - 1
            BY <1>1, <5>2, BytesOf
          <6> QED
            BY <1>2, <4>3, <5>2, <6>1
        <5> QED
          BY <5>1, <5>2
      <4> QED
        BY <1>1, <3>1, <3>2, <3>3, <4>1, <4>2, <4>4 DEF KnowledgeOK
    <3> QED
      BY <3>4, <3>5
  <2> QED
    BY <1>1, <2>2, <2>3, <2>4 DEF JournalOK
<1>4. CASE Sharing!Settle(p)
  <2>1. proc[p].io = "none" /\ ~proc[p].busy /\ proc[p].step = "read"
    BY <1>4, SettleEffect DEF ControlOK
  <2>2. \A q \in Sharers \ {p} : ProcessOK(q)' /\ KnowledgeOK(q)'
    BY <1>1, <1>4, SettleEffect, OthersKnow, OthersRest DEF Changes
  <2>3. \A f \in {"pending", "queue", "busy", "owed", "rewrite", "known", "at"} : proc'[p][f] = proc[p][f]
    BY <1>4, SettleEffect DEF Changes, Fields
  <2>4. ProcessOK(p) /\ KnowledgeOK(p)
    BY DEF JournalOK
  <2>5. proc'[p].io = "rewrite" => Sharing!Bytes(disk) = proc[p].known
    BY <1>4, <2>1, SettleEffect, UnmodifiedIsKnown
  <2>6. ProcessOK(p)'
    BY <1>4, <2>1, <2>3, <2>4, SettleEffect DEF ProcessOK
  <2>7. KnowledgeOK(p)'
    BY <1>1, <1>4, <2>1, <2>3, <2>4, <2>5, SettleEffect DEF KnowledgeOK
  <2> QED
    BY <1>1, <2>2, <2>6, <2>7 DEF JournalOK
<1> QED
  BY <1>3, <1>4

\* The migration or repair: what is written back is what is there.
LEMMA RewriteFacts ==
  ASSUME JournalOK, ControlOK, NEW p \in Sharers, proc[p].io = "rewrite"
  PROVE  /\ proc[p].rewrite \in Seq(Records) /\ lock = p
         /\ \A i \in DOMAIN disk : disk[i] # Sharing!Torn => i \in DOMAIN proc[p].rewrite /\ proc[p].rewrite[i] = disk[i]
<1>1. ProcessOK(p) /\ KnowledgeOK(p) /\ disk \in Seq(Lines) /\ TornIsLast(disk)
  BY DEF JournalOK
<1>2. /\ lock = p /\ proc[p].step = "open" /\ proc[p].owed # "nothing"
      /\ proc[p].rewrite \in Seq(Records) /\ proc[p].known \in Nat /\ Sharing!Bytes(disk) = proc[p].known
  BY <1>1 DEF ProcessOK, KnowledgeOK, ControlOK, Sharing!TypeOK
<1>3. Len(disk) \in Nat /\ Len(proc[p].rewrite) \in Nat
  BY <1>1, <1>2
<1>4. CASE proc[p].known <= 1
  <2>1. CASE Whole(disk)
    <3>1. Sharing!Bytes(disk) = 2 * Len(disk)
      BY <1>1, <2>1, BytesOf
    <3>2. Len(disk) = 0
      <4>1. proc[p].known \in Nat /\ proc[p].known = 2 * Len(disk)
        BY <1>2, <3>1
      <4> QED
        BY <1>3, <1>4, <4>1
    <3>3. DOMAIN disk = {}
      BY <1>1, <3>2
    <3> QED
      BY <1>2, <3>3
  <2>2. CASE ~Whole(disk)
    <3>1. Sharing!Bytes(disk) = 2 * Len(disk) - 1 /\ disk[Len(disk)] = Sharing!Torn
      BY <1>1, <2>2, BytesOf
    <3>2. Len(disk) = 0 \/ Len(disk) = 1
      <4>1. proc[p].known \in Nat /\ proc[p].known = 2 * Len(disk) - 1
        BY <1>2, <3>1
      <4>2. \A n \in Nat : 2 * n - 1 <= 1 => n = 0 \/ n = 1
        OBVIOUS
      <4>3. 2 * Len(disk) - 1 <= 1
        BY <1>4, <4>1
      <4> QED
        BY <1>3, <4>2, <4>3
    <3>3. \A i \in 1 .. Len(disk) : i = Len(disk)
      <4>1. \A n \in {0, 1} : \A i \in 1 .. n : i = n
        OBVIOUS
      <4>2. Len(disk) \in {0, 1}
        BY <3>2
      <4> QED
        BY <4>1, <4>2
    <3>4. DOMAIN disk = 1 .. Len(disk)
      BY <1>1
    <3> QED
      BY <1>2, <3>1, <3>3, <3>4
  <2> QED
    BY <2>1, <2>2
<1>5. CASE StartsWith(disk, proc[p].rewrite) /\ proc[p].known \in {2 * Len(proc[p].rewrite), 2 * Len(proc[p].rewrite) + 1}
  <2>1. Whole(disk) => Len(disk) = Len(proc[p].rewrite)
    BY <1>1, <1>2, <1>3, <1>5, BytesOf
  <2>2. ~Whole(disk) => Len(disk) = Len(proc[p].rewrite) + 1 /\ disk[Len(disk)] = Sharing!Torn
    BY <1>1, <1>2, <1>3, <1>5, BytesOf
  <2>3. \A i \in 1 .. Len(disk) : disk[i] # Sharing!Torn => i \in 1 .. Len(proc[p].rewrite)
    BY <1>3, <2>1, <2>2
  <2> QED
    BY <1>1, <1>2, <1>5, <2>3 DEF StartsWith
<1> QED
  BY <1>1, <1>2, <1>4, <1>5 DEF KnowledgeOK

\* The rewrite has finished.
LEMMA RewrittenStep ==
  ASSUME NoProcess \notin Sharers, ControlOK, JournalOK, NEW p \in Sharers, Sharing!Rewritten(p)
  PROVE  /\ JournalOK'
         /\ \A i \in DOMAIN disk : disk[i] # Sharing!Torn => \E j \in DOMAIN disk' : disk'[j] = disk[i]
<1> DEFINE r == proc[p].rewrite
<1>1. /\ r \in Seq(Records) /\ lock = p /\ disk' = r /\ proc[p].io = "rewrite"
      /\ \A i \in DOMAIN disk : disk[i] # Sharing!Torn => i \in DOMAIN r /\ r[i] = disk[i]
  BY RewriteFacts, RewrittenEffect
<1>2. ProcessOK(p) /\ KnowledgeOK(p) /\ disk \in Seq(Lines) /\ TornIsLast(disk) /\ appended \in Nat \ {0}
  BY DEF JournalOK
<1>3. disk' \in Seq(Lines) /\ (\A i \in DOMAIN disk' : disk'[i] # Sharing!Torn)
  <2>1. \A i \in DOMAIN r : r[i] \in Records
    BY <1>1
  <2> QED
    BY <1>1, <2>1, SeqMonotonic DEF Records
<1>4. TornIsLast(disk') /\ Whole(disk')
  BY <1>3 DEF TornIsLast, Whole
<1>5. Sharing!Bytes(disk') \in Even
  BY <1>3, <1>4, BytesOf DEF Even
<1>6. ASSUME NEW t \in Seq(Records), StartsWith(disk, t)
      PROVE  StartsWith(disk', t)
  <2>1. \A i \in 1 .. Len(t) : i \in DOMAIN disk /\ t[i] = disk[i] /\ disk[i] # Sharing!Torn
    BY <1>2, <1>6 DEF StartsWith, Records
  <2>2. \A i \in 1 .. Len(t) : i \in DOMAIN r /\ r[i] = t[i]
    BY <1>1, <2>1
  <2>3. Len(t) \in Nat /\ Len(r) \in Nat
    BY <1>1
  <2>4. Len(t) <= Len(r)
    <3>1. CASE Len(t) = 0
      BY <2>3, <3>1
    <3>2. CASE Len(t) # 0
      <4>1. Len(t) \in DOMAIN r
        BY <2>2, <2>3, <3>2
      <4> QED
        BY <1>1, <2>3, <4>1
    <3> QED
      BY <3>1, <3>2
  <2> QED
    BY <1>1, <2>2, <2>4 DEF StartsWith
<1>7. \A q \in Sharers \ {p} : ProcessOK(q)' /\ KnowledgeOK(q)'
  <2> SUFFICES ASSUME NEW q \in Sharers \ {p}
               PROVE  ProcessOK(q)' /\ KnowledgeOK(q)'
    OBVIOUS
  <2>1. proc'[q] = proc[q] /\ proc[q].io = "none" /\ (proc[q].busy => FALSE)
    BY <1>1, RewrittenEffect, OthersRest DEF Changes
  <2> QED
    BY <1>6, <2>1, OthersLag
<1>8. \A f \in {"step", "pending", "queue", "busy", "at"} : proc'[p][f] = proc[p][f]
  <2>1. Changes(p, {"io", "owed", "rewrite", "known"})
    BY RewrittenEffect
  <2> QED
    BY ONLY <2>1 DEF Changes, Fields
<1>9. ProcessOK(p)'
  BY <1>1, <1>2, <1>8, RewrittenEffect DEF ProcessOK
<1>10. KnowledgeOK(p)'
  BY <1>5, <1>8, RewrittenEffect DEF KnowledgeOK
<1>11. appended' = appended
  BY DEF Sharing!Rewritten, Sharing!bounds
<1>12. \A i \in DOMAIN disk : disk[i] # Sharing!Torn => \E j \in DOMAIN disk' : disk'[j] = disk[i]
  BY <1>1
<1> QED
  BY <1>2, <1>3, <1>4, <1>7, <1>9, <1>10, <1>11, <1>12 DEF JournalOK

\* Accepting a record, and the promises of persistQueue.
LEMMA AppendingSteps ==
  ASSUME NoProcess \notin Sharers, ControlOK, JournalOK, NEW p \in Sharers,
         (\E slow \in BOOLEAN : Sharing!AppendRecord(p, slow)) \/ Sharing!QueueStep(p)
  PROVE  JournalOK'
<1>1. ProcessOK(p) /\ KnowledgeOK(p) /\ disk \in Seq(Lines) /\ TornIsLast(disk) /\ appended \in Nat \ {0} /\ disk' = disk
  BY DEF JournalOK, Sharing!AppendRecord, Sharing!QueueStep
<1>2. /\ proc[p].pending \in Seq(Records) /\ proc[p].queue \in Seq(Records) /\ proc[p].busy \in BOOLEAN
      /\ proc[p].io \in {"write", "part"} => proc[p].pending # << >>
      /\ proc[p].pending # << >> => proc[p].owed = "nothing"
  BY <1>1 DEF ProcessOK
<1>3. CASE \E slow \in BOOLEAN : Sharing!AppendRecord(p, slow)
  <2>1. PICK slow \in BOOLEAN : Sharing!AppendRecord(p, slow)
    BY <1>3
  <2>2. \A q \in Sharers \ {p} : ProcessOK(q)' /\ KnowledgeOK(q)'
    BY <1>1, <2>1, AppendEffect, OthersKnow DEF Changes
  <2>3. \A f \in Fields \ {"pending", "queue"} : proc'[p][f] = proc[p][f]
    BY <2>1, AppendEffect DEF Changes
  <2>4. Sharing!Line(appended + 1, proc[p].busy) \in Records
    <3>1. appended + 1 \in Nat \ {0}
      BY <1>1
    <3> QED
      BY <1>2, <3>1, LineFacts
  <2>5. /\ proc'[p].pending \in Seq(Records) /\ proc'[p].queue \in Seq(Records)
        /\ proc'[p].pending # proc[p].pending => proc[p].owed = "nothing"
        /\ proc[p].pending # << >> => proc'[p].pending # << >>
        /\ proc[p].step = "open" /\ lock' = lock /\ appended' = appended + 1
    <3> DEFINE r == Sharing!Line(appended + 1, proc[p].busy)
    <3>1. \A s \in Seq(Records) : Append(s, r) \in Seq(Records) /\ Append(s, r) # << >>
      BY <2>4, AppendProperties
    <3>2. /\ proc[p].step = "open" /\ appended' = appended + 1 /\ lock' = lock
          /\ \/ /\ proc[p].owed = "nothing" /\ proc'[p].queue = proc[p].queue
                /\ proc'[p].pending = Append(proc[p].pending, r)
             \/ /\ proc'[p].queue = Append(proc[p].queue, r)
                /\ proc'[p].pending = proc[p].pending
      BY <2>1, AppendEffect
    <3> HIDE DEF r
    <3> QED
      BY <1>2, <3>1, <3>2
  <2>6. ProcessOK(p)'
    BY <1>1, <2>3, <2>5 DEF ProcessOK, Fields
  <2>7. KnowledgeOK(p)'
    BY <1>1, <2>3 DEF KnowledgeOK, Fields
  <2> QED
    BY <1>1, <2>2, <2>5, <2>6, <2>7 DEF JournalOK
<1>4. CASE Sharing!QueueStep(p)
  <2>1. \A q \in Sharers \ {p} : ProcessOK(q)' /\ KnowledgeOK(q)'
    BY <1>1, <1>4, QueueEffect, OthersKnow, OthersRest DEF Changes
  <2>2. \A f \in Fields \ {"queue", "pending", "io"} : proc'[p][f] = proc[p][f]
    BY <1>4, QueueEffect DEF Changes
  <2>3. Head(proc[p].queue) \in Records /\ Tail(proc[p].queue) \in Seq(Records)
    BY <1>2, <1>4, QueueEffect
  <2>4. proc[p].step = "open" /\ appended' = appended
    BY <1>4, QueueEffect DEF Sharing!QueueStep, Sharing!bounds
  <2>5. CASE proc'[p].io = proc[p].io /\ lock' = lock
    <3>1. /\ proc'[p].pending \in Seq(Records) /\ proc'[p].queue \in Seq(Records)
          /\ proc'[p].pending # proc[p].pending => proc[p].owed = "nothing"
          /\ proc[p].pending # << >> => proc'[p].pending # << >>
      <4> DEFINE h == Head(proc[p].queue)
      <4>1. \A s \in Seq(Records) : Append(s, h) \in Seq(Records) /\ Append(s, h) # << >>
        BY <2>3, AppendProperties
      <4>2. CASE /\ proc[p].owed = "nothing" /\ proc'[p].queue = Tail(proc[p].queue)
                 /\ proc'[p].pending = Append(proc[p].pending, h)
        BY <1>2, <2>3, <4>1, <4>2
      <4>3. CASE proc'[p].queue = Tail(proc[p].queue) /\ proc'[p].pending = proc[p].pending
        BY <1>2, <2>3, <4>3
      <4>4. CASE proc'[p].queue = proc[p].queue /\ proc'[p].pending = proc[p].pending
        BY <1>2, <4>4
      <4> QED
        BY <1>4, <4>2, <4>3, <4>4, QueueEffect
    <3>2. ProcessOK(p)'
      BY <1>1, <2>2, <2>4, <2>5, <3>1 DEF ProcessOK, Fields
    <3>3. KnowledgeOK(p)'
      BY <1>1, <2>2, <2>5 DEF KnowledgeOK, Fields
    <3> QED
      BY <1>1, <2>1, <2>4, <3>2, <3>3 DEF JournalOK
  <2>6. CASE /\ proc[p].owed # "nothing" /\ lock' = p /\ proc'[p].io = "rewrite"
             /\ ~Sharing!externallyModified(p)
             /\ proc'[p].queue = proc[p].queue /\ proc'[p].pending = proc[p].pending
    <3>1. Sharing!Bytes(disk) = proc[p].known
      BY <1>2, <2>4, <2>6, UnmodifiedIsKnown
    <3>2. ProcessOK(p)'
      BY <1>1, <2>2, <2>4, <2>6 DEF ProcessOK, Fields
    <3>3. KnowledgeOK(p)'
      BY <1>1, <2>2, <2>6, <3>1 DEF KnowledgeOK, Fields
    <3> QED
      BY <1>1, <2>1, <2>4, <3>2, <3>3 DEF JournalOK
  <2> QED
    BY <1>4, <2>5, <2>6, QueueEffect
<1> QED
  BY <1>3, <1>4

\* A write: begun on a journal that is known, so on whole lines; half done it
\* has left the only torn line, the last; done it has put the record there.
LEMMA WritingSteps ==
  ASSUME NoProcess \notin Sharers, ControlOK, JournalOK, NEW p \in Sharers,
         Sharing!StartWrite(p) \/ Sharing!WritePart(p) \/ Sharing!WriteDone(p)
  PROVE  /\ blind' \/ JournalOK'
         /\ \A i \in DOMAIN disk : disk[i] # Sharing!Torn => \E j \in DOMAIN disk' : disk'[j] = disk[i]
<1>1. ProcessOK(p) /\ KnowledgeOK(p) /\ disk \in Seq(Lines) /\ TornIsLast(disk) /\ appended \in Nat \ {0}
  BY DEF JournalOK
<1>2. appended' = appended /\ Len(disk) \in Nat /\ DOMAIN disk = 1 .. Len(disk)
  BY <1>1 DEF Sharing!StartWrite, Sharing!WritePart, Sharing!WriteDone, Sharing!bounds
<1>3. /\ proc[p].pending \in Seq(Records)
      /\ proc[p].pending # << >> => proc[p].owed = "nothing" /\ proc[p].step = "open"
      /\ proc[p].io = "write" \/ proc[p].io = "part" =>
           proc[p].pending # << >> /\ lock = p /\ proc[p].owed = "nothing" /\ proc[p].step = "open"
  BY <1>1 DEF ProcessOK
<1>4. ASSUME Sharing!StartWrite(p), ~blind'
      PROVE  JournalOK'
  <2>1. disk' = disk
    BY <1>4, WriteEffect
  <2>2. \A f \in Fields \ {"io"} : proc'[p][f] = proc[p][f]
    BY <1>4, WriteEffect DEF Changes
  <2>3. \A q \in Sharers \ {p} : ProcessOK(q)' /\ KnowledgeOK(q)'
    BY <1>4, <2>1, WriteEffect, OthersRest, OthersKnow DEF Changes
  <2>4. Sharing!Bytes(disk) = proc[p].known
    <3>1. CASE proc[p].busy
      BY <1>1, <1>4, <3>1, WriteEffect DEF KnowledgeOK
    <3>2. CASE ~proc[p].busy
      BY <1>4, <3>2, WriteEffect, UnmodifiedIsKnown
    <3> QED
      BY <3>1, <3>2
  <2>5. ProcessOK(p)'
    BY <1>1, <1>4, <2>2, WriteEffect DEF ProcessOK, Fields
  <2>6. KnowledgeOK(p)'
    BY <1>1, <1>3, <1>4, <2>1, <2>2, <2>4, WriteEffect DEF KnowledgeOK, Fields
  <2> QED
    BY <1>1, <1>2, <2>1, <2>3, <2>5, <2>6 DEF JournalOK
<1>5. ASSUME Sharing!WritePart(p)
      PROVE  JournalOK' /\ \A i \in DOMAIN disk : i \in DOMAIN disk' /\ disk'[i] = disk[i]
  <2>1. proc[p].io = "write" /\ lock = p /\ Sharing!Bytes(disk) = proc[p].known
    BY <1>1, <1>3, <1>5, WriteEffect DEF KnowledgeOK
  <2>2. Whole(disk) /\ Sharing!Bytes(disk) = 2 * Len(disk)
    BY <1>3, <2>1, KnownIsWhole
  <2>3. /\ disk' = Append(disk, Sharing!Torn) /\ disk' \in Seq(Lines) /\ Len(disk') = Len(disk) + 1
        /\ disk'[Len(disk) + 1] = Sharing!Torn /\ \A i \in 1 .. Len(disk) : disk'[i] = disk[i]
    BY <1>1, <1>5, LineFacts, AppendProperties, WriteEffect
  <2>4. DOMAIN disk' = 1 .. Len(disk) + 1 /\ Len(disk) + 1 \in DOMAIN disk'
    BY <1>2, <2>3
  <2>5. TornIsLast(disk') /\ ~Whole(disk')
    BY <1>2, <2>2, <2>3, <2>4 DEF TornIsLast, Whole
  <2>6. Sharing!Bytes(disk') = proc[p].known + 1
    <3>1. Sharing!Bytes(disk') = 2 * (Len(disk) + 1) - 1
      BY <2>3, <2>5, BytesOf
    <3>2. \A n \in Nat : 2 * (n + 1) - 1 = 2 * n + 1
      OBVIOUS
    <3> QED
      BY <1>2, <2>1, <2>2, <3>1, <3>2
  <2>7. \A f \in Fields \ {"io", "at"} : proc'[p][f] = proc[p][f]
    BY <1>5, WriteEffect DEF Changes
  <2>8. \A q \in Sharers \ {p} : ProcessOK(q)' /\ KnowledgeOK(q)'
    <3> SUFFICES ASSUME NEW q \in Sharers \ {p}
                 PROVE  ProcessOK(q)' /\ KnowledgeOK(q)'
      OBVIOUS
    <3>1. proc'[q] = proc[q] /\ proc[q].io = "none" /\ (proc[q].busy => FALSE)
      BY <1>5, <2>1, WriteEffect, OthersRest DEF Changes
    <3>2. ASSUME NEW t \in Seq(Records), StartsWith(disk, t)
          PROVE  StartsWith(disk', t)
      <4>1. Len(t) \in Nat /\ Len(t) <= Len(disk) /\ DOMAIN t = 1 .. Len(t) /\ \A i \in DOMAIN t : t[i] = disk[i]
        BY <3>2 DEF StartsWith
      <4>2. Len(t) <= Len(disk')
        BY <1>2, <2>3, <4>1
      <4> QED
        BY <1>2, <2>3, <4>1, <4>2 DEF StartsWith
    <3> QED
      BY <3>1, <3>2, OthersLag
  <2>9. ProcessOK(p)'
    BY <1>1, <1>5, <2>1, <2>7, WriteEffect DEF ProcessOK, Fields
  <2>10. KnowledgeOK(p)'
    <3>1. /\ proc'[p].io = "part" /\ proc'[p].at = Len(disk') /\ proc'[p].owed = "nothing"
          /\ disk'[proc'[p].at] = Sharing!Torn /\ Sharing!Bytes(disk') = proc'[p].known + 1
          /\ proc'[p].known \in Even
      BY <1>1, <1>3, <1>5, <2>1, <2>3, <2>6, <2>7, WriteEffect DEF KnowledgeOK, Fields
    <3>2. disk' # << >>
      BY <2>4
    <3> QED
      BY <3>1, <3>2 DEF KnowledgeOK
  <2> QED
    BY <1>1, <1>2, <2>3, <2>4, <2>5, <2>8, <2>9, <2>10 DEF JournalOK
<1>6. ASSUME Sharing!WriteDone(p)
      PROVE  /\ JournalOK'
             /\ \A i \in DOMAIN disk : disk[i] # Sharing!Torn => i \in DOMAIN disk' /\ disk'[i] = disk[i]
  <2> DEFINE h == Head(proc[p].pending)
  <2>1. /\ proc[p].io = "part" /\ lock = p /\ Sharing!Bytes(disk) = proc[p].known + 1
        /\ proc[p].at = Len(disk) /\ disk # << >> /\ disk[Len(disk)] = Sharing!Torn
    BY <1>1, <1>3, <1>6, WriteEffect DEF KnowledgeOK
  <2>2. h \in Records /\ Tail(proc[p].pending) \in Seq(Records)
    BY <1>3, <2>1
  <2>3. disk' = [disk EXCEPT ![Len(disk)] = h]
    BY <1>6, <2>1, WriteEffect
  <2>4. Len(disk) >= 1 /\ Len(disk) \in DOMAIN disk
    BY <1>1, <1>2, <2>1
  <2> HIDE DEF h
  <2>5. DOMAIN disk' = DOMAIN disk /\ disk'[Len(disk)] = h /\ \A i \in DOMAIN disk : i # Len(disk) => disk'[i] = disk[i]
    BY <2>3, <2>4
  <2>6. disk' \in Seq(Lines) /\ Len(disk') = Len(disk)
    BY <1>1, <2>2, <2>3, <2>4, ExceptSeq DEF Records
  <2>7. Whole(disk') /\ TornIsLast(disk')
    BY <1>1, <2>2, <2>5 DEF Whole, TornIsLast, Records
  <2>8. Sharing!Bytes(disk') = proc[p].known + 2 /\ proc[p].known + 2 \in Even
    <3>1. Sharing!Bytes(disk') = 2 * Len(disk) /\ Sharing!Bytes(disk) = 2 * Len(disk) - 1
      <4>1. ~Whole(disk)
        BY <2>1, <2>4 DEF Whole
      <4> QED
        BY <1>1, <2>6, <2>7, <4>1, BytesOf
    <3>2. PICK n \in Nat : proc[p].known = 2 * n
      BY <1>1, <1>3, <2>1 DEF KnowledgeOK, Even
    <3>3. \A m \in Nat : 2 * m - 1 = 2 * n + 1 => 2 * m = 2 * n + 2
      OBVIOUS
    <3>4. 2 * Len(disk) = 2 * n + 2
      BY <1>2, <2>1, <3>1, <3>2, <3>3
    <3>5. 2 * n + 2 = 2 * (n + 1) /\ n + 1 \in Nat
      OBVIOUS
    <3> QED
      BY <3>1, <3>2, <3>4, <3>5 DEF Even
  <2>9. \A f \in Fields \ {"io", "at", "pending", "known"} : proc'[p][f] = proc[p][f]
    BY <1>6, WriteEffect DEF Changes
  <2>10. \A q \in Sharers \ {p} : ProcessOK(q)' /\ KnowledgeOK(q)'
    <3> SUFFICES ASSUME NEW q \in Sharers \ {p}
                 PROVE  ProcessOK(q)' /\ KnowledgeOK(q)'
      OBVIOUS
    <3>1. proc'[q] = proc[q] /\ proc[q].io = "none" /\ (proc[q].busy => FALSE)
      BY <1>6, <2>1, WriteEffect, OthersRest DEF Changes
    <3>2. ASSUME NEW t \in Seq(Records), StartsWith(disk, t)
          PROVE  StartsWith(disk', t)
      <4>1. \A i \in DOMAIN t : t[i] # Sharing!Torn
        <5>1. \A i \in DOMAIN t : t[i] \in Records
          OBVIOUS
        <5> QED
          BY <5>1 DEF Records
      <4>2. Len(t) \in Nat /\ Len(t) <= Len(disk) /\ DOMAIN t = 1 .. Len(t) /\ \A i \in DOMAIN t : t[i] = disk[i]
        BY <3>2 DEF StartsWith
      <4>3. \A i \in DOMAIN t : i \in DOMAIN disk /\ i # Len(disk)
        BY <1>2, <2>1, <4>1, <4>2
      <4> QED
        BY <2>5, <2>6, <4>2, <4>3 DEF StartsWith
    <3> QED
      BY <3>1, <3>2, OthersLag
  <2>11. ProcessOK(p)'
    BY <1>1, <1>3, <1>6, <2>1, <2>2, <2>9, WriteEffect DEF ProcessOK, Fields
  <2>12. KnowledgeOK(p)'
    <3>1. /\ proc'[p].io = "none" /\ proc'[p].owed = "nothing" /\ proc'[p].known = Sharing!Bytes(disk')
          /\ proc'[p].known \in Even
      BY <1>1, <1>3, <1>6, <2>1, <2>8, <2>9, WriteEffect DEF Fields
    <3> QED
      BY <3>1 DEF KnowledgeOK
  <2>13. \A i \in DOMAIN disk : disk[i] # Sharing!Torn => i \in DOMAIN disk' /\ disk'[i] = disk[i]
    BY <2>1, <2>5
  <2> QED
    BY <1>1, <1>2, <2>6, <2>7, <2>10, <2>11, <2>12, <2>13 DEF JournalOK
<1>7. Sharing!StartWrite(p) => disk' = disk
  BY WriteEffect
<1> QED
  BY <1>4, <1>5, <1>6, <1>7

\* A turn begins and ends, the lock is given back, the session is closed.
LEMMA TurnSteps ==
  ASSUME NoProcess \notin Sharers, ControlOK, JournalOK, NEW p \in Sharers,
         \/ Sharing!Begin(p) \/ Sharing!BeginStale(p) \/ Sharing!EndTurn(p)
         \/ Sharing!ReleaseFlush(p) \/ Sharing!ReleaseFlushed(p) \/ Sharing!ReleaseLock(p)
         \/ Sharing!Close(p) \/ Sharing!Crash(p)
  PROVE  disk' = disk /\ (late' \/ JournalOK')
<1>1. ProcessOK(p) /\ KnowledgeOK(p) /\ disk \in Seq(Lines) /\ TornIsLast(disk) /\ appended \in Nat \ {0}
  BY DEF JournalOK
<1>2. disk' = disk /\ appended' = appended
  BY DEF Sharing!Begin, Sharing!BeginStale, Sharing!EndTurn, Sharing!ReleaseFlush, Sharing!ReleaseFlushed,
         Sharing!ReleaseLock, Sharing!Close, Sharing!Crash, Sharing!bounds
<1>3. CASE Sharing!Begin(p)
  <2>0. lock \in {NoProcess, p} /\ \A q \in Sharers \ {p} : proc'[q] = proc[q]
    BY <1>3, TurnEffect DEF Changes
  <2>1. \A q \in Sharers \ {p} : ProcessOK(q)' /\ KnowledgeOK(q)'
    BY <1>2, <2>0, OthersRest, OthersKnow
  <2>2. \A f \in Fields \ {"busy"} : proc'[p][f] = proc[p][f]
    BY <1>3, TurnEffect DEF Changes
  <2>3. proc[p].io = "none" => Sharing!Bytes(disk) = proc[p].known
    BY <1>3, TurnEffect, UnmodifiedIsKnown
  <2>4. ProcessOK(p)'
    <3>1. proc'[p].busy = TRUE /\ lock' = p /\ proc[p].step = "open"
      BY <1>3, TurnEffect
    <3>2. proc'[p].busy \in BOOLEAN
      BY <3>1
    <3> QED
      BY <1>1, <2>2, <3>1, <3>2 DEF ProcessOK, Fields
  <2>5. KnowledgeOK(p)'
    BY <1>1, <1>2, <2>2, <2>3 DEF KnowledgeOK, Fields
  <2> QED
    BY <1>1, <1>2, <2>1, <2>4, <2>5 DEF JournalOK
<1>4. ASSUME Sharing!BeginStale(p), ~late'
      PROVE  JournalOK'
  <2>1. /\ proc' = proc /\ lock' = NoProcess /\ proc[p].io = "none" /\ lock \in {NoProcess, p}
        /\ proc[p].step = "open" /\ Sharing!externallyModified(p)
    BY <1>4 DEF Sharing!BeginStale, Sharing!Is, Sharing!CanHold
  <2>2. \A q \in Sharers \ {p} : ProcessOK(q)' /\ KnowledgeOK(q)'
    BY <1>2, <2>1, OthersRest, OthersKnow
  <2>3. proc[p].busy => FALSE
    <3>1. CASE proc[p].busy
      <4>1. Sharing!Bytes(disk) = proc[p].known /\ Sharing!Bytes(disk) \in Nat
        BY <1>1, <2>1, <3>1, BytesOf DEF KnowledgeOK
      <4> QED
        BY <2>1, <4>1 DEF Sharing!externallyModified
    <3> QED
      BY <3>1
  <2>4. ProcessOK(p)' /\ KnowledgeOK(p)'
    BY <1>2, <2>1, <2>3, OthersKnow
  <2> QED
    BY <1>1, <1>2, <2>2, <2>4 DEF JournalOK
<1>5. CASE Sharing!EndTurn(p) \/ Sharing!ReleaseFlush(p) \/ Sharing!ReleaseFlushed(p)
  <2>1. Changes(p, {"busy", "releasing"}) /\ lock' = lock /\ (proc'[p].busy = FALSE \/ proc'[p].busy = proc[p].busy)
    BY <1>5, TurnEffect DEF Changes, Fields
  <2>2. \A q \in Sharers \ {p} : ProcessOK(q)' /\ KnowledgeOK(q)'
    BY <1>2, <2>1, OthersKnow DEF Changes
  <2>3. \A f \in Fields \ {"busy", "releasing"} : proc'[p][f] = proc[p][f]
    BY <2>1 DEF Changes
  <2>4. proc[p].busy \in BOOLEAN
    BY <1>1 DEF ProcessOK
  <2>5. proc'[p].busy \in BOOLEAN /\ (proc'[p].busy => proc[p].busy)
    BY <2>1, <2>4
  <2>6. ProcessOK(p)'
    BY <1>1, <2>1, <2>3, <2>5 DEF ProcessOK, Fields
  <2>7. KnowledgeOK(p)'
    BY <1>1, <1>2, <2>3, <2>5 DEF KnowledgeOK, Fields
  <2> QED
    BY <1>1, <1>2, <2>2, <2>6, <2>7 DEF JournalOK
<1>6. ASSUME Sharing!ReleaseLock(p), ~late'
      PROVE  JournalOK'
  <2>1. \A f \in Fields \ {"releasing"} : proc'[p][f] = proc[p][f]
    BY <1>6, TurnEffect DEF Changes
  <2>0. (lock' = lock \/ lock = p) /\ \A q \in Sharers \ {p} : proc'[q] = proc[q]
    BY <1>6, TurnEffect DEF Changes
  <2>2. \A q \in Sharers \ {p} : ProcessOK(q)' /\ KnowledgeOK(q)'
    BY <1>2, <2>0, OthersRest, OthersKnow
  <2>3. lock' = lock \/ (proc[p].io = "none" /\ (proc[p].busy => FALSE))
    BY <1>6, TurnEffect
  <2>4. ProcessOK(p)'
    BY <1>1, <2>1, <2>3 DEF ProcessOK, Fields
  <2>5. KnowledgeOK(p)'
    BY <1>1, <1>2, <2>1 DEF KnowledgeOK, Fields
  <2> QED
    BY <1>1, <1>2, <2>2, <2>4, <2>5 DEF JournalOK
<1>7. CASE Sharing!Close(p) \/ Sharing!Crash(p)
  <2>1. Changes(p, Fields) /\ proc'[p] = Sharing!Closed /\ lock' = IF lock = p THEN NoProcess ELSE lock
    BY <1>7, TurnEffect
  <2>2. \A q \in Sharers \ {p} : ProcessOK(q)' /\ KnowledgeOK(q)'
    BY <1>2, <2>1, OthersRest, OthersKnow DEF Changes
  <2>3. /\ proc'[p].step = "closed" /\ proc'[p].io = "none" /\ proc'[p].busy = FALSE
        /\ proc'[p].pending = << >> /\ proc'[p].queue = << >>
    BY <2>1 DEF Sharing!Closed
  <2>4. << >> \in Seq(Records) /\ FALSE \in BOOLEAN
    OBVIOUS
  <2>5. proc'[p].busy \in BOOLEAN /\ (proc'[p].busy => FALSE)
    BY <2>3
  <2>6. ProcessOK(p)'
    BY <2>3, <2>4, <2>5 DEF ProcessOK
  <2>7. KnowledgeOK(p)'
    BY <2>3, <2>5 DEF KnowledgeOK
  <2> QED
    BY <1>1, <1>2, <2>2, <2>6, <2>7 DEF JournalOK
<1> QED
  BY <1>2, <1>3, <1>4, <1>5, <1>6, <1>7

\* What was excused stays excused.
LEMMA ExcusesStay ==
  ASSUME NEW p \in Sharers, SharingAction(p)
  PROVE  (blind => blind') /\ (late => late')
<1>1. SUFFICES ASSUME ~(\E slow \in BOOLEAN : Sharing!AppendRecord(p, slow))
               PROVE  (blind => blind') /\ (late => late')
  BY DEF Sharing!AppendRecord
<1>2. CASE Sharing!Read(p) \/ Sharing!Settle(p) \/ Sharing!Rewritten(p) \/ Sharing!QueueStep(p)
  BY <1>2 DEF Sharing!Read, Sharing!Settle, Sharing!Rewritten, Sharing!QueueStep
<1>3. CASE Sharing!StartWrite(p)
  <2>1. blind' = (blind \/ (~proc[p].busy /\ Sharing!externallyModified(p))) /\ late' = late
    BY <1>3, Zenon DEF Sharing!StartWrite
  <2> QED
    BY <2>1, Zenon
<1>4. CASE Sharing!BeginStale(p)
  <2>1. late' = (late \/ proc[p].io # "none") /\ blind' = blind
    BY <1>4, Zenon DEF Sharing!BeginStale
  <2> QED
    BY <2>1, Zenon
<1>5. CASE Sharing!ReleaseLock(p)
  <2>1. CASE Sharing!StillBusy(proc[p]) \/ lock # p
    BY <1>5, <2>1 DEF Sharing!ReleaseLock
  <2>2. CASE ~(Sharing!StillBusy(proc[p]) \/ lock # p)
    <3>1. blind' = blind /\ late' = (late \/ proc[p].io # "none")
      BY <1>5, <2>2, Zenon DEF Sharing!ReleaseLock
    <3> QED
      BY <3>1, Zenon
  <2> QED
    BY <2>1, <2>2
<1>7. CASE \/ Sharing!WritePart(p) \/ Sharing!WriteDone(p) \/ Sharing!Begin(p) \/ Sharing!EndTurn(p)
           \/ Sharing!ReleaseFlush(p) \/ Sharing!ReleaseFlushed(p)
  BY <1>7 DEF Sharing!WritePart, Sharing!WriteDone, Sharing!Begin, Sharing!EndTurn,
              Sharing!ReleaseFlush, Sharing!ReleaseFlushed
<1>6. CASE Sharing!Close(p) \/ Sharing!Crash(p)
  BY <1>6 DEF Sharing!Close, Sharing!Crash
<1> QED
  BY <1>1, <1>2, <1>3, <1>4, <1>5, <1>6, <1>7 DEF SharingAction

\* Every step keeps the invariant, and the records that are in the journal.
LEMMA SharingStep ==
  ASSUME SharingIInv, Sharing!Next
  PROVE  /\ SharingIInv'
         /\ blind \/ late \/ \A i \in DOMAIN disk :
              disk[i] # Sharing!Torn => \E j \in DOMAIN disk' : disk'[j] = disk[i]
<1>1. PICK p \in Sharers : SharingAction(p)
  BY DEF Sharing!Next, SharingAction
<1>2. ControlOK' /\ LegacyOK'
  BY <1>1, ControlStep DEF SharingIInv
<1>3. CASE blind \/ late
  BY <1>1, <1>2, <1>3, ExcusesStay DEF SharingIInv
<1>4. CASE ~blind /\ ~late
  <2> DEFINE kept == \A i \in DOMAIN disk :
                       disk[i] # Sharing!Torn => \E j \in DOMAIN disk' : disk'[j] = disk[i]
  <2>1. ControlOK /\ JournalOK /\ NoProcess \notin Sharers
    BY <1>4, SharersAssumption DEF SharingIInv
  <2>2. disk' = disk => kept
    OBVIOUS
  <2> HIDE DEF kept
  <2>3. CASE Sharing!Read(p) \/ Sharing!Settle(p)
    <3>1. disk' = disk
      BY <2>3 DEF Sharing!Read, Sharing!Settle
    <3> QED
      BY <1>2, <2>1, <2>2, <2>3, <3>1, OpeningSteps DEF SharingIInv, kept
  <2>4. CASE Sharing!Rewritten(p)
    BY <1>2, <2>1, <2>4, RewrittenStep DEF SharingIInv, kept
  <2>5. CASE (\E slow \in BOOLEAN : Sharing!AppendRecord(p, slow)) \/ Sharing!QueueStep(p)
    <3>1. disk' = disk
      BY <2>5 DEF Sharing!AppendRecord, Sharing!QueueStep
    <3> QED
      BY <1>2, <2>1, <2>2, <2>5, <3>1, AppendingSteps DEF SharingIInv, kept
  <2>6. CASE Sharing!StartWrite(p) \/ Sharing!WritePart(p) \/ Sharing!WriteDone(p)
    BY <1>2, <2>1, <2>6, WritingSteps DEF SharingIInv, kept
  <2>7. CASE \/ Sharing!Begin(p) \/ Sharing!BeginStale(p) \/ Sharing!EndTurn(p)
             \/ Sharing!ReleaseFlush(p) \/ Sharing!ReleaseFlushed(p) \/ Sharing!ReleaseLock(p)
             \/ Sharing!Close(p) \/ Sharing!Crash(p)
    <3>1. disk' = disk /\ (late' \/ JournalOK')
      BY <2>1, <2>7, TurnSteps
    <3> QED
      BY <1>2, <2>2, <3>1 DEF SharingIInv, kept
  <2> QED
    BY <1>1, <2>3, <2>4, <2>5, <2>6, <2>7 DEF SharingAction
<1> QED
  BY <1>3, <1>4

LEMMA SharingInitially == Sharing!Init => SharingIInv
<1> SUFFICES ASSUME Sharing!Init
             PROVE  SharingIInv
  OBVIOUS
<1>1. \A p \in Sharers :
        /\ DOMAIN proc[p] = Fields /\ proc[p].step = "closed" /\ proc[p].io = "none" /\ proc[p].busy = FALSE
        /\ proc[p].pending = << >> /\ proc[p].queue = << >>
  BY LineFacts DEF Sharing!Init, Sharing!Closed
<1>2. DOMAIN proc = Sharers /\ lock = NoProcess /\ appended \in Nat \ {0} /\ disk \in {<< >>, <<Sharing!Metadata>>}
  BY DEF Sharing!Init
<1>3. ControlOK
  BY <1>1, <1>2 DEF ControlOK, Sharing!TypeOK
<1>4. LegacyOK
  <2>1. legacy => disk = <<Sharing!Metadata>>
    BY MetadataFacts DEF Sharing!Init
  <2> QED
    BY <1>1, <2>1 DEF LegacyOK
<1>5. << >> \in Seq(Records) /\ << >> \in Seq(Lines) /\ FALSE \in BOOLEAN /\ DOMAIN << >> = {}
  OBVIOUS
<1>6. TornIsLast(<< >>)
  BY DEF TornIsLast
<1>7. disk \in Seq(Lines) /\ TornIsLast(disk)
  BY <1>2, <1>5, <1>6, MetadataFacts
<1>8. ASSUME NEW p \in Sharers
      PROVE  ProcessOK(p) /\ KnowledgeOK(p)
  <2>1. proc[p].busy \in BOOLEAN /\ (proc[p].busy => FALSE)
    BY <1>1, <1>5
  <2>2. ProcessOK(p)
    BY <1>1, <1>5, <2>1 DEF ProcessOK
  <2>3. KnowledgeOK(p)
    BY <1>1, <2>1 DEF KnowledgeOK
  <2> QED
    BY <2>2, <2>3
<1> QED
  BY <1>2, <1>3, <1>4, <1>7, <1>8 DEF SharingIInv, JournalOK

LEMMA SharingIInvImplies == SharingIInv => TurnOwnsTheJournal
<1> SUFFICES ASSUME SharingIInv
             PROVE  TurnOwnsTheJournal
  OBVIOUS
<1>1. Sharing!TypeOK
  BY DEF SharingIInv, ControlOK
<1>2. Sharing!TurnHoldsTheLock
  BY DEF SharingIInv, JournalOK, ProcessOK, Sharing!TurnHoldsTheLock
<1>3. ASSUME JournalOK, NEW p \in Sharers, proc[p].busy
      PROVE  ~Sharing!externallyModified(p)
  <2>1. proc[p].step = "open" /\ Sharing!Bytes(disk) \in Nat
    BY <1>3, BytesOf DEF JournalOK, ProcessOK
  <2>2. proc[p].io \in {"none", "write", "part", "rewrite"}
    BY <1>1 DEF Sharing!TypeOK
  <2>3. proc[p].known \in Nat
    BY <1>3, <2>1 DEF JournalOK, KnowledgeOK, Even
  <2>4. CASE proc[p].io = "part"
    <3>1. Sharing!Bytes(disk) = proc[p].known + 1
      BY <1>3, <2>4 DEF JournalOK, KnowledgeOK
    <3> QED
      BY <2>3, <2>4, <3>1 DEF Sharing!externallyModified
  <2>5. CASE proc[p].io # "part"
    <3>1. Sharing!Bytes(disk) = proc[p].known
      BY <1>3, <2>2, <2>5 DEF JournalOK, KnowledgeOK
    <3> QED
      BY <2>3, <3>1 DEF Sharing!externallyModified
  <2> QED
    BY <2>4, <2>5
<1>4. Sharing!TurnSeesTheJournal
  BY <1>3 DEF SharingIInv, Sharing!TurnSeesTheJournal
<1>5. Sharing!TurnRecordsReadable
  <2>1. ASSUME JournalOK, NEW i \in DOMAIN disk, NEW j \in DOMAIN disk, i < j, disk[i] = Sharing!Torn
        PROVE  FALSE
    <3>1. disk \in Seq(Lines) /\ i = Len(disk)
      BY <2>1 DEF JournalOK, TornIsLast
    <3> QED
      BY <2>1, <3>1
  <2> QED
    BY <2>1 DEF SharingIInv, Sharing!TurnRecordsReadable
<1>6. Sharing!MigratedFirst
  <2>1. legacy => Len(disk) = 1
    BY MetadataFacts DEF SharingIInv, LegacyOK
  <2>2. Len(disk) = 1 => Len(disk) <= 1
    OBVIOUS
  <2> QED
    BY <2>1, <2>2 DEF Sharing!MigratedFirst
<1> QED
  BY <1>1, <1>2, <1>4, <1>5, <1>6 DEF TurnOwnsTheJournal

\* Steps of the other components leave the journal alone.
LEMMA OtherPartsRest ==
  ASSUME SharingIInv, UNCHANGED sharingVars
  PROVE  /\ SharingIInv'
         /\ UNCHANGED Sharing!vars
<1> USE DEF sharingVars, Sharing!vars, Sharing!bounds
<1>1. ControlOK' /\ LegacyOK'
  BY DEF SharingIInv, ControlOK, LegacyOK, Sharing!TypeOK
<1>2. JournalOK => JournalOK'
  <2> SUFFICES ASSUME JournalOK
               PROVE  JournalOK'
    OBVIOUS
  <2>1. \A q \in Sharers : ProcessOK(q)' /\ KnowledgeOK(q)'
    BY OthersKnow
  <2> QED
    BY <2>1 DEF JournalOK
<1> QED
  BY <1>1, <1>2 DEF SharingIInv

\* A turn runs under the session lock and on the whole journal, its records can
\* be read back, and a journal is migrated before anything is appended to it,
\* for any number of processes, appends and crashes (SessionRunGateService,
\* WireService).
THEOREM TurnsOwnTheJournal == PartSpec => []TurnOwnsTheJournal
<1>1. PartInit => SharingIInv
  BY SharingInitially DEF PartInit
<1>2. SharingIInv /\ [PartNext]_partVars => SharingIInv'
  BY SharingStep, OtherPartsRest DEF PartNext, partVars
<1> QED
  BY <1>1, <1>2, SharingIInvImplies, PTL DEF PartSpec

\* Repair and migration lose no record that could be read, although they write
\* what was read earlier and other processes may have appended since
\* (WireService, repair.ts).
THEOREM RewritesKeepTheRecords == PartSpec => RecordsKept
<1> DEFINE A == blind \/ late \/ \A i \in DOMAIN disk :
                  disk[i] # Sharing!Torn => \E j \in DOMAIN disk' : disk'[j] = disk[i]
<1>1. PartInit => SharingIInv
  BY SharingInitially DEF PartInit
<1>2. SharingIInv /\ [PartNext]_partVars => SharingIInv'
  BY SharingStep, OtherPartsRest DEF PartNext, partVars
<1>3. SharingIInv /\ [PartNext]_partVars => [A]_(Sharing!vars)
  BY SharingStep, OtherPartsRest DEF PartNext, partVars
<1>4. PartSpec => [][A]_(Sharing!vars)
  BY <1>1, <1>2, <1>3, PTL DEF PartSpec
<1> QED
  BY <1>4 DEF RecordsKept, Sharing!RecordsKept

----------------------------------------------------------------------------
(* The emitter.                                                            *)

\* What is known of who is subscribed.
ListenersOK ==
  /\ subscribed \subseteq Listeners /\ listeners \in Seq(subscribed)
  /\ \A i, j \in DOMAIN listeners : listeners[i] = listeners[j] => i = j
  /\ disposed => listeners = << >>

\* f was fired before g, in the order F of the calls.
Before(F, f, g) == \E m, n \in DOMAIN F : m < n /\ F[m] = f /\ F[n] = g
InOrder(F, d, e) ==
  d.event \in QueuedFires /\ e.event \in QueuedFires /\ d.event # e.event => Before(F, d.event, e.event)

\* The deliveries S that have started and those, Q, that are queued: none twice,
\* each of an event of F, and all in the order of the calls, over both.
DeliveriesOK(S, Q, F) ==
  /\ S \in Seq(Emitter!Deliveries) /\ Q \in Seq(Emitter!Deliveries)
  /\ \A i, j \in DOMAIN S : S[i] = S[j] => i = j
  /\ \A i, j \in DOMAIN Q : Q[i] = Q[j] => i = j
  /\ \A i \in DOMAIN S, j \in DOMAIN Q : S[i] # Q[j] /\ InOrder(F, S[i], Q[j])
  /\ \A i, j \in DOMAIN S : i < j => InOrder(F, S[i], S[j])
  /\ \A i, j \in DOMAIN Q : i < j => InOrder(F, Q[i], Q[j])
  /\ \A i \in DOMAIN Q : Q[i].event \in QueuedFires
  /\ \A i \in DOMAIN S : \E m \in DOMAIN F : F[m] = S[i].event
  /\ \A i \in DOMAIN Q : \E m \in DOMAIN F : F[m] = Q[i].event

\* A call waits for deliveries of its own kind.
CallsOK ==
  /\ fire \in [Emitter!Fires -> {"new", "queue", "concurrent", "returned"}]
  /\ fired \in Seq(Emitter!Fires) /\ \A m \in DOMAIN fired : fire[fired[m]] # "new"
  /\ busy \in [Emitter!Fires -> SUBSET Emitter!Deliveries] /\ DOMAIN heard = Emitter!Fires
  /\ \A f \in Emitter!Fires :
       /\ busy[f] # {} <=> fire[f] \in {"queue", "concurrent"}
       /\ fire[f] = "queue" => f \in QueuedFires
       /\ fire[f] = "concurrent" => f \in ConcurrentFires
       /\ \A d \in busy[f] : IF f \in QueuedFires THEN d.event \in QueuedFires ELSE d.event = f
  /\ \A f, g \in Emitter!Fires :
       f # g /\ fire[f] \in {"queue", "concurrent"} /\ fire[g] \in {"queue", "concurrent"} => f \in overlapped

Has(S, d) == \E i \in DOMAIN S : S[i] = d

\* Who was subscribed at the call is served, or in the queue.
HeardOK ==
  \A f \in Emitter!Fires :
    fire[f] # "new" /\ (f \notin aborted \/ f \in QueuedFires) =>
      \A l \in heard[f] : Has(started, Emitter!Delivery(f, l)) \/ Has(deliveryQueue, Emitter!Delivery(f, l))

\* Who has returned is not waited for.
ReturnedOK ==
  \A f \in Emitter!Fires :
    fire[f] = "returned" /\ f \notin aborted /\ (f \notin overlapped \/ f \notin QueuedFires) =>
      \A l \in heard[f] :
        /\ Has(started, Emitter!Delivery(f, l))
        /\ \A g \in Emitter!Fires : Emitter!Delivery(f, l) \notin busy[g]

EmitterIInv ==
  /\ ListenersOK /\ CallsOK /\ DeliveriesOK(started, deliveryQueue, fired) /\ HeardOK /\ ReturnedOK

LEMMA DeliveryFacts ==
  /\ \A f \in Emitter!Fires, l \in Listeners : Emitter!Delivery(f, l) \in Emitter!Deliveries
  /\ \A f, g, l, k : Emitter!Delivery(f, l) = Emitter!Delivery(g, k) <=> f = g /\ l = k
  /\ \A f, l : Emitter!Delivery(f, l).event = f
  /\ \A d \in Emitter!Deliveries : d.event \in Emitter!Fires
BY DEF Emitter!Delivery, Emitter!Deliveries

\* The first of the queue is started.
LEMMA ShiftDeliveries ==
  ASSUME NEW S, NEW Q, NEW F, DeliveriesOK(S, Q, F), Q # << >>
  PROVE  /\ DeliveriesOK(Append(S, Head(Q)), Tail(Q), F)
         /\ \A d : Has(S, d) => Has(Append(S, Head(Q)), d)
         /\ \A d : Has(Q, d) => Has(Tail(Q), d) \/ Has(Append(S, Head(Q)), d)
         /\ Head(Q) \in Emitter!Deliveries /\ Head(Q).event \in QueuedFires /\ ~Has(S, Head(Q))
<1> DEFINE A == Append(S, Head(Q))
           T == Tail(Q)
<1>1. S \in Seq(Emitter!Deliveries) /\ Q \in Seq(Emitter!Deliveries)
  BY DEF DeliveriesOK
<1>2. Len(S) \in Nat /\ Len(Q) \in Nat /\ Len(Q) >= 1 /\ DOMAIN S = 1 .. Len(S) /\ DOMAIN Q = 1 .. Len(Q)
  BY <1>1
<1>3. 1 \in DOMAIN Q /\ Head(Q) = Q[1] /\ Head(Q) \in Emitter!Deliveries
  BY <1>1, <1>2
<1>4. /\ A \in Seq(Emitter!Deliveries) /\ DOMAIN A = 1 .. Len(S) + 1 /\ A[Len(S) + 1] = Q[1]
      /\ \A i \in 1 .. Len(S) : A[i] = S[i]
  BY <1>1, <1>2, <1>3, AppendProperties
<1>5. T \in Seq(Emitter!Deliveries) /\ DOMAIN T = 1 .. Len(Q) - 1 /\ \A i \in 1 .. Len(Q) - 1 : T[i] = Q[i + 1]
  BY <1>1, <1>2, HeadTailProperties
<1> HIDE DEF A, T
<1>6. \A i \in DOMAIN A : (i \in DOMAIN S /\ A[i] = S[i]) \/ (i = Len(S) + 1 /\ A[i] = Q[1])
  BY <1>2, <1>4
<1>7. \A i \in DOMAIN T : i + 1 \in DOMAIN Q /\ i + 1 > 1 /\ T[i] = Q[i + 1] /\ i \in Nat
  BY <1>2, <1>5
<1>8. \A i, j \in DOMAIN A : A[i] = A[j] => i = j
  BY <1>3, <1>6 DEF DeliveriesOK
<1>9. \A i, j \in DOMAIN T : T[i] = T[j] => i = j
  <2> SUFFICES ASSUME NEW i \in DOMAIN T, NEW j \in DOMAIN T, T[i] = T[j]
               PROVE  i = j
    OBVIOUS
  <2>1. i + 1 = j + 1 /\ i \in Nat /\ j \in Nat
    BY <1>7 DEF DeliveriesOK
  <2> QED
    BY <2>1
<1>10. \A i \in DOMAIN A, j \in DOMAIN T : A[i] # T[j] /\ InOrder(F, A[i], T[j])
  <2> SUFFICES ASSUME NEW i \in DOMAIN A, NEW j \in DOMAIN T
               PROVE  A[i] # T[j] /\ InOrder(F, A[i], T[j])
    OBVIOUS
  <2>1. T[j] = Q[j + 1] /\ j + 1 \in DOMAIN Q /\ j + 1 > 1 /\ j + 1 # 1
    BY <1>7
  <2>2. CASE i \in DOMAIN S /\ A[i] = S[i]
    BY <2>1, <2>2 DEF DeliveriesOK
  <2>3. CASE A[i] = Q[1]
    BY <1>3, <2>1, <2>3 DEF DeliveriesOK
  <2> QED
    BY <1>6, <2>2, <2>3
<1>11. \A i, j \in DOMAIN A : i < j => InOrder(F, A[i], A[j])
  <2> SUFFICES ASSUME NEW i \in DOMAIN A, NEW j \in DOMAIN A, i < j
               PROVE  InOrder(F, A[i], A[j])
    OBVIOUS
  <2>1. i \in DOMAIN S /\ A[i] = S[i]
    BY <1>2, <1>4
  <2>2. CASE j \in DOMAIN S /\ A[j] = S[j]
    BY <2>1, <2>2 DEF DeliveriesOK
  <2>3. CASE A[j] = Q[1]
    BY <1>3, <2>1, <2>3 DEF DeliveriesOK
  <2> QED
    BY <1>6, <2>2, <2>3
<1>12. \A i, j \in DOMAIN T : i < j => InOrder(F, T[i], T[j])
  <2> SUFFICES ASSUME NEW i \in DOMAIN T, NEW j \in DOMAIN T, i < j
               PROVE  InOrder(F, T[i], T[j])
    OBVIOUS
  <2>1. i + 1 < j + 1
    BY <1>2, <1>5
  <2> QED
    BY <1>7, <2>1 DEF DeliveriesOK
<1>13. /\ \A i \in DOMAIN T : T[i].event \in QueuedFires
       /\ \A i \in DOMAIN T : \E m \in DOMAIN F : F[m] = T[i].event
  BY <1>7 DEF DeliveriesOK
<1>14. \A i \in DOMAIN A : \E m \in DOMAIN F : F[m] = A[i].event
  BY <1>3, <1>6 DEF DeliveriesOK
<1>15. DeliveriesOK(A, T, F)
  BY <1>4, <1>5, <1>8, <1>9, <1>10, <1>11, <1>12, <1>13, <1>14 DEF DeliveriesOK
<1>16. \A d : Has(S, d) => Has(A, d)
  BY <1>2, <1>4 DEF Has
<1>17. \A d : Has(Q, d) => Has(T, d) \/ Has(A, d)
  <2> SUFFICES ASSUME NEW i \in DOMAIN Q
               PROVE  Has(T, Q[i]) \/ Has(A, Q[i])
    BY DEF Has
  <2>1. CASE i = 1
    <3>1. Len(S) + 1 \in DOMAIN A
      BY <1>2, <1>4
    <3> QED
      BY <1>4, <2>1, <3>1 DEF Has
  <2>2. CASE i # 1
    <3>1. i - 1 \in 1 .. Len(Q) - 1 /\ (i - 1) + 1 = i
      BY <1>2, <2>2
    <3> QED
      BY <1>5, <3>1 DEF Has
  <2> QED
    BY <2>1, <2>2
<1>18. Head(Q).event \in QueuedFires /\ ~Has(S, Head(Q))
  BY <1>3 DEF DeliveriesOK, Has
<1> QED
  BY <1>3, <1>15, <1>16, <1>17, <1>18 DEF A, T

\* A call is made.
LEMMA CallDeliveries ==
  ASSUME NEW S, NEW Q, NEW F, NEW f \in Emitter!Fires, F \in Seq(Emitter!Fires), DeliveriesOK(S, Q, F)
  PROVE  /\ DeliveriesOK(S, Q, Append(F, f)) /\ Append(F, f) \in Seq(Emitter!Fires)
         /\ \A m \in DOMAIN Append(F, f) : Append(F, f)[m] = f \/ (m \in DOMAIN F /\ Append(F, f)[m] = F[m])
         /\ \A m \in DOMAIN F : Before(Append(F, f), F[m], f)
         /\ \E m \in DOMAIN Append(F, f) : Append(F, f)[m] = f
<1> DEFINE G == Append(F, f)
<1>1. Len(F) \in Nat /\ DOMAIN F = 1 .. Len(F)
  OBVIOUS
<1>2. /\ G \in Seq(Emitter!Fires) /\ DOMAIN G = 1 .. Len(F) + 1 /\ G[Len(F) + 1] = f
      /\ \A i \in 1 .. Len(F) : G[i] = F[i]
  BY <1>1, AppendProperties
<1> HIDE DEF G
<1>3. \A m \in DOMAIN F : m \in DOMAIN G /\ G[m] = F[m] /\ m < Len(F) + 1
  BY <1>1, <1>2
<1>4. Len(F) + 1 \in DOMAIN G
  BY <1>1, <1>2
<1>5. \A g, h : Before(F, g, h) => Before(G, g, h)
  BY <1>3 DEF Before
<1>6. \A d, e : InOrder(F, d, e) => InOrder(G, d, e)
  BY <1>5 DEF InOrder
<1>7. DeliveriesOK(S, Q, G)
  BY <1>3, <1>6 DEF DeliveriesOK
<1>8. \A m \in DOMAIN F : Before(G, F[m], f)
  BY <1>2, <1>3, <1>4 DEF Before
<1>9. \A m \in DOMAIN G : G[m] = f \/ (m \in DOMAIN F /\ G[m] = F[m])
  BY <1>1, <1>2
<1> QED
  BY <1>2, <1>4, <1>7, <1>8, <1>9 DEF G

\* The deliveries of a call, one per listener.
LEMMA OwnFacts ==
  ASSUME ListenersOK, NEW f \in Emitter!Fires
  PROVE  LET O == Emitter!OwnDeliveries(f) IN
         /\ O \in Seq(Emitter!Deliveries)
         /\ \A i, j \in DOMAIN O : O[i] = O[j] => i = j
         /\ \A i \in DOMAIN O : O[i].event = f
         /\ \A l \in Emitter!ToSet(listeners) : Has(O, Emitter!Delivery(f, l))
<1> DEFINE O == Emitter!OwnDeliveries(f)
<1>1. listeners \in Seq(Listeners) /\ DOMAIN listeners = 1 .. Len(listeners) /\ Len(listeners) \in Nat
  BY SeqMonotonic DEF ListenersOK
<1>2. DOMAIN O = DOMAIN listeners /\ \A i \in DOMAIN listeners : O[i] = Emitter!Delivery(f, listeners[i])
  BY DEF Emitter!OwnDeliveries
<1>3. \A i \in DOMAIN listeners : listeners[i] \in Listeners
  BY <1>1
<1>4. O = [i \in 1 .. Len(listeners) |-> Emitter!Delivery(f, listeners[i])]
  BY <1>1 DEF Emitter!OwnDeliveries
<1> HIDE DEF O
<1>5. \A i \in 1 .. Len(listeners) : Emitter!Delivery(f, listeners[i]) \in Emitter!Deliveries
  BY <1>1, <1>3, DeliveryFacts
<1>6. O \in Seq(Emitter!Deliveries)
  BY <1>1, <1>4, <1>5, SeqDef
<1>7. \A i, j \in DOMAIN O : O[i] = O[j] => i = j
  BY <1>2, DeliveryFacts DEF ListenersOK
<1>8. \A i \in DOMAIN O : O[i].event = f
  BY <1>2, DeliveryFacts
<1>9. \A l \in Emitter!ToSet(listeners) : Has(O, Emitter!Delivery(f, l))
  BY <1>2 DEF Emitter!ToSet, Has
<1> QED
  BY <1>6, <1>7, <1>8, <1>9 DEF O

\* The elements of a concatenation are those of its parts.
LEMMA ConcatFacts ==
  ASSUME NEW D, NEW P \in Seq(D), NEW O \in Seq(D), NEW C, C = P \o O
  PROVE  /\ C \in Seq(D) /\ DOMAIN C \subseteq Nat
         /\ \A i \in DOMAIN C : \/ i \in DOMAIN P /\ C[i] = P[i]
                                \/ i > Len(P) /\ i - Len(P) \in DOMAIN O /\ C[i] = O[i - Len(P)]
         /\ \A i \in DOMAIN P : i \in DOMAIN C /\ C[i] = P[i] /\ i <= Len(P)
         /\ \A i \in DOMAIN O : i + Len(P) \in DOMAIN C /\ C[i + Len(P)] = O[i]
<1>1. Len(P) \in Nat /\ Len(O) \in Nat /\ DOMAIN P = 1 .. Len(P) /\ DOMAIN O = 1 .. Len(O)
  OBVIOUS
<1>2. /\ C \in Seq(D) /\ Len(C) = Len(P) + Len(O) /\ DOMAIN C = 1 .. Len(C)
      /\ \A i \in 1 .. Len(C) : C[i] = IF i <= Len(P) THEN P[i] ELSE O[i - Len(P)]
  BY ConcatProperties
<1>3. \A i \in DOMAIN C : \/ i \in DOMAIN P /\ C[i] = P[i]
                          \/ i > Len(P) /\ i - Len(P) \in DOMAIN O /\ C[i] = O[i - Len(P)]
  BY <1>1, <1>2
<1>4. \A i \in DOMAIN P : i \in DOMAIN C /\ C[i] = P[i] /\ i <= Len(P)
  BY <1>1, <1>2
<1>5. \A i \in DOMAIN O : i + Len(P) \in DOMAIN C /\ C[i + Len(P)] = O[i]
  BY <1>1, <1>2
<1>6. DOMAIN C \subseteq Nat
  BY <1>1, <1>2
<1> QED
  BY ONLY <1>2, <1>3, <1>4, <1>5, <1>6

\* Deliveries O of a new call f go to the end of the queue, or are started.
LEMMA AddDeliveries ==
  ASSUME NEW f, NEW O \in Seq(Emitter!Deliveries), DeliveriesOK(started, deliveryQueue, fired'),
         \A i, j \in DOMAIN O : O[i] = O[j] => i = j,
         \A i \in DOMAIN O : O[i].event = f,
         \A i \in DOMAIN started : started[i].event # f /\ Before(fired', started[i].event, f),
         \A i \in DOMAIN deliveryQueue : deliveryQueue[i].event # f /\ Before(fired', deliveryQueue[i].event, f),
         \E m \in DOMAIN fired' : fired'[m] = f
  PROVE  /\ f \in QueuedFires => DeliveriesOK(started, deliveryQueue \o O, fired')
         /\ f \notin QueuedFires => DeliveriesOK(started \o O, deliveryQueue, fired')
         /\ \A d : Has(started, d) \/ Has(O, d) => Has(started \o O, d)
         /\ \A d : Has(deliveryQueue, d) \/ Has(O, d) => Has(deliveryQueue \o O, d)
<1>1. started \in Seq(Emitter!Deliveries) /\ deliveryQueue \in Seq(Emitter!Deliveries)
  BY DEF DeliveriesOK
<1>2. /\ Len(started) \in Nat /\ Len(deliveryQueue) \in Nat /\ Len(O) \in Nat
      /\ DOMAIN started = 1 .. Len(started) /\ DOMAIN deliveryQueue = 1 .. Len(deliveryQueue) /\ DOMAIN O = 1 .. Len(O)
  BY <1>1
<1>4. ASSUME NEW P \in Seq(Emitter!Deliveries), Len(P) \in Nat, DOMAIN P = 1 .. Len(P),
             \A i, j \in DOMAIN P : P[i] = P[j] => i = j,
             \A i, j \in DOMAIN P : i < j => InOrder(fired', P[i], P[j]),
             \A i \in DOMAIN P : P[i].event # f /\ Before(fired', P[i].event, f),
             \A i \in DOMAIN P : \E m \in DOMAIN fired' : fired'[m] = P[i].event
      PROVE  /\ \A i, j \in DOMAIN (P \o O) : (P \o O)[i] = (P \o O)[j] => i = j
             /\ \A i, j \in DOMAIN (P \o O) : i < j => InOrder(fired', (P \o O)[i], (P \o O)[j])
             /\ \A i \in DOMAIN (P \o O) : \E m \in DOMAIN fired' : fired'[m] = (P \o O)[i].event
             /\ \A d : Has(P, d) \/ Has(O, d) => Has(P \o O, d)
  <2> DEFINE C == P \o O
  <2>1. /\ \A i \in DOMAIN C : \/ i \in DOMAIN P /\ C[i] = P[i]
                               \/ i > Len(P) /\ i - Len(P) \in DOMAIN O /\ C[i] = O[i - Len(P)]
        /\ DOMAIN C \subseteq Nat
        /\ \A i \in DOMAIN P : i \in DOMAIN C /\ C[i] = P[i] /\ i <= Len(P)
        /\ \A i \in DOMAIN O : i + Len(P) \in DOMAIN C /\ C[i + Len(P)] = O[i]
    BY <1>4, ConcatFacts
  <2> HIDE DEF C
  <2>2. ASSUME NEW i \in DOMAIN C, NEW j \in DOMAIN C, C[i] = C[j]
        PROVE  i = j
    <3>1. CASE i \in DOMAIN P /\ C[i] = P[i] /\ j \in DOMAIN P /\ C[j] = P[j]
      BY <1>4, <2>2, <3>1
    <3>2. CASE i - Len(P) \in DOMAIN O /\ C[i] = O[i - Len(P)] /\ j - Len(P) \in DOMAIN O /\ C[j] = O[j - Len(P)]
      <4>1. i - Len(P) = j - Len(P) /\ i \in Nat /\ j \in Nat
        BY <2>1, <2>2, <3>2
      <4> QED
        BY <1>4, <4>1
    <3>3. CASE i \in DOMAIN P /\ C[i] = P[i] /\ j - Len(P) \in DOMAIN O /\ C[j] = O[j - Len(P)]
      BY <1>4, <2>2, <3>3
    <3>4. CASE j \in DOMAIN P /\ C[j] = P[j] /\ i - Len(P) \in DOMAIN O /\ C[i] = O[i - Len(P)]
      BY <1>4, <2>2, <3>4
    <3> QED
      BY <2>1, <3>1, <3>2, <3>3, <3>4
  <2>3. ASSUME NEW i \in DOMAIN C, NEW j \in DOMAIN C, i < j
        PROVE  InOrder(fired', C[i], C[j])
    <3>1. CASE j \in DOMAIN P /\ C[j] = P[j]
      <4>1. i \in Nat /\ j \in Nat /\ j <= Len(P)
        BY <2>1, <3>1
      <4>2. ~(i > Len(P))
        BY <1>4, <2>3, <4>1
      <4> QED
        BY <1>4, <2>1, <2>3, <3>1, <4>2
    <3>2. CASE j - Len(P) \in DOMAIN O /\ C[j] = O[j - Len(P)]
      <4>1. C[j].event = f
        BY <3>2
      <4>2. C[i].event = f \/ Before(fired', C[i].event, f)
        BY <1>4, <2>1
      <4> QED
        BY <4>1, <4>2 DEF InOrder
    <3> QED
      BY <2>1, <3>1, <3>2
  <2>4. \A i \in DOMAIN C : \E m \in DOMAIN fired' : fired'[m] = C[i].event
    BY <1>4, <2>1
  <2>5. \A d : Has(P, d) \/ Has(O, d) => Has(C, d)
    BY <2>1 DEF Has
  <2> QED
    BY <2>2, <2>3, <2>4, <2>5 DEF C
<1>5. /\ \A i, j \in DOMAIN (deliveryQueue \o O) : (deliveryQueue \o O)[i] = (deliveryQueue \o O)[j] => i = j
      /\ \A i, j \in DOMAIN (deliveryQueue \o O) : i < j => InOrder(fired', (deliveryQueue \o O)[i], (deliveryQueue \o O)[j])
      /\ \A i \in DOMAIN (deliveryQueue \o O) : \E m \in DOMAIN fired' : fired'[m] = (deliveryQueue \o O)[i].event
      /\ \A d : Has(deliveryQueue, d) \/ Has(O, d) => Has(deliveryQueue \o O, d)
  BY <1>1, <1>2, <1>4 DEF DeliveriesOK
<1>6. /\ \A i, j \in DOMAIN (started \o O) : (started \o O)[i] = (started \o O)[j] => i = j
      /\ \A i, j \in DOMAIN (started \o O) : i < j => InOrder(fired', (started \o O)[i], (started \o O)[j])
      /\ \A i \in DOMAIN (started \o O) : \E m \in DOMAIN fired' : fired'[m] = (started \o O)[i].event
      /\ \A d : Has(started, d) \/ Has(O, d) => Has(started \o O, d)
  BY <1>1, <1>2, <1>4 DEF DeliveriesOK
<1>7. ASSUME f \in QueuedFires
      PROVE  DeliveriesOK(started, deliveryQueue \o O, fired')
  <2> DEFINE C == deliveryQueue \o O
  <2>0. C = deliveryQueue \o O
    OBVIOUS
  <2> HIDE DEF C
  <2>1. C \in Seq(Emitter!Deliveries) /\ \A i \in DOMAIN C : \/ i \in DOMAIN deliveryQueue /\ C[i] = deliveryQueue[i]
                                                             \/ i > Len(deliveryQueue) /\ i - Len(deliveryQueue) \in DOMAIN O /\ C[i] = O[i - Len(deliveryQueue)]
    BY <1>1, <2>0, ConcatFacts
  <2>2. \A i \in DOMAIN started, j \in DOMAIN C : started[i] # C[j] /\ InOrder(fired', started[i], C[j])
    <3> SUFFICES ASSUME NEW i \in DOMAIN started, NEW j \in DOMAIN C
                 PROVE  started[i] # C[j] /\ InOrder(fired', started[i], C[j])
      OBVIOUS
    <3>1. CASE j \in DOMAIN deliveryQueue /\ C[j] = deliveryQueue[j]
      BY <3>1 DEF DeliveriesOK
    <3>2. CASE j - Len(deliveryQueue) \in DOMAIN O /\ C[j] = O[j - Len(deliveryQueue)]
      <4>1. C[j].event = f /\ started[i].event # f /\ Before(fired', started[i].event, f)
        BY <3>2
      <4> QED
        BY <4>1 DEF InOrder
    <3> QED
      BY <2>1, <3>1, <3>2
  <2>3. \A i \in DOMAIN C : C[i].event \in QueuedFires
    BY <1>7, <2>1 DEF DeliveriesOK
  <2> QED
    BY <1>1, <1>5, <2>1, <2>2, <2>3 DEF DeliveriesOK, C
<1>8. ASSUME f \notin QueuedFires
      PROVE  DeliveriesOK(started \o O, deliveryQueue, fired')
  <2> DEFINE C == started \o O
  <2>0. C = started \o O
    OBVIOUS
  <2> HIDE DEF C
  <2>1. C \in Seq(Emitter!Deliveries) /\ \A i \in DOMAIN C : \/ i \in DOMAIN started /\ C[i] = started[i]
                                                             \/ i > Len(started) /\ i - Len(started) \in DOMAIN O /\ C[i] = O[i - Len(started)]
    BY <1>1, <2>0, ConcatFacts
  <2>2. \A i \in DOMAIN C, j \in DOMAIN deliveryQueue : C[i] # deliveryQueue[j] /\ InOrder(fired', C[i], deliveryQueue[j])
    <3> SUFFICES ASSUME NEW i \in DOMAIN C, NEW j \in DOMAIN deliveryQueue
                 PROVE  C[i] # deliveryQueue[j] /\ InOrder(fired', C[i], deliveryQueue[j])
      OBVIOUS
    <3>1. CASE i \in DOMAIN started /\ C[i] = started[i]
      BY <3>1 DEF DeliveriesOK
    <3>2. CASE i - Len(started) \in DOMAIN O /\ C[i] = O[i - Len(started)]
      <4>1. C[i].event = f /\ deliveryQueue[j].event # f
        BY <3>2
      <4> QED
        BY <1>8, <4>1 DEF InOrder
    <3> QED
      BY <2>1, <3>1, <3>2
  <2> QED
    BY <1>1, <1>6, <2>1, <2>2 DEF DeliveriesOK, C
<1> QED
  BY <1>5, <1>6, <1>7, <1>8

\* Calls that are under way at the same time are known to overlap.
Overlaps(f) ==
  \A g \in Emitter!Fires \ {f} : fire[g] \in {"queue", "concurrent"} => f \in overlapped' /\ g \in overlapped'

LEMMA CallsSet ==
  ASSUME CallsOK, NEW f \in Emitter!Fires, NEW s \in {"queue", "concurrent", "returned"},
         NEW B \in SUBSET Emitter!Deliveries,
         fire' = [fire EXCEPT ![f] = s], busy' = [busy EXCEPT ![f] = B],
         B # {} <=> s \in {"queue", "concurrent"},
         s = "queue" => f \in QueuedFires, s = "concurrent" => f \in ConcurrentFires,
         \A d \in B : IF f \in QueuedFires THEN d.event \in QueuedFires ELSE d.event = f,
         fired' \in Seq(Emitter!Fires), DOMAIN heard' = Emitter!Fires, overlapped \subseteq overlapped',
         \A m \in DOMAIN fired' : fired'[m] = f \/ (m \in DOMAIN fired /\ fired'[m] = fired[m]),
         Overlaps(f)
  PROVE  CallsOK'
<1>1. /\ fire \in [Emitter!Fires -> {"new", "queue", "concurrent", "returned"}]
      /\ busy \in [Emitter!Fires -> SUBSET Emitter!Deliveries]
  BY DEF CallsOK
<1>2. fire' \in [Emitter!Fires -> {"new", "queue", "concurrent", "returned"}]
      /\ busy' \in [Emitter!Fires -> SUBSET Emitter!Deliveries]
  BY <1>1
<1>3. /\ fire'[f] = s /\ busy'[f] = B
      /\ \A g \in Emitter!Fires \ {f} : fire'[g] = fire[g] /\ busy'[g] = busy[g]
  BY <1>1
<1>4. \A m \in DOMAIN fired' : fire'[fired'[m]] # "new"
  <2> SUFFICES ASSUME NEW m \in DOMAIN fired'
               PROVE  fire'[fired'[m]] # "new"
    OBVIOUS
  <2>1. CASE fired'[m] = f
    BY <1>3, <2>1
  <2>2. CASE fired'[m] # f
    <3>1. fire[fired[m]] # "new" /\ fired'[m] = fired[m]
      BY <2>2 DEF CallsOK
    <3>2. fired'[m] \in Emitter!Fires
      OBVIOUS
    <3> QED
      BY <1>3, <2>2, <3>1, <3>2
  <2> QED
    BY <2>1, <2>2
<1>5. \A g \in Emitter!Fires :
        /\ busy'[g] # {} <=> fire'[g] \in {"queue", "concurrent"}
        /\ fire'[g] = "queue" => g \in QueuedFires
        /\ fire'[g] = "concurrent" => g \in ConcurrentFires
        /\ \A d \in busy'[g] : IF g \in QueuedFires THEN d.event \in QueuedFires ELSE d.event = g
  <2> SUFFICES ASSUME NEW g \in Emitter!Fires
               PROVE  /\ busy'[g] # {} <=> fire'[g] \in {"queue", "concurrent"}
                      /\ fire'[g] = "queue" => g \in QueuedFires
                      /\ fire'[g] = "concurrent" => g \in ConcurrentFires
                      /\ \A d \in busy'[g] : IF g \in QueuedFires THEN d.event \in QueuedFires ELSE d.event = g
    OBVIOUS
  <2>1. CASE g = f
    BY <1>3, <2>1
  <2>2. CASE g # f
    BY <1>3, <2>2 DEF CallsOK
  <2> QED
    BY <2>1, <2>2
<1>6. \A g, h \in Emitter!Fires :
        g # h /\ fire'[g] \in {"queue", "concurrent"} /\ fire'[h] \in {"queue", "concurrent"} => g \in overlapped'
  BY <1>3 DEF CallsOK, Overlaps
<1> QED
  BY <1>2, <1>4, <1>5, <1>6 DEF CallsOK

\* What a call does at first: it is new, and hears of the listeners there are.
LEMMA CalledEffect ==
  ASSUME ListenersOK, CallsOK, DeliveriesOK(started, deliveryQueue, fired), NEW f \in Emitter!Fires, Emitter!Called(f)
  PROVE  /\ fire[f] = "new" /\ busy[f] = {} /\ fired' \in Seq(Emitter!Fires) /\ DOMAIN heard' = Emitter!Fires
         /\ \A m \in DOMAIN fired' : fired'[m] = f \/ (m \in DOMAIN fired /\ fired'[m] = fired[m])
         /\ heard'[f] = Emitter!ToSet(listeners) /\ \A g \in Emitter!Fires \ {f} : heard'[g] = heard[g]
         /\ overlapped \subseteq overlapped' /\ Overlaps(f)
         /\ listeners' = listeners /\ subscribed' = subscribed /\ disposed' = disposed /\ aborted' = aborted
         /\ DeliveriesOK(started, deliveryQueue, fired')
         /\ \A i \in DOMAIN started : started[i].event # f /\ Before(fired', started[i].event, f)
         /\ \A i \in DOMAIN deliveryQueue : deliveryQueue[i].event # f /\ Before(fired', deliveryQueue[i].event, f)
         /\ \E m \in DOMAIN fired' : fired'[m] = f
<1>1. /\ fire[f] = "new" /\ fired' = Append(fired, f) /\ heard' = [heard EXCEPT ![f] = Emitter!ToSet(listeners)]
      /\ overlapped' = IF Emitter!UnderWay = {} THEN overlapped ELSE overlapped \cup Emitter!UnderWay \cup {f}
      /\ listeners' = listeners /\ subscribed' = subscribed /\ disposed' = disposed /\ aborted' = aborted
  BY DEF Emitter!Called
<1>2. fired \in Seq(Emitter!Fires) /\ DOMAIN heard = Emitter!Fires /\ busy[f] = {}
  BY <1>1 DEF CallsOK
<1>3. /\ DeliveriesOK(started, deliveryQueue, fired') /\ fired' \in Seq(Emitter!Fires)
      /\ \A m \in DOMAIN fired' : fired'[m] = f \/ (m \in DOMAIN fired /\ fired'[m] = fired[m])
      /\ \A m \in DOMAIN fired : Before(fired', fired[m], f)
      /\ \E m \in DOMAIN fired' : fired'[m] = f
  BY <1>1, <1>2, CallDeliveries
<1>4. \A m \in DOMAIN fired : fired[m] # f
  BY <1>1 DEF CallsOK
<1>5. \A i \in DOMAIN started : started[i].event # f /\ Before(fired', started[i].event, f)
  BY <1>3, <1>4 DEF DeliveriesOK
<1>6. \A i \in DOMAIN deliveryQueue : deliveryQueue[i].event # f /\ Before(fired', deliveryQueue[i].event, f)
  BY <1>3, <1>4 DEF DeliveriesOK
<1>7. overlapped \subseteq overlapped' /\ Overlaps(f)
  BY <1>1 DEF Emitter!UnderWay, Overlaps
<1>8. DOMAIN heard' = Emitter!Fires /\ heard'[f] = Emitter!ToSet(listeners) /\ \A g \in Emitter!Fires \ {f} : heard'[g] = heard[g]
  BY <1>1, <1>2
<1> QED
  BY <1>1, <1>2, <1>3, <1>5, <1>6, <1>7, <1>8

\* A round of the loop of fireAsync, on the queue q.
LEMMA LoopStep ==
  ASSUME CallsOK, HeardOK, ReturnedOK, NEW f \in QueuedFires, NEW q, Emitter!Loop(f, q),
         DeliveriesOK(started, q, fired'), fired' \in Seq(Emitter!Fires), DOMAIN heard' = Emitter!Fires,
         \A m \in DOMAIN fired' : fired'[m] = f \/ (m \in DOMAIN fired /\ fired'[m] = fired[m]),
         \A g \in Emitter!Fires \ {f} : heard'[g] = heard[g],
         \A l \in heard'[f] : Has(started, Emitter!Delivery(f, l)) \/ Has(q, Emitter!Delivery(f, l)),
         \A d : Has(deliveryQueue, d) => Has(q, d),
         aborted' = aborted, overlapped \subseteq overlapped', Overlaps(f)
  PROVE  CallsOK' /\ DeliveriesOK(started, deliveryQueue, fired)' /\ HeardOK' /\ ReturnedOK'
<1>0. f \in Emitter!Fires /\ f \notin ConcurrentFires
  BY FiresAssumption DEF Emitter!Fires
<1>1. DOMAIN fire = Emitter!Fires /\ DOMAIN busy = Emitter!Fires
  BY DEF CallsOK
<1>2. CASE q = << >> \/ f \in aborted
  <2>1. /\ deliveryQueue' = q /\ fire' = [fire EXCEPT ![f] = "returned"] /\ busy' = [busy EXCEPT ![f] = {}]
        /\ started' = started
    BY <1>2 DEF Emitter!Loop, Emitter!LoopEnds
  <2>2. CallsOK'
    <3>1. {} \in SUBSET Emitter!Deliveries /\ ("returned" \in {"queue", "concurrent"}) = FALSE
      OBVIOUS
    <3> QED
      BY <1>0, <2>1, <3>1, CallsSet
  <2>3. DeliveriesOK(started', deliveryQueue', fired')
    BY <2>1
  <2>4. HeardOK'
    <3> SUFFICES ASSUME NEW g \in Emitter!Fires, fire'[g] # "new", g \notin aborted \/ g \in QueuedFires,
                        NEW l \in heard'[g]
                 PROVE  Has(started, Emitter!Delivery(g, l)) \/ Has(q, Emitter!Delivery(g, l))
      BY <2>1 DEF HeardOK
    <3>1. CASE g = f
      BY <3>1
    <3>2. CASE g # f
      BY <1>1, <2>1, <3>2 DEF HeardOK
    <3> QED
      BY <3>1, <3>2
  <2>5. ReturnedOK'
    <3> SUFFICES ASSUME NEW g \in Emitter!Fires, fire'[g] = "returned", g \notin aborted,
                        g \notin overlapped' \/ g \notin QueuedFires, NEW l \in heard'[g]
                 PROVE  /\ Has(started, Emitter!Delivery(g, l))
                        /\ \A h \in Emitter!Fires : Emitter!Delivery(g, l) \notin busy'[h]
      BY <2>1 DEF ReturnedOK
    <3>1. CASE g = f
      <4>1. q = << >> /\ Has(started, Emitter!Delivery(g, l))
        BY <1>2, <3>1 DEF Has
      <4>2. \A h \in Emitter!Fires \ {f} : busy[h] = {}
        BY <3>1 DEF Overlaps, CallsOK
      <4>3. \A h \in Emitter!Fires : busy'[h] = {}
        BY <1>1, <2>1, <4>2
      <4> QED
        BY <4>1, <4>3
    <3>2. CASE g # f
      <4>1. fire[g] = "returned" /\ (g \notin overlapped \/ g \notin QueuedFires) /\ l \in heard[g]
        BY <1>1, <2>1, <3>2
      <4>2. \A h \in Emitter!Fires : busy'[h] \subseteq busy[h]
        BY <1>1, <2>1
      <4> QED
        BY <4>1, <4>2 DEF ReturnedOK
    <3> QED
      BY <3>1, <3>2
  <2> QED
    BY <2>2, <2>3, <2>4, <2>5
<1>3. CASE ~(q = << >> \/ f \in aborted)
  <2>1. /\ deliveryQueue' = Tail(q) /\ fire' = [fire EXCEPT ![f] = "queue"] /\ busy' = [busy EXCEPT ![f] = {Head(q)}]
        /\ started' = Append(started, Head(q))
    BY <1>3 DEF Emitter!Loop, Emitter!LoopEnds
  <2>2. /\ DeliveriesOK(started', deliveryQueue', fired')
        /\ \A d : Has(started, d) => Has(started', d)
        /\ \A d : Has(q, d) => Has(deliveryQueue', d) \/ Has(started', d)
        /\ Head(q) \in Emitter!Deliveries /\ Head(q).event \in QueuedFires /\ ~Has(started, Head(q))
    BY <1>3, <2>1, ShiftDeliveries
  <2>3. CallsOK'
    <3> DEFINE B == {Head(q)}
    <3>1. B \in SUBSET Emitter!Deliveries /\ B # {} /\ \A d \in B : d.event \in QueuedFires
      BY <2>2
    <3>2. busy' = [busy EXCEPT ![f] = B]
      BY <2>1
    <3> HIDE DEF B
    <3> QED
      BY <1>0, <2>1, <3>1, <3>2, CallsSet
  <2>4. HeardOK'
    <3> SUFFICES ASSUME NEW g \in Emitter!Fires, fire'[g] # "new", g \notin aborted \/ g \in QueuedFires,
                        NEW l \in heard'[g]
                 PROVE  Has(started', Emitter!Delivery(g, l)) \/ Has(deliveryQueue', Emitter!Delivery(g, l))
      BY DEF HeardOK
    <3>1. CASE g = f
      BY <2>2, <3>1
    <3>2. CASE g # f
      <4>1. Has(started, Emitter!Delivery(g, l)) \/ Has(deliveryQueue, Emitter!Delivery(g, l))
        BY <1>1, <2>1, <3>2 DEF HeardOK
      <4> QED
        BY <2>2, <4>1
    <3> QED
      BY <3>1, <3>2
  <2>5. ReturnedOK'
    <3> SUFFICES ASSUME NEW g \in Emitter!Fires, fire'[g] = "returned", g \notin aborted,
                        g \notin overlapped' \/ g \notin QueuedFires, NEW l \in heard'[g]
                 PROVE  /\ Has(started', Emitter!Delivery(g, l))
                        /\ \A h \in Emitter!Fires : Emitter!Delivery(g, l) \notin busy'[h]
      BY DEF ReturnedOK
    <3>1. g # f /\ fire[g] = "returned" /\ (g \notin overlapped \/ g \notin QueuedFires) /\ l \in heard[g]
      BY <1>1, <2>1
    <3>2. Has(started, Emitter!Delivery(g, l)) /\ \A h \in Emitter!Fires : Emitter!Delivery(g, l) \notin busy[h]
      BY <3>1 DEF ReturnedOK
    <3>3. Emitter!Delivery(g, l) # Head(q)
      BY <2>2, <3>2
    <3>4. \A h \in Emitter!Fires : busy'[h] = busy[h] \/ busy'[h] = {Head(q)}
      BY <1>1, <2>1
    <3> QED
      BY <2>2, <3>2, <3>3, <3>4
  <2> QED
    BY <2>2, <2>3, <2>4, <2>5
<1> QED
  BY <1>2, <1>3

\* Listeners come and go, a signal is aborted: the deliveries stay as they are.
LEMMA ListenerSteps ==
  ASSUME EmitterIInv,
         \/ \E l \in Listeners : Emitter!Subscribe(l) \/ Emitter!Unsubscribe(l)
         \/ Emitter!Dispose
         \/ \E f \in Emitter!Fires : Emitter!Abort(f)
  PROVE  EmitterIInv'
<1> USE DEF Emitter!callVars, Emitter!historyVars
<1>1. /\ deliveryQueue' = deliveryQueue /\ fire' = fire /\ busy' = busy /\ fired' = fired /\ heard' = heard
      /\ started' = started /\ overlapped' = overlapped /\ aborted \subseteq aborted'
  BY DEF Emitter!Subscribe, Emitter!Unsubscribe, Emitter!Dispose, Emitter!Abort
<1>2. CallsOK' /\ DeliveriesOK(started, deliveryQueue, fired)' /\ HeardOK' /\ ReturnedOK'
  BY <1>1 DEF EmitterIInv, CallsOK, DeliveriesOK, HeardOK, ReturnedOK
<1>3. ListenersOK'
  <2>1. ASSUME NEW l \in Listeners, Emitter!Subscribe(l)
        PROVE  ListenersOK'
    <3>1. /\ l \notin subscribed /\ listeners' = Append(listeners, l) /\ subscribed' = subscribed \cup {l}
          /\ disposed' = disposed /\ ~disposed
      BY <2>1 DEF Emitter!Subscribe
    <3>2. subscribed \subseteq Listeners /\ listeners \in Seq(subscribed) /\ Len(listeners) \in Nat
          /\ DOMAIN listeners = 1 .. Len(listeners)
      BY DEF EmitterIInv, ListenersOK
    <3>3. listeners \in Seq(subscribed') /\ l \in subscribed'
      BY <3>1, <3>2, SeqMonotonic
    <3>4. /\ listeners' \in Seq(subscribed') /\ DOMAIN listeners' = 1 .. Len(listeners) + 1
          /\ listeners'[Len(listeners) + 1] = l
          /\ \A i \in 1 .. Len(listeners) : listeners'[i] = listeners[i]
      BY <3>1, <3>2, <3>3, AppendProperties
    <3>5. \A i \in DOMAIN listeners' :
            \/ i \in DOMAIN listeners /\ listeners'[i] = listeners[i] /\ listeners'[i] # l
            \/ i = Len(listeners) + 1 /\ listeners'[i] = l
      BY <3>1, <3>2, <3>4
    <3>6. \A i, j \in DOMAIN listeners' : listeners'[i] = listeners'[j] => i = j
      BY <3>5 DEF EmitterIInv, ListenersOK
    <3> QED
      BY <3>1, <3>2, <3>4, <3>6 DEF ListenersOK
  <2>2. ASSUME NEW l \in Listeners, Emitter!Unsubscribe(l)
        PROVE  ListenersOK'
    <3>1. PICK k \in DOMAIN listeners : listeners' = Emitter!RemoveAt(listeners, k)
      BY <2>2 DEF Emitter!Unsubscribe
    <3>2. subscribed' = subscribed /\ disposed' = disposed
      BY <2>2 DEF Emitter!Unsubscribe
    <3>3. listeners \in Seq(subscribed) /\ Len(listeners) \in Nat /\ DOMAIN listeners = 1 .. Len(listeners)
      BY DEF EmitterIInv, ListenersOK
    <3> DEFINE A == SubSeq(listeners, 1, k - 1)
               B == SubSeq(listeners, k + 1, Len(listeners))
    <3>4. /\ A \in Seq(subscribed) /\ DOMAIN A = 1 .. k - 1 /\ Len(A) = k - 1
          /\ \A i \in 1 .. k - 1 : A[i] = listeners[i]
      BY <3>3, SubSeqProperties
    <3>5. /\ B \in Seq(subscribed) /\ DOMAIN B = 1 .. Len(listeners) - k
          /\ \A i \in 1 .. Len(listeners) - k : B[i] = listeners[i + k]
      BY <3>3, SubSeqProperties
    <3>6. listeners' = A \o B
      BY <3>1 DEF Emitter!RemoveAt
    <3> HIDE DEF A, B
    <3>7. /\ listeners' \in Seq(subscribed) /\ DOMAIN listeners' \subseteq Nat
          /\ \A i \in DOMAIN listeners' : \/ i \in DOMAIN A /\ listeners'[i] = A[i]
                                          \/ i > Len(A) /\ i - Len(A) \in DOMAIN B /\ listeners'[i] = B[i - Len(A)]
      BY <3>4, <3>5, <3>6, ConcatFacts
    <3>8. \A i \in DOMAIN listeners' : i \in Nat /\
            \/ i < k /\ i \in DOMAIN listeners /\ listeners'[i] = listeners[i]
            \/ i >= k /\ i + 1 \in DOMAIN listeners /\ listeners'[i] = listeners[i + 1]
      <4> SUFFICES ASSUME NEW i \in DOMAIN listeners'
                   PROVE  i \in Nat /\ (\/ i < k /\ i \in DOMAIN listeners /\ listeners'[i] = listeners[i]
                                        \/ i >= k /\ i + 1 \in DOMAIN listeners /\ listeners'[i] = listeners[i + 1])
        OBVIOUS
      <4>1. k \in Nat /\ k >= 1 /\ k <= Len(listeners) /\ i \in Nat
        BY <3>3, <3>7
      <4>2. CASE i \in DOMAIN A /\ listeners'[i] = A[i]
        BY <3>3, <3>4, <4>1, <4>2
      <4>3. CASE i > Len(A) /\ i - Len(A) \in DOMAIN B /\ listeners'[i] = B[i - Len(A)]
        <5>1. i - (k - 1) \in 1 .. Len(listeners) - k /\ i > k - 1
          BY <3>4, <3>5, <4>3
        <5>2. (i - (k - 1)) + k = i + 1 /\ i >= k /\ i + 1 \in 1 .. Len(listeners)
          BY <3>3, <4>1, <5>1
        <5>3. B[i - (k - 1)] = listeners[(i - (k - 1)) + k]
          BY <3>5, <5>1
        <5> QED
          BY <3>3, <3>4, <4>1, <4>3, <5>2, <5>3
      <4> QED
        BY <3>7, <4>2, <4>3
    <3>9. ASSUME NEW i \in DOMAIN listeners', NEW j \in DOMAIN listeners', listeners'[i] = listeners'[j]
          PROVE  i = j
      <4>1. k \in Nat /\ i \in Nat /\ j \in Nat
        BY <3>3, <3>8
      <4>2. \A m, n \in DOMAIN listeners : listeners[m] = listeners[n] => m = n
        BY DEF EmitterIInv, ListenersOK
      <4>3. CASE i < k /\ i \in DOMAIN listeners /\ listeners'[i] = listeners[i]
        <5>1. CASE j < k /\ j \in DOMAIN listeners /\ listeners'[j] = listeners[j]
          BY <3>9, <4>2, <4>3, <5>1
        <5>2. CASE j >= k /\ j + 1 \in DOMAIN listeners /\ listeners'[j] = listeners[j + 1]
          <6>1. i = j + 1
            BY <3>9, <4>2, <4>3, <5>2
          <6> QED
            BY ONLY <4>1, <4>3, <5>2, <6>1
        <5> QED
          BY <3>8, <5>1, <5>2
      <4>4. CASE i >= k /\ i + 1 \in DOMAIN listeners /\ listeners'[i] = listeners[i + 1]
        <5>1. CASE j < k /\ j \in DOMAIN listeners /\ listeners'[j] = listeners[j]
          <6>1. j = i + 1
            BY <3>9, <4>2, <4>4, <5>1
          <6> QED
            BY ONLY <4>1, <4>4, <5>1, <6>1
        <5>2. CASE j >= k /\ j + 1 \in DOMAIN listeners /\ listeners'[j] = listeners[j + 1]
          <6>1. i + 1 = j + 1
            BY <3>9, <4>2, <4>4, <5>2
          <6> QED
            BY ONLY <4>1, <6>1
        <5> QED
          BY <3>8, <5>1, <5>2
      <4> QED
        BY <3>8, <4>3, <4>4
    <3>10. disposed => FALSE
      BY <3>3 DEF EmitterIInv, ListenersOK
    <3> QED
      BY <3>2, <3>7, <3>9, <3>10 DEF EmitterIInv, ListenersOK
  <2>3. CASE Emitter!Dispose
    <3>1. listeners' = << >> /\ subscribed' = subscribed
      BY <2>3 DEF Emitter!Dispose
    <3>2. << >> \in Seq(subscribed) /\ DOMAIN << >> = {}
      OBVIOUS
    <3> QED
      BY <3>1, <3>2 DEF EmitterIInv, ListenersOK
  <2>4. CASE \E f \in Emitter!Fires : Emitter!Abort(f)
    BY <2>4 DEF EmitterIInv, ListenersOK, Emitter!Abort
  <2> QED
    BY <2>1, <2>2, <2>3, <2>4
<1> QED
  BY <1>2, <1>3 DEF EmitterIInv

\* fireAsync: the call, and each of its deliveries.
LEMMA QueuedSteps ==
  ASSUME EmitterIInv,
         (\E f \in QueuedFires : Emitter!FireAsync(f)) \/ (\E f \in Emitter!Fires : Emitter!Delivered(f))
  PROVE  EmitterIInv'
<1>0. ListenersOK /\ CallsOK /\ DeliveriesOK(started, deliveryQueue, fired) /\ HeardOK /\ ReturnedOK
  BY DEF EmitterIInv
<1>1. ASSUME NEW f \in QueuedFires, Emitter!FireAsync(f)
      PROVE  EmitterIInv'
  <2>0. f \in Emitter!Fires /\ Emitter!Called(f)
    BY <1>1 DEF Emitter!Fires, Emitter!FireAsync
  <2>1. ListenersOK'
    BY <1>0, <2>0, CalledEffect DEF ListenersOK
  <2>2. CASE disposed
    <3>1. fire' = [fire EXCEPT ![f] = "returned"] /\ deliveryQueue' = deliveryQueue /\ busy' = busy /\ started' = started
      BY <1>1, <2>2 DEF Emitter!FireAsync
    <3>2. heard'[f] = {}
      <4>1. listeners = << >> /\ heard'[f] = Emitter!ToSet(listeners)
        BY <1>0, <2>0, <2>2, CalledEffect DEF ListenersOK
      <4> QED
        BY <4>1 DEF Emitter!ToSet
    <3>3. CallsOK'
      <4> DEFINE B == {}
      <4>1. B \in SUBSET Emitter!Deliveries /\ B = {} /\ ("returned" \in {"queue", "concurrent"}) = FALSE
        OBVIOUS
      <4>2. busy' = [busy EXCEPT ![f] = B]
        BY <1>0, <2>0, <3>1, CalledEffect DEF CallsOK
      <4>3. \A d \in B : d.event = f
        OBVIOUS
      <4> HIDE DEF B
      <4> QED
        BY <1>0, <2>0, <3>1, <4>1, <4>2, <4>3, CalledEffect, CallsSet
    <3>4. DeliveriesOK(started', deliveryQueue', fired')
      BY <1>0, <2>0, <3>1, CalledEffect
    <3>5. \A g \in Emitter!Fires \ {f} : fire'[g] = fire[g] /\ heard'[g] = heard[g]
      BY <1>0, <2>0, <3>1, CalledEffect DEF CallsOK
    <3>6. aborted' = aborted /\ overlapped \subseteq overlapped'
      BY <1>0, <2>0, CalledEffect
    <3>7. HeardOK'
      BY <1>0, <3>1, <3>2, <3>5, <3>6 DEF HeardOK
    <3>8. ReturnedOK'
      BY <1>0, <3>1, <3>2, <3>5, <3>6 DEF ReturnedOK
    <3> QED
      BY <2>1, <3>3, <3>4, <3>7, <3>8 DEF EmitterIInv
  <2>3. CASE ~disposed
    <3> DEFINE O == Emitter!OwnDeliveries(f)
               q == deliveryQueue \o O
    <3>1. Emitter!Loop(f, q)
      BY <1>1, <2>3 DEF Emitter!FireAsync
    <3>2. /\ O \in Seq(Emitter!Deliveries) /\ \A i, j \in DOMAIN O : O[i] = O[j] => i = j
          /\ \A i \in DOMAIN O : O[i].event = f
          /\ \A l \in Emitter!ToSet(listeners) : Has(O, Emitter!Delivery(f, l))
      BY <1>0, <2>0, OwnFacts
    <3> HIDE DEF O
    <3>3. /\ DeliveriesOK(started, q, fired')
          /\ \A d : Has(deliveryQueue, d) \/ Has(O, d) => Has(q, d)
      <4>1. /\ DeliveriesOK(started, deliveryQueue, fired')
            /\ \A i \in DOMAIN started : started[i].event # f /\ Before(fired', started[i].event, f)
            /\ \A i \in DOMAIN deliveryQueue : deliveryQueue[i].event # f /\ Before(fired', deliveryQueue[i].event, f)
            /\ \E m \in DOMAIN fired' : fired'[m] = f
        BY <1>0, <2>0, CalledEffect
      <4> QED
        BY <3>2, <4>1, AddDeliveries
    <3> HIDE DEF q
    <3>4. \A l \in heard'[f] : Has(started, Emitter!Delivery(f, l)) \/ Has(q, Emitter!Delivery(f, l))
      BY <1>0, <2>0, <3>2, <3>3, CalledEffect
    <3>5. CallsOK' /\ DeliveriesOK(started, deliveryQueue, fired)' /\ HeardOK' /\ ReturnedOK'
      BY <1>0, <2>0, <3>1, <3>3, <3>4, CalledEffect, LoopStep
    <3> QED
      BY <2>1, <3>5 DEF EmitterIInv
  <2> QED
    BY <2>2, <2>3
<1>2. ASSUME NEW f \in Emitter!Fires, Emitter!Delivered(f)
      PROVE  EmitterIInv'
  <2>1. /\ fire[f] = "queue" /\ Emitter!Loop(f, deliveryQueue)
        /\ listeners' = listeners /\ subscribed' = subscribed /\ disposed' = disposed /\ aborted' = aborted
        /\ fired' = fired /\ heard' = heard /\ overlapped' = overlapped
    BY <1>2 DEF Emitter!Delivered
  <2>2. f \in QueuedFires /\ fired \in Seq(Emitter!Fires) /\ DOMAIN heard = Emitter!Fires
    BY <1>0, <2>1 DEF CallsOK
  <2>3. Overlaps(f)
    BY <1>0, <2>1 DEF Overlaps, CallsOK
  <2>4. \A l \in heard[f] : Has(started, Emitter!Delivery(f, l)) \/ Has(deliveryQueue, Emitter!Delivery(f, l))
    BY <1>0, <2>1, <2>2 DEF HeardOK
  <2>5. CallsOK' /\ DeliveriesOK(started, deliveryQueue, fired)' /\ HeardOK' /\ ReturnedOK'
    BY <1>0, <2>1, <2>2, <2>3, <2>4, LoopStep
  <2>6. ListenersOK'
    BY <1>0, <2>1 DEF ListenersOK
  <2> QED
    BY <2>5, <2>6 DEF EmitterIInv
<1> QED
  BY <1>1, <1>2

\* fireAsyncConcurrent: all deliveries at once, and the end of each.
LEMMA ConcurrentSteps ==
  ASSUME EmitterIInv,
         \/ \E f \in ConcurrentFires : Emitter!FireAsyncConcurrent(f)
         \/ \E f \in Emitter!Fires : \E d \in busy[f] : Emitter!DeliveredConcurrently(f, d)
  PROVE  EmitterIInv'
<1>0. ListenersOK /\ CallsOK /\ DeliveriesOK(started, deliveryQueue, fired) /\ HeardOK /\ ReturnedOK
  BY DEF EmitterIInv
<1>1. ASSUME NEW f \in ConcurrentFires, Emitter!FireAsyncConcurrent(f)
      PROVE  EmitterIInv'
  <2>0. f \in Emitter!Fires /\ f \notin QueuedFires /\ Emitter!Called(f) /\ deliveryQueue' = deliveryQueue
    BY <1>1, FiresAssumption DEF Emitter!Fires, Emitter!FireAsyncConcurrent
  <2>1. ListenersOK'
    BY <1>0, <2>0, CalledEffect DEF ListenersOK
  <2>2. aborted' = aborted /\ overlapped \subseteq overlapped' /\ \A g \in Emitter!Fires \ {f} : heard'[g] = heard[g]
    BY <1>0, <2>0, CalledEffect
  <2>3. CASE disposed \/ f \in aborted \/ listeners = << >>
    <3>1. fire' = [fire EXCEPT ![f] = "returned"] /\ busy' = busy /\ started' = started
      BY <1>1, <2>3 DEF Emitter!FireAsyncConcurrent
    <3>2. f \in aborted \/ heard'[f] = {}
      <4>1. (f \in aborted \/ listeners = << >>) /\ heard'[f] = Emitter!ToSet(listeners)
        BY <1>0, <2>0, <2>3, CalledEffect DEF ListenersOK
      <4> QED
        BY <4>1 DEF Emitter!ToSet
    <3>3. CallsOK'
      <4> DEFINE B == {}
      <4>1. B \in SUBSET Emitter!Deliveries /\ B = {} /\ ("returned" \in {"queue", "concurrent"}) = FALSE
        OBVIOUS
      <4>2. busy' = [busy EXCEPT ![f] = B]
        BY <1>0, <2>0, <3>1, CalledEffect DEF CallsOK
      <4>3. \A d \in B : d.event = f
        OBVIOUS
      <4> HIDE DEF B
      <4> QED
        BY <1>0, <2>0, <3>1, <4>1, <4>2, <4>3, CalledEffect, CallsSet
    <3>4. DeliveriesOK(started', deliveryQueue', fired')
      BY <1>0, <2>0, <3>1, CalledEffect
    <3>5. \A g \in Emitter!Fires \ {f} : fire'[g] = fire[g]
      BY <3>1
    <3>6. HeardOK'
      BY <1>0, <2>0, <2>2, <3>1, <3>2, <3>5 DEF HeardOK
    <3>7. ReturnedOK'
      BY <1>0, <2>0, <2>2, <3>1, <3>2, <3>5 DEF ReturnedOK
    <3> QED
      BY <2>1, <3>3, <3>4, <3>6, <3>7 DEF EmitterIInv
  <2>4. CASE ~(disposed \/ f \in aborted \/ listeners = << >>)
    <3> DEFINE O == Emitter!OwnDeliveries(f)
               B == Emitter!ToSet(O)
    <3>1. fire' = [fire EXCEPT ![f] = "concurrent"] /\ busy' = [busy EXCEPT ![f] = B] /\ started' = started \o O
      BY <1>1, <2>4 DEF Emitter!FireAsyncConcurrent
    <3>2. /\ O \in Seq(Emitter!Deliveries) /\ \A i, j \in DOMAIN O : O[i] = O[j] => i = j
          /\ \A i \in DOMAIN O : O[i].event = f
          /\ \A l \in Emitter!ToSet(listeners) : Has(O, Emitter!Delivery(f, l))
      BY <1>0, <2>0, OwnFacts
    <3>3. O # << >>
      <4>1. listeners # << >> /\ listeners \in Seq(subscribed)
        BY <1>0, <2>4 DEF ListenersOK
      <4>2. DOMAIN O = DOMAIN listeners /\ 1 \in DOMAIN listeners
        BY <4>1 DEF Emitter!OwnDeliveries
      <4> HIDE DEF O
      <4> QED
        BY <4>2
    <3> HIDE DEF O
    <3>4. B \in SUBSET Emitter!Deliveries /\ B # {} /\ \A d \in B : d.event = f
      <4>1. 1 \in DOMAIN O /\ \A i \in DOMAIN O : O[i] \in Emitter!Deliveries
        BY <3>2, <3>3
      <4> QED
        BY <3>2, <4>1 DEF Emitter!ToSet
    <3> HIDE DEF B
    <3>5. /\ DeliveriesOK(started', deliveryQueue', fired')
          /\ \A d : Has(started, d) \/ Has(O, d) => Has(started', d)
      <4>1. /\ DeliveriesOK(started, deliveryQueue, fired')
            /\ \A i \in DOMAIN started : started[i].event # f /\ Before(fired', started[i].event, f)
            /\ \A i \in DOMAIN deliveryQueue : deliveryQueue[i].event # f /\ Before(fired', deliveryQueue[i].event, f)
            /\ \E m \in DOMAIN fired' : fired'[m] = f
        BY <1>0, <2>0, CalledEffect
      <4> QED
        BY <2>0, <3>1, <3>2, <4>1, AddDeliveries
    <3>6. CallsOK'
      <4> DEFINE s == "concurrent"
      <4>1. s \in {"queue", "concurrent", "returned"} /\ s \in {"queue", "concurrent"} /\ s = "concurrent" /\ s # "queue"
        OBVIOUS
      <4>2. fire' = [fire EXCEPT ![f] = s]
        BY <3>1
      <4> HIDE DEF s
      <4>3. \A d \in B : IF f \in QueuedFires THEN d.event \in QueuedFires ELSE d.event = f
        BY <2>0, <3>4
      <4> QED
        <5>1. /\ fired' \in Seq(Emitter!Fires) /\ DOMAIN heard' = Emitter!Fires /\ overlapped \subseteq overlapped'
              /\ \A m \in DOMAIN fired' : fired'[m] = f \/ (m \in DOMAIN fired /\ fired'[m] = fired[m])
              /\ Overlaps(f)
          BY <1>0, <2>0, CalledEffect
        <5>2. B # {} <=> s \in {"queue", "concurrent"}
          BY <3>4, <4>1
        <5>3. B \in SUBSET Emitter!Deliveries /\ f \in Emitter!Fires /\ busy' = [busy EXCEPT ![f] = B]
          BY <2>0, <3>1, <3>4
        <5> QED
          BY <1>0, <4>1, <4>2, <4>3, <5>1, <5>2, <5>3, CallsSet
    <3>7. \A g \in Emitter!Fires \ {f} : fire'[g] = fire[g] /\ busy'[g] = busy[g]
      BY <3>1
    <3>8. fire[f] = "new" /\ DOMAIN fire = Emitter!Fires /\ DOMAIN busy = Emitter!Fires /\ busy'[f] = B /\ fire'[f] = "concurrent"
      BY <1>0, <2>0, <3>1, CalledEffect DEF CallsOK
    <3>9. HeardOK'
      <4> SUFFICES ASSUME NEW g \in Emitter!Fires, fire'[g] # "new", g \notin aborted \/ g \in QueuedFires,
                          NEW l \in heard'[g]
                   PROVE  Has(started', Emitter!Delivery(g, l)) \/ Has(deliveryQueue', Emitter!Delivery(g, l))
        BY <2>2 DEF HeardOK
      <4>1. CASE g = f
        BY <1>0, <2>0, <3>2, <3>5, <4>1, CalledEffect
      <4>2. CASE g # f
        <5>1. Has(started, Emitter!Delivery(g, l)) \/ Has(deliveryQueue, Emitter!Delivery(g, l))
          BY <1>0, <2>2, <3>7, <4>2 DEF HeardOK
        <5> QED
          BY <2>0, <3>5, <5>1
      <4> QED
        BY <4>1, <4>2
    <3>10. ReturnedOK'
      <4> SUFFICES ASSUME NEW g \in Emitter!Fires, fire'[g] = "returned", g \notin aborted,
                          g \notin overlapped' \/ g \notin QueuedFires, NEW l \in heard'[g]
                   PROVE  /\ Has(started', Emitter!Delivery(g, l))
                          /\ \A h \in Emitter!Fires : Emitter!Delivery(g, l) \notin busy'[h]
        BY <2>2 DEF ReturnedOK
      <4>1. g # f /\ fire[g] = "returned" /\ (g \notin overlapped \/ g \notin QueuedFires) /\ l \in heard[g]
        BY <2>2, <3>7, <3>8
      <4>2. Has(started, Emitter!Delivery(g, l)) /\ \A h \in Emitter!Fires : Emitter!Delivery(g, l) \notin busy[h]
        BY <1>0, <4>1 DEF ReturnedOK
      <4>3. Emitter!Delivery(g, l) \notin B
        BY <3>4, <4>1, DeliveryFacts
      <4> QED
        BY <3>5, <3>7, <3>8, <4>2, <4>3
    <3> QED
      BY <2>1, <3>5, <3>6, <3>9, <3>10 DEF EmitterIInv
  <2> QED
    BY <2>3, <2>4
<1>2. ASSUME NEW f \in Emitter!Fires, NEW d \in busy[f], Emitter!DeliveredConcurrently(f, d)
      PROVE  EmitterIInv'
  <2>1. /\ fire[f] = "concurrent" /\ busy' = [busy EXCEPT ![f] = busy[f] \ {d}]
        /\ fire' = [fire EXCEPT ![f] = IF busy[f] = {d} THEN "returned" ELSE fire[f]]
        /\ listeners' = listeners /\ subscribed' = subscribed /\ disposed' = disposed /\ aborted' = aborted
        /\ fired' = fired /\ heard' = heard /\ overlapped' = overlapped /\ started' = started
        /\ deliveryQueue' = deliveryQueue
    BY <1>0, <1>2 DEF Emitter!DeliveredConcurrently, Emitter!historyVars, CallsOK
  <2>2. f \in ConcurrentFires /\ f \notin QueuedFires /\ fired \in Seq(Emitter!Fires) /\ DOMAIN heard = Emitter!Fires
    BY <1>0, <2>1, FiresAssumption DEF CallsOK
  <2> DEFINE B == busy[f] \ {d}
             s == IF busy[f] = {d} THEN "returned" ELSE fire[f]
  <2>3. /\ B \in SUBSET Emitter!Deliveries /\ \A e \in B : e.event = f
        /\ \A e \in busy[f] : e.event = f
    BY <1>0, <2>2 DEF CallsOK
  <2>4. s \in {"returned", "concurrent"} /\ (B # {} <=> s = "concurrent")
    BY <1>2, <2>1
  <2>5. busy' = [busy EXCEPT ![f] = B] /\ fire' = [fire EXCEPT ![f] = s]
    BY <2>1
  <2> HIDE DEF B, s
  <2>6. Overlaps(f)
    BY <1>0, <2>1 DEF Overlaps, CallsOK
  <2>7. CallsOK'
    <3>1. /\ B # {} <=> s \in {"queue", "concurrent"}
          /\ s \in {"queue", "concurrent", "returned"} /\ s # "queue"
      BY <2>4
    <3>2. \A e \in B : IF f \in QueuedFires THEN e.event \in QueuedFires ELSE e.event = f
      BY <2>2, <2>3
    <3>3. /\ fired' \in Seq(Emitter!Fires) /\ DOMAIN heard' = Emitter!Fires /\ overlapped \subseteq overlapped'
          /\ \A m \in DOMAIN fired' : m \in DOMAIN fired /\ fired'[m] = fired[m]
      BY <2>1, <2>2
    <3> QED
      BY <1>0, <2>2, <2>3, <2>5, <2>6, <3>1, <3>2, <3>3, CallsSet
  <2>8. ListenersOK' /\ DeliveriesOK(started', deliveryQueue', fired')
    BY <1>0, <2>1 DEF ListenersOK
  <2>9. DOMAIN fire = Emitter!Fires /\ DOMAIN busy = Emitter!Fires
    BY <1>0 DEF CallsOK
  <2>10. HeardOK'
    BY <1>0, <2>1, <2>5, <2>9 DEF HeardOK
  <2>11. ReturnedOK'
    <3> SUFFICES ASSUME NEW g \in Emitter!Fires, fire'[g] = "returned", g \notin aborted,
                        g \notin overlapped \/ g \notin QueuedFires, NEW l \in heard[g]
                 PROVE  /\ Has(started, Emitter!Delivery(g, l))
                        /\ \A h \in Emitter!Fires : Emitter!Delivery(g, l) \notin busy'[h]
      BY <2>1 DEF ReturnedOK
    <3>1. \A h \in Emitter!Fires : busy'[h] \subseteq busy[h]
      BY <2>1, <2>9
    <3>2. CASE g # f
      <4>1. fire[g] = "returned"
        BY <2>5, <2>9, <3>2
      <4> QED
        BY <1>0, <3>1, <4>1 DEF ReturnedOK
    <3>3. CASE g = f
      <4>1. busy'[f] = {}
        BY <2>4, <2>5, <2>9, <3>3
      <4>2. ~Has(deliveryQueue, Emitter!Delivery(g, l))
        BY <1>0, <2>2, <3>3, DeliveryFacts DEF DeliveriesOK, Has
      <4>3. Has(started, Emitter!Delivery(g, l))
        BY <1>0, <2>1, <3>3, <4>2 DEF HeardOK
      <4>4. ASSUME NEW h \in Emitter!Fires, h # f
            PROVE  Emitter!Delivery(g, l) \notin busy[h]
        <5>1. \A e \in busy[h] : e.event # f
          BY <1>0, <2>2, <4>4 DEF CallsOK
        <5> QED
          BY <3>3, <5>1, DeliveryFacts
      <4> QED
        BY <3>1, <4>1, <4>3, <4>4
    <3> QED
      BY <3>2, <3>3
  <2> QED
    BY <2>7, <2>8, <2>10, <2>11 DEF EmitterIInv
<1> QED
  BY <1>1, <1>2

LEMMA EmitterStep ==
  ASSUME EmitterIInv, [PartNext]_partVars
  PROVE  EmitterIInv'
<1>1. CASE Emitter!Next
  BY <1>1, ListenerSteps, QueuedSteps, ConcurrentSteps DEF Emitter!Next
<1>2. CASE UNCHANGED emitterVars
  BY <1>2 DEF emitterVars, EmitterIInv, ListenersOK, CallsOK, DeliveriesOK, HeardOK, ReturnedOK
<1> QED
  BY <1>1, <1>2 DEF PartNext, partVars

LEMMA EmitterInitially == PartInit => EmitterIInv
<1> SUFFICES ASSUME PartInit
             PROVE  EmitterIInv
  OBVIOUS
<1>1. /\ listeners = << >> /\ subscribed = {} /\ deliveryQueue = << >> /\ started = << >> /\ fired = << >>
      /\ fire = [f \in Emitter!Fires |-> "new"] /\ busy = [f \in Emitter!Fires |-> {}]
      /\ heard = [f \in Emitter!Fires |-> {}]
  BY DEF PartInit, Emitter!Init
<1>2. \A S : << >> \in Seq(S)
  OBVIOUS
<1>3. DOMAIN << >> = {}
  OBVIOUS
<1>4. ListenersOK
  BY <1>1, <1>2, <1>3 DEF ListenersOK
<1>5. CallsOK
  BY <1>1, <1>2, <1>3 DEF CallsOK
<1>6. DeliveriesOK(started, deliveryQueue, fired)
  BY <1>1, <1>2, <1>3 DEF DeliveriesOK
<1>7. HeardOK /\ ReturnedOK
  BY <1>1 DEF HeardOK, ReturnedOK
<1> QED
  BY <1>4, <1>5, <1>6, <1>7 DEF EmitterIInv

LEMMA EmitterIInvImplies == EmitterIInv => EventsReachListeners
<1> SUFFICES ASSUME EmitterIInv
             PROVE  EventsReachListeners
  OBVIOUS
<1>1. Emitter!TypeOK
  BY DEF EmitterIInv, ListenersOK, CallsOK, DeliveriesOK, Emitter!TypeOK, Emitter!IsInjective, Emitter!UnderWay
<1>2. Emitter!DeliveredInOrder
  <2>1. Emitter!IsInjective(started)
    BY DEF EmitterIInv, DeliveriesOK, Emitter!IsInjective
  <2>2. ASSUME NEW i \in DOMAIN started, NEW j \in DOMAIN started, i < j, started[i].event # started[j].event,
               {started[i].event, started[j].event} \subseteq QueuedFires
        PROVE  Emitter!FiredBefore(started[i].event, started[j].event)
    <3>1. InOrder(fired, started[i], started[j])
      BY <2>2 DEF EmitterIInv, DeliveriesOK
    <3> QED
      BY <2>2, <3>1 DEF InOrder, Before, Emitter!FiredBefore
  <2> QED
    BY <2>1, <2>2 DEF Emitter!DeliveredInOrder
<1>3. Emitter!ResolvesAfterItsListeners
  <2> SUFFICES ASSUME NEW f \in Emitter!Fires, fire[f] = "returned", f \notin aborted \cup (overlapped \cap QueuedFires),
                      NEW l \in heard[f]
               PROVE  /\ Emitter!Contains(started, Emitter!Delivery(f, l))
                      /\ \A g \in Emitter!Fires : Emitter!Delivery(f, l) \notin busy[g]
    BY DEF Emitter!ResolvesAfterItsListeners
  <2>1. Has(started, Emitter!Delivery(f, l)) /\ \A g \in Emitter!Fires : Emitter!Delivery(f, l) \notin busy[g]
    BY DEF EmitterIInv, ReturnedOK
  <2>2. started \in Seq(Emitter!Deliveries)
    BY DEF EmitterIInv, DeliveriesOK
  <2>3. DOMAIN started = 1 .. Len(started)
    BY <2>2
  <2> QED
    BY <2>1, <2>3 DEF Has, Emitter!Contains
<1> QED
  BY <1>1, <1>2, <1>3 DEF EventsReachListeners

\* A listener hears every event once and in order, and a call resolves after
\* the listeners are done, for any number of calls and listeners (AsyncEmitter).
THEOREM ListenersHearEveryEvent == PartSpec => []EventsReachListeners
<1>1. EmitterIInv /\ [PartNext]_partVars => EmitterIInv'
  BY EmitterStep
<1> QED
  BY <1>1, EmitterInitially, EmitterIInvImplies, PTL DEF PartSpec
=============================================================================
