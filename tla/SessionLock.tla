----------------------------- MODULE SessionLock -----------------------------
(***************************************************************************)
(* The lock of one session (persistence/interface/sessionLock.ts and       *)
(* backends/node-fs/sessionLockService.ts): a lock file that names the     *)
(* process which holds the session, published by linking a finished file   *)
(* to its name, and a second file that guards the removal of a lock whose  *)
(* process is dead.                                                        *)
(*                                                                         *)
(* The service is synchronous, so a process does one thing at a time; each *)
(* file system call is one step, and other processes run between any two   *)
(* of them.  A token is represented by the process it names: a process     *)
(* publishes a new token only when it has given up the last one.  All      *)
(* processes run on one host, and `alive` is exact.                        *)
(***************************************************************************)
EXTENDS Naturals, FiniteSets

CONSTANTS Processes,
          Takeovers,      \* may a process call takeover?
          FsErrors,       \* may a file system call fail?
          NoFile

VARIABLES lockFile,       \* the process that the lock file names, or NoFile
          guardFile,      \* the same for the .reclaim file
          dead,           \* processes that are no more
          pc,             \* the next file system call of each process
          attempt,        \* `attempt` of claim
          wants,          \* the request that started the claim
          held, leases,   \* `held` and `leases` of HeldState
          holding,        \* processes that have an entry in heldSessions
          unlocked,       \* those that went on without a lock
          evicted,        \* those whose lock was taken over
          raced           \* an unlink hit a file other than the one read

fileVars == <<lockFile, guardFile>>
heldVars == <<held, leases, holding, unlocked>>
historyVars == <<evicted, raced>>
vars == <<fileVars, dead, pc, attempt, wants, heldVars, historyVars>>

ClaimSteps == {"link", "readHolder", "linkGuard", "readGuard", "unlinkStaleGuard",
               "readLock", "unlinkLock", "unlinkGuard"}

Init ==
  /\ lockFile = NoFile /\ guardFile = NoFile
  /\ dead = {}
  /\ pc = [p \in Processes |-> "idle"]
  /\ attempt = [p \in Processes |-> 0]
  /\ wants = [p \in Processes |-> "hold"]
  /\ held = {} /\ leases = {} /\ holding = {} /\ unlocked = {}
  /\ evicted = {} /\ raced = FALSE

TypeOK ==
  /\ {lockFile, guardFile} \subseteq Processes \cup {NoFile}
  /\ pc \in [Processes -> ClaimSteps \cup {"idle", "readToken", "unlinkOwn", "evictRead", "evictUnlink"}]
  /\ attempt \in [Processes -> 0 .. 1]
  /\ wants \in [Processes -> {"hold", "lease"}]
  /\ dead \cup holding \subseteq Processes /\ raced \in BOOLEAN
  /\ held \cup leases = holding /\ holding \cap dead = {}
  /\ \A p \in Processes : pc[p] # "idle" => p \notin holding

----------------------------------------------------------------------------
\* Mutant: a process that cannot be signalled (EPERM) is taken for dead.
DeadIfOther(p, file) == file # p

\* readHolder found nobody, or somebody who is not alive.
NotAlive(p, file) == file = NoFile \/ file \in dead

Step(p, from) == p \notin dead /\ pc[p] = from
Goto(p, to) == pc' = [pc EXCEPT ![p] = to]

\* The claim goes into its second attempt, or is refused.
NextAttempt(p) ==
  IF attempt[p] = 0
  THEN Goto(p, "link") /\ attempt' = [attempt EXCEPT ![p] = 1]
  ELSE Goto(p, "idle") /\ attempt' = [attempt EXCEPT ![p] = 0]

\* hold() and lease() when there is no entry: publish.
Claim(p, request) ==
  /\ Step(p, "idle") /\ p \notin holding
  /\ Goto(p, "link")
  /\ attempt' = [attempt EXCEPT ![p] = 0]
  /\ wants' = [wants EXCEPT ![p] = request]
  /\ UNCHANGED <<fileVars, dead, heldVars, historyVars>>

\* The same when there is one.
HoldAgain(p) ==
  /\ Step(p, "idle") /\ p \in holding \ held
  /\ held' = held \cup {p}
  /\ UNCHANGED <<fileVars, dead, pc, attempt, wants, leases, holding, unlocked, historyVars>>

LeaseAgain(p) ==
  /\ Step(p, "idle") /\ p \in holding \ leases
  /\ leases' = leases \cup {p}
  /\ UNCHANGED <<fileVars, dead, pc, attempt, wants, held, holding, unlocked, historyVars>>

\* stateFor stores the entry and the request is recorded in it.
Entered(p) ==
  /\ holding' = holding \cup {p}
  /\ held' = IF wants[p] = "hold" THEN held \cup {p} ELSE held
  /\ leases' = IF wants[p] = "lease" THEN leases \cup {p} ELSE leases
  /\ Goto(p, "idle")
  /\ attempt' = [attempt EXCEPT ![p] = 0]
  /\ wants' = [wants EXCEPT ![p] = "hold"]

\* tryPublish(lockPath)
LinkLock(p) ==
  /\ Step(p, "link")
  /\ IF lockFile = NoFile
     THEN lockFile' = p /\ Entered(p)
     ELSE Goto(p, "readHolder") /\ UNCHANGED <<lockFile, attempt, wants, held, leases, holding>>
  /\ UNCHANGED <<guardFile, dead, unlocked, historyVars>>

\* A file system error: publish returns the token all the same.
ClaimFails(p) ==
  /\ FsErrors /\ p \notin dead /\ pc[p] \in ClaimSteps
  /\ Entered(p)
  /\ unlocked' = unlocked \cup {p}
  /\ UNCHANGED <<fileVars, dead, historyVars>>

ReadHolder(p) ==
  /\ Step(p, "readHolder")
  /\ IF NotAlive(p, lockFile)
     THEN Goto(p, "linkGuard") /\ UNCHANGED attempt
     ELSE Goto(p, "idle") /\ attempt' = [attempt EXCEPT ![p] = 0]
  /\ UNCHANGED <<fileVars, dead, wants, heldVars, historyVars>>

\* reclaim: tryPublish(reclaimPath)
LinkGuard(p) ==
  /\ Step(p, "linkGuard")
  /\ IF guardFile = NoFile
     THEN guardFile' = p /\ Goto(p, "readLock")
     ELSE UNCHANGED guardFile /\ Goto(p, "readGuard")
  /\ UNCHANGED <<lockFile, dead, attempt, wants, heldVars, historyVars>>

ReadGuard(p) ==
  /\ Step(p, "readGuard")
  /\ IF NotAlive(p, guardFile)
     THEN Goto(p, "unlinkStaleGuard") /\ UNCHANGED attempt
     ELSE NextAttempt(p)
  /\ UNCHANGED <<fileVars, dead, wants, heldVars, historyVars>>

UnlinkStaleGuard(p) ==
  /\ Step(p, "unlinkStaleGuard")
  /\ guardFile' = NoFile
  /\ NextAttempt(p)
  /\ UNCHANGED <<lockFile, dead, wants, heldVars, historyVars>>

ReadLock(p) ==
  /\ Step(p, "readLock")
  /\ Goto(p, IF NotAlive(p, lockFile) THEN "unlinkLock" ELSE "unlinkGuard")
  /\ UNCHANGED <<fileVars, dead, attempt, wants, heldVars, historyVars>>

UnlinkLock(p) ==
  /\ Step(p, "unlinkLock")
  /\ lockFile' = NoFile
  /\ raced' = (raced \/ ~NotAlive(p, lockFile))
  /\ Goto(p, "unlinkGuard")
  /\ UNCHANGED <<guardFile, dead, attempt, wants, heldVars, evicted>>

UnlinkGuard(p) ==
  /\ Step(p, "unlinkGuard")
  /\ guardFile' = NoFile
  /\ NextAttempt(p)
  /\ UNCHANGED <<lockFile, dead, wants, heldVars, historyVars>>

----------------------------------------------------------------------------
(* Release.                                                                *)

\* unpublishIfUnused
Unused(p, h, l) == p \notin h /\ p \notin l

Released(p, h, l) ==
  /\ IF Unused(p, h, l)
     THEN holding' = holding \ {p} /\ Goto(p, "readToken")
     ELSE UNCHANGED <<holding, pc>>
  /\ held' = h /\ leases' = l
  /\ UNCHANGED <<fileVars, dead, attempt, wants, unlocked, historyVars>>

ReleaseHold(p) == Step(p, "idle") /\ p \in held /\ Released(p, held \ {p}, leases)

ReleaseLease(p) == Step(p, "idle") /\ p \in leases /\ Released(p, held, leases \ {p})

\* dispose() and the exit listener: releaseAll.
ReleaseAll(p) ==
  /\ Step(p, "idle") /\ p \in holding
  /\ Released(p, held \ {p}, leases \ {p})

\* unpublish compares the token in the file with its own, then unlinks it.
ReadToken(p) ==
  /\ Step(p, "readToken")
  /\ Goto(p, IF lockFile = p THEN "unlinkOwn" ELSE "idle")
  /\ unlocked' = unlocked \ {p} /\ evicted' = evicted \ {p}
  /\ UNCHANGED <<fileVars, dead, attempt, wants, held, leases, holding, raced>>

UnlinkOwn(p) ==
  /\ Step(p, "unlinkOwn")
  /\ lockFile' = NoFile
  /\ raced' = (raced \/ lockFile \notin {p, NoFile})
  /\ Goto(p, "idle")
  /\ UNCHANGED <<guardFile, dead, attempt, wants, heldVars, evicted>>

\* takeover: evict reads the holder and unlinks the file, whoever holds it.
Takeover(p) ==
  /\ Takeovers /\ Step(p, "idle") /\ p \notin holding
  /\ Goto(p, "evictRead")
  /\ UNCHANGED <<fileVars, dead, attempt, wants, heldVars, historyVars>>

EvictRead(p) ==
  /\ Step(p, "evictRead")
  /\ Goto(p, IF lockFile = NoFile THEN "idle" ELSE "evictUnlink")
  /\ UNCHANGED <<fileVars, dead, attempt, wants, heldVars, historyVars>>

EvictUnlink(p) ==
  /\ Step(p, "evictUnlink")
  /\ lockFile' = NoFile
  /\ evicted' = evicted \cup ({lockFile} \cap holding)
  /\ Goto(p, "idle")
  /\ UNCHANGED <<guardFile, dead, attempt, wants, heldVars, raced>>

\* The process is killed: its memory is gone, its files stay.
Crash(p) ==
  /\ p \notin dead
  /\ dead' = dead \cup {p}
  /\ Goto(p, "idle")
  /\ attempt' = [attempt EXCEPT ![p] = 0]
  /\ wants' = [wants EXCEPT ![p] = "hold"]
  /\ held' = held \ {p} /\ leases' = leases \ {p} /\ holding' = holding \ {p}
  /\ unlocked' = unlocked \ {p} /\ evicted' = evicted \ {p}
  /\ UNCHANGED <<fileVars, raced>>

Next ==
  \E p \in Processes :
    \/ \E request \in {"hold", "lease"} : Claim(p, request)
    \/ HoldAgain(p) \/ LeaseAgain(p)
    \/ LinkLock(p) \/ ClaimFails(p) \/ ReadHolder(p)
    \/ LinkGuard(p) \/ ReadGuard(p) \/ UnlinkStaleGuard(p)
    \/ ReadLock(p) \/ UnlinkLock(p) \/ UnlinkGuard(p)
    \/ ReleaseHold(p) \/ ReleaseLease(p) \/ ReleaseAll(p)
    \/ ReadToken(p) \/ UnlinkOwn(p)
    \/ Takeover(p) \/ EvictRead(p) \/ EvictUnlink(p)
    \/ Crash(p)

Spec == Init /\ [][Next]_vars

----------------------------------------------------------------------------
(* Properties.                                                             *)

\* The processes that believe the session is theirs, and may: takeover and a
\* file system error give up exclusion on purpose.
Holders == holding \ (unlocked \cup evicted)

\* "This session is in use by another CoderAI process": hold() and lease()
\* succeed in one process at a time.
HeldByOneProcess == \A p, q \in Holders : p = q

\* As long as no unlink has hit a file that was replaced after it was read,
\* whoever holds the session owns the lock file; nobody else can have it.
HolderOwnsTheFile == ~raced => Holders \subseteq {lockFile}

\* Both: the invariant is inductive only with the type invariant.
OwnedByItsHolder == TypeOK /\ HolderOwnsTheFile
=============================================================================
