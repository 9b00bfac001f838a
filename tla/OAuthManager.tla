---------------------------- MODULE OAuthManager ----------------------------
(***************************************************************************)
(* OAuthManager (packages/oauth/src/oauth-manager.ts) in several processes *)
(* that share one token file and one lock: ensureFresh with its coalescing *)
(* of calls inside a process, the refresh under the cross-process lock,    *)
(* the recovery from a 401 and the tombstone, login and logout.            *)
(*                                                                         *)
(* A token is [s, g]: the g-th token of login session s.  The server       *)
(* (external) rotates refresh tokens: live[s] is the only one of session s *)
(* it accepts.  Every read and write of the token file is a step, since    *)
(* other processes may act between two of them.                            *)
(*                                                                         *)
(* The lock of proper-lockfile (external) is taken over from a process     *)
(* that has crashed, and, when the machine was suspended, from one that    *)
(* has not.                                                                *)
(***************************************************************************)
EXTENDS Naturals, FiniteSets

CONSTANTS Procs, Calls,
          None,
          Missing, Tombstone,        \* what the token file may hold besides a token
          Unauthorized, Failed,      \* how a call may be rejected
          MaxSessions,               \* bound on logins
          MaxTries,                  \* maxRetries of refreshAccessToken
          Faults                     \* what may go wrong

Tokens == [s : 1 .. MaxSessions, g : Nat \ {0}]

ConstantsApart ==
  /\ MaxSessions \in Nat \ {0}
  /\ None \notin Procs \cup Calls \cup Tokens
  /\ {Missing, Tombstone, Unauthorized, Failed} \cap Tokens = {}

VARIABLES
  file,     \* the stored token, Missing or Tombstone
  live,     \* live[s]: generation the server accepts, 0 when none is
  due,      \* tokens within the refresh threshold
  lock,     \* process that holds the refresh lock
  call,     \* calls of ensureFresh
  flight,   \* flight[p]: the refresh of process p, inFlightRefresh
  user,     \* session of the last login, 0 after a logout
  logins,   \* sessions there were
  dead,     \* history: tokens the server consumed or rejected
  again,    \* history: tokens presented after that
  burned,   \* history: tokens whose end was not recorded, an exception of a property
  odd       \* history: the other exceptions the properties name

vars == <<file, live, due, lock, call, flight, user, logins, dead, again, burned, odd>>

IdleFlight == [at |-> "idle", leader |-> None, force |-> FALSE, token |-> None, got |-> None,
               tries |-> 0, answer |-> None]

Init ==
  /\ file = [s |-> 1, g |-> 1]
  /\ live = [s \in 1 .. MaxSessions |-> IF s = 1 THEN 1 ELSE 0]
  /\ due = {} /\ lock = None /\ user = 1 /\ logins = 1 /\ dead = {} /\ again = {} /\ burned = {} /\ odd = {}
  /\ call = [c \in Calls |-> [at |-> "new", in |-> None, force |-> FALSE, saw |-> None, answer |-> None]]
  /\ flight = [p \in Procs |-> IdleFlight]

Places == {"idle", "load", "lock", "reread", "post", "save", "recover", "bury", "release"}

TypeOK ==
  /\ file \in Tokens \cup {Missing, Tombstone}
  /\ live \in [1 .. MaxSessions -> Nat] /\ due \subseteq Tokens
  /\ lock \in Procs \cup {None}
  /\ \A c \in Calls : call[c].at \in {"new", "led", "joined", "queued", "done"}
  /\ \A p \in Procs :
       /\ flight[p].at \in Places
       /\ flight[p].at = "idle" <=> flight[p].leader = None
       /\ flight[p].at # "idle" => call[flight[p].leader].at = "led" /\ call[flight[p].leader].in = p
  /\ \A c \in Calls : call[c].at \in {"led", "joined"} => flight[call[c].in].at # "idle"

shouldRefreshToken(tok, force) == force \/ tok \in due
At(p, place) == flight[p].at = place
Valid(f) == f \in Tokens
Under(p) == flight[p].at \in {"post", "save", "recover", "bury"}  \* past the re-read

----------------------------------------------------------------------------
(* ensureFresh: one refresh at a time in a process.                        *)

Joins(c, p, force) == flight[p].at # "idle" /\ (~force \/ flight[p].force)

\* The call starts a refresh of its own, joins the one in flight or waits for it.
Enter(c, p, force) ==
  /\ call' = [call EXCEPT ![c] = [at |-> IF At(p, "idle") THEN "led"
                                         ELSE IF Joins(c, p, force) THEN "joined" ELSE "queued",
                                  in |-> p, force |-> force, saw |-> IF call[c].at = "new" THEN file ELSE @.saw,
                                  answer |-> None]]
  /\ flight' = IF At(p, "idle")
               THEN [flight EXCEPT ![p] = [IdleFlight EXCEPT !.at = "load", !.leader = c, !.force = force,
                                                             !.token = file]]
               ELSE flight
  /\ odd' = IF force /\ ~At(p, "idle") /\ flight[p].force /\ flight[p].token # file THEN odd \cup {"late"} ELSE odd
  /\ UNCHANGED <<file, live, due, lock, user, logins, dead, again, burned>>

ensureFresh(c, p, force) == call[c].at = "new" /\ Enter(c, p, force)

\* A forced call that waited for a refresh without force calls again.
EnterAgain(c) ==
  /\ call[c].at = "queued"
  /\ flight[call[c].in].at = "idle" \/ flight[call[c].in].force
  /\ Enter(c, call[c].in, call[c].force)

\* The promise of the refresh settles: its leader and those who joined have the answer.
Settle(p, answer) ==
  /\ call' = [c \in Calls |-> IF call[c].in = p /\ call[c].at \in {"led", "joined"}
                              THEN [call[c] EXCEPT !.at = "done", !.answer = answer] ELSE call[c]]
  /\ flight' = [flight EXCEPT ![p] = IdleFlight]

Goto(p, place) == flight' = [flight EXCEPT ![p].at = place] /\ UNCHANGED call
\* Leave the critical section with this answer.
Answer(p, answer) ==
  flight' = [flight EXCEPT ![p].at = "release", ![p].answer = answer] /\ UNCHANGED call

----------------------------------------------------------------------------
(* doEnsureFresh.                                                          *)

\* The file was read when the refresh began.
loadState(p) ==
  LET tok == flight[p].token IN
  /\ At(p, "load")
  /\ \/ ~Valid(tok) /\ Settle(p, Unauthorized)
     \/ Valid(tok) /\ ~shouldRefreshToken(tok, flight[p].force) /\ Settle(p, tok)
     \/ Valid(tok) /\ shouldRefreshToken(tok, flight[p].force) /\ Goto(p, "lock")
  /\ UNCHANGED <<file, live, due, lock, user, logins, dead, again, burned, odd>>

Alive(q) == q \in Procs /\ flight[q].at \in {"reread", "post", "save", "recover", "bury", "release"}

\* Mutant: the refresh goes on when the lock is taken.
LockIgnored(p) ==
  /\ At(p, "lock")
  /\ lock' = p
  /\ Goto(p, "reread")
  /\ UNCHANGED <<file, live, due, user, logins, dead, again, burned, odd>>

acquireRefreshLock(p) ==
  /\ At(p, "lock")
  /\ lock = None \/ ~Alive(lock) \/ "suspend" \in Faults
  /\ lock' = p
  /\ Goto(p, "reread")
  /\ odd' = IF lock # None /\ Alive(lock) THEN odd \cup {"stolen"} ELSE odd
  /\ UNCHANGED <<file, live, due, user, logins, dead, again, burned>>

LockFails(p) ==
  /\ At(p, "lock") /\ "lock" \in Faults
  /\ Settle(p, Failed)
  /\ UNCHANGED <<file, live, due, lock, user, logins, dead, again, burned, odd>>

\* Mutant: the token read before the lock is used.
NoReread(p) ==
  /\ At(p, "reread")
  /\ Goto(p, "post")
  /\ UNCHANGED <<file, live, due, lock, user, logins, dead, again, burned, odd>>

afterLock(p) ==
  /\ At(p, "reread")
  /\ \/ file = Tombstone /\ Answer(p, Unauthorized) /\ UNCHANGED odd
     \/ file = Missing /\ Goto(p, "post") /\ odd' = odd \cup {"fallback"}
     \/ /\ Valid(file) /\ UNCHANGED odd
        /\ IF ~shouldRefreshToken(file, flight[p].force)
              \/ (flight[p].force /\ file # flight[p].token)
           THEN Answer(p, file)
           ELSE flight' = [flight EXCEPT ![p].at = "post", ![p].token = file] /\ UNCHANGED call
  /\ burned' = IF file = Missing THEN burned \cup {flight[p].token} ELSE burned
  /\ UNCHANGED <<file, live, due, lock, user, logins, dead, again>>

(* refreshAccessToken: the server's answer to one request.                 *)
Accepts(tok) == live[tok.s] = tok.g
Presented(p) ==
  again' = IF flight[p].token \in dead THEN again \cup {flight[p].token} ELSE again

Rotated(tok) == [tok EXCEPT !.g = @ + 1]

PostAccepted(p) ==
  LET tok == flight[p].token IN
  /\ At(p, "post") /\ Accepts(tok)
  /\ live' = [live EXCEPT ![tok.s] = @ + 1]
  /\ dead' = dead \cup {tok}
  /\ flight' = [flight EXCEPT ![p].at = "save", ![p].got = Rotated(tok)] /\ UNCHANGED call
  /\ Presented(p)
  /\ UNCHANGED <<file, due, lock, user, logins, burned, odd>>

PostRejected(p) ==
  LET tok == flight[p].token IN
  /\ At(p, "post") /\ ~Accepts(tok)
  /\ dead' = dead \cup {tok}
  /\ Goto(p, "recover")
  /\ Presented(p)
  /\ UNCHANGED <<file, live, due, lock, user, logins, burned, odd>>

\* A transport error or a retryable status; the server may have rotated the token.
PostFails(p, rotated) ==
  LET tok == flight[p].token IN
  /\ At(p, "post")
  /\ IF rotated THEN "lost" \in Faults /\ Accepts(tok) ELSE "error" \in Faults
  /\ live' = IF rotated THEN [live EXCEPT ![tok.s] = @ + 1] ELSE live
  /\ dead' = IF rotated THEN dead \cup {tok} ELSE dead
  /\ burned' = IF rotated THEN burned \cup {tok} ELSE burned
  /\ IF flight[p].tries + 1 < MaxTries
     THEN flight' = [flight EXCEPT ![p].tries = @ + 1] /\ UNCHANGED call
     ELSE Answer(p, Failed)
  /\ Presented(p)
  /\ UNCHANGED <<file, due, lock, user, logins, odd>>

saveRefreshed(p) ==
  /\ At(p, "save")
  /\ file' = flight[p].got
  /\ Answer(p, flight[p].got)
  /\ UNCHANGED <<live, due, lock, user, logins, dead, again, burned, odd>>

\* storage.save throws: of the refreshed token, or of the tombstone.
SaveFails(p) ==
  /\ flight[p].at \in {"save", "bury"} /\ "save" \in Faults
  /\ Answer(p, Failed)
  /\ burned' = burned \cup {flight[p].token}
  /\ UNCHANGED <<file, live, due, lock, user, logins, dead, again, odd>>

\* After the sleep: did a peer rotate the token?
recovery(p) ==
  /\ At(p, "recover")
  /\ IF Valid(file) /\ file # flight[p].token THEN Answer(p, file) ELSE Goto(p, "bury")
  /\ UNCHANGED <<file, live, due, lock, user, logins, dead, again, burned, odd>>

saveTombstone(p) ==
  /\ At(p, "bury")
  /\ file' = Tombstone
  /\ Answer(p, Unauthorized)
  /\ UNCHANGED <<live, due, lock, user, logins, dead, again, burned, odd>>

release(p) ==
  /\ At(p, "release")
  /\ lock' = IF lock = p THEN None ELSE lock
  /\ Settle(p, flight[p].answer)
  /\ UNCHANGED <<file, live, due, user, logins, dead, again, burned, odd>>

----------------------------------------------------------------------------
(* The user, the clock, the server and crashes.                            *)

\* A user's action while a refresh is past its re-read, and no longer after a clean one.
Raced == (odd \ {"raced", "fallback"})
         \cup (IF \E p \in Procs : Under(p) THEN {"raced"} ELSE {})

\* The device code flow has succeeded.
login ==
  /\ "login" \in Faults
  /\ logins < MaxSessions /\ logins' = logins + 1
  /\ live' = [live EXCEPT ![logins'] = 1]
  /\ file' = [s |-> logins', g |-> 1] /\ user' = logins'
  /\ odd' = Raced
  /\ UNCHANGED <<due, lock, call, flight, dead, again, burned>>

logout ==
  /\ "logout" \in Faults /\ user # 0
  /\ file' = Missing /\ user' = 0
  /\ odd' = Raced
  /\ UNCHANGED <<live, due, lock, call, flight, logins, dead, again, burned>>

TimePasses ==
  /\ Valid(file) /\ file \notin due
  /\ due' = due \cup {file}
  /\ UNCHANGED <<file, live, lock, call, flight, user, logins, dead, again, burned, odd>>

Revoke(s) ==
  /\ "revoke" \in Faults /\ live[s] # 0
  /\ live' = [live EXCEPT ![s] = 0]
  /\ UNCHANGED <<file, due, lock, call, flight, user, logins, dead, again, burned, odd>>

\* The process dies; its lock goes stale and a token it has not saved is lost.
Crash(p) ==
  /\ "crash" \in Faults /\ ~At(p, "idle")
  /\ flight' = [flight EXCEPT ![p] = IdleFlight]
  /\ call' = [c \in Calls |-> IF call[c].in = p /\ call[c].at \in {"led", "joined", "queued"}
                              THEN [call[c] EXCEPT !.at = "done", !.answer = Failed] ELSE call[c]]
  /\ burned' = IF flight[p].at \in {"save", "recover", "bury"} THEN burned \cup {flight[p].token} ELSE burned
  /\ UNCHANGED <<file, live, due, lock, user, logins, dead, again, odd>>

RefreshStep(p) ==
  \/ loadState(p) \/ acquireRefreshLock(p) \/ LockFails(p) \/ afterLock(p)
  \/ PostAccepted(p) \/ PostRejected(p) \/ PostFails(p, TRUE) \/ PostFails(p, FALSE)
  \/ saveRefreshed(p) \/ SaveFails(p) \/ recovery(p) \/ saveTombstone(p) \/ release(p)

Done == (\A c \in Calls : call[c].at = "done") /\ UNCHANGED vars

Next ==
  \/ \E c \in Calls, p \in Procs, force \in BOOLEAN : ensureFresh(c, p, force)
  \/ \E c \in Calls : EnterAgain(c)
  \/ \E p \in Procs : RefreshStep(p) \/ Crash(p)
  \/ \E s \in 1 .. MaxSessions : Revoke(s)
  \/ login \/ logout \/ TimePasses \/ Done

Spec == Init /\ [][Next]_vars

----------------------------------------------------------------------------
(* A refresh token the server has consumed or rejected is not presented    *)
(* again by any process: not by one that waited for the lock, nor by one   *)
(* that starts later and finds the tombstone.  Exceptions: the answer or   *)
(* the write that would have recorded it was lost, the lock was taken from *)
(* a live process, or the file was gone after the lock (doEnsureFresh).    *)
NeverPresentedAgain ==
  again \subseteq burned \/ "stolen" \in odd

(* The file shows what the user did last: no refresh brings a session back *)
(* that was logged out or replaced by a new login.  Exceptions: a refresh  *)
(* that was past its re-read when the user acted, or one that fell back on *)
(* the token it had read before the lock.                                  *)
FileFollowsUser ==
  {"raced", "fallback"} \cap odd # {}
  \/ IF user = 0 THEN file = Missing ELSE file = Tombstone \/ (Valid(file) /\ file.s = user)

(* A stored token that the server still accepts is only replaced by a user *)
(* action: neither a late refresh nor the tombstone of a 401 about an      *)
(* older token destroys it.  Exceptions: as above, and a stolen lock.      *)
LiveTokenKept ==
  [][Valid(file) /\ Accepts(file) /\ file' # file
       => login \/ logout \/ {"raced", "stolen", "fallback"} \cap odd # {}]_vars

(* A forced call that gets a token gets another one than was stored when   *)
(* it was made, whomever it joined or waited for; except when it joined a  *)
(* forced refresh that had read the file before its last change.           *)
ForcedCallRotates ==
  "late" \in odd
  \/ \A c \in Calls : call[c].at = "done" /\ call[c].force /\ Valid(call[c].answer)
                       => call[c].answer # call[c].saw

(* The records, the spent tokens, the forced calls and the user's sessions *)
(* together.                                                               *)
TokensFollowTheUser ==
  TypeOK /\ NeverPresentedAgain /\ ForcedCallRotates /\ FileFollowsUser

=============================================================================
