------------------------- MODULE ConnectionsProofs -------------------------
(***************************************************************************)
(* What the managers of connections promise.                               *)
(*                                                                         *)
(* The token file under any number of processes, calls and logins: what    *)
(* the records are and who leads a refresh (ShapeOK), which tokens there   *)
(* can be (TokensOK), who is alone under the lock (LockOK), what a refresh *)
(* past its re-read works for (UserOK), which spent tokens are on record   *)
(* (SpentOK), and what forced calls have seen (ForceOK).                   *)
(*                                                                         *)
(* The connection to an MCP server under any number of operations: what    *)
(* the records are (RecordsOK, EntriesOK), that one mutation runs at a     *)
(* time (MutationsOK), that an attempt has a number of its own             *)
(* (AttemptsOK), whose the open clients are (ClientsOK), who connects a    *)
(* pending server (PendingOK), which client a connected one uses           *)
(* (ConnectedOK), and who tells its status (ToldOK).                       *)
(***************************************************************************)
EXTENDS MCConnections, FiniteSetTheorems, TLAPS

----------------------------------------------------------------------------
(* The OAuth token.                                                        *)

Files == Tokens \cup {Missing, Tombstone}
Answers == Tokens \cup {None, Unauthorized, Failed}
Refreshes ==
  [at : Places, leader : Calls \cup {None}, force : BOOLEAN, token : Files \cup {None},
   got : Tokens \cup {None}, tries : Nat, answer : Answers]
CallRecords ==
  [at : {"new", "led", "joined", "queued", "done"}, in : Procs \cup {None}, force : BOOLEAN,
   saw : Files \cup {None}, answer : Answers]

\* A refresh has a leader that waits for it; past loadState its token is one.
ShapeOK ==
  /\ file \in Files /\ live \in [1 .. MaxSessions -> Nat] /\ lock \in Procs \cup {None}
  /\ due \subseteq Tokens /\ dead \subseteq Tokens
  /\ call \in [Calls -> CallRecords] /\ flight \in [Procs -> Refreshes]
  /\ logins \in 1 .. MaxSessions /\ user \in 0 .. logins
  /\ \A p \in Procs :
       /\ flight[p].at = "idle" <=> flight[p].leader = None
       /\ flight[p].at # "idle" => call[flight[p].leader].at = "led" /\ call[flight[p].leader].in = p
       /\ flight[p].at \notin {"idle", "load"} => flight[p].token \in Tokens
       /\ flight[p].at = "save" => flight[p].got = Rotated(flight[p].token)
  /\ \A c \in Calls : /\ call[c].at # "new" => call[c].in \in Procs
                      /\ call[c].at \in {"led", "joined"} => flight[call[c].in].at # "idle"

\* A token of a session there was, and no newer than the server's.
IssuedOf(tok, n, l) == tok.s <= n /\ (l[tok.s] # 0 => tok.g <= l[tok.s])
Issued(tok) == IssuedOf(tok, logins, live)
Past(p) == flight[p].at \in {"save", "recover", "bury"}        \* the server has answered

\* A refreshed token that is not saved yet is known to nobody else.
Unknown(tok) ==
  /\ file # tok
  /\ \A q \in Procs : flight[q].token # tok /\ flight[q].answer # tok
  /\ \A c \in Calls : call[c].saw # tok

TokensOK ==
  /\ Valid(file) => Issued(file)
  /\ \A p \in Procs : /\ flight[p].token \in Tokens => Issued(flight[p].token)
                      /\ flight[p].answer \in Tokens => Issued(flight[p].answer)
                      /\ At(p, "save") => Issued(flight[p].got) /\ Unknown(flight[p].got)
                      /\ Past(p) => flight[p].token \in dead
  /\ \A p, q \in Procs : p # q /\ At(p, "save") /\ At(q, "save") => flight[p].got # flight[q].got
  /\ \A c \in Calls : call[c].saw \in Tokens => Issued(call[c].saw)
  /\ \A tok \in dead : tok.s <= logins /\ (live[tok.s] # 0 => tok.g < live[tok.s])

Inside(p) == flight[p].at \in {"reread", "post", "save", "recover", "bury", "release"}

LockOK == "stolen" \in odd \/ \A p \in Procs : Inside(p) => lock = p

UserOK ==
  {"raced", "fallback"} \cap odd # {}
  \/ /\ FileFollowsUser
     /\ \A p \in Procs : Under(p) => user # 0 /\ flight[p].token.s = user
     /\ "stolen" \notin odd => \A p \in Procs : Under(p) => file = flight[p].token

SpentOK ==
  "stolen" \in odd
  \/ /\ again \subseteq burned
     /\ Valid(file) /\ file \in dead => file \in burned \/ \E p \in Procs : Past(p) /\ flight[p].token = file
     /\ \A p \in Procs : /\ At(p, "post") /\ flight[p].token \in dead => flight[p].token \in burned
                         /\ At(p, "save") => flight[p].got \notin dead

\* A forced refresh does not answer with what its callers have seen.
ForceOK ==
  "late" \in odd
  \/ /\ ForcedCallRotates
     /\ \A p \in Procs : flight[p].at = "release" /\ flight[p].force /\ Valid(flight[p].answer)
                           => flight[p].answer # flight[p].token
     /\ \A c \in Calls, p \in Procs :
          call[c].in = p /\ call[c].at \in {"led", "joined",
             "queued"} /\ call[c].force /\ flight[p].at # "idle" /\ flight[p].force =>
            /\ Valid(file) /\ file = call[c].saw => flight[p].token = file
            /\ flight[p].at = "release" /\ Valid(flight[p].answer) => flight[p].answer # call[c].saw
     /\ \A c \in Calls : call[c].force /\ call[c].at \in {"led", "joined"} => flight[call[c].in].force

----------------------------------------------------------------------------
(* What the helpers do to the records.                                     *)

\* Only the refresh of p moves, and nobody is answered.
Moves(p, at, token, got, answer) ==
  /\ flight' \in [Procs -> Refreshes] /\ call' = call
  /\ \A q \in Procs \ {p} : flight'[q] = flight[q]
  /\ flight'[p].at = at /\ flight'[p].token = token /\ flight'[p].got = got /\ flight'[p].answer = answer
  /\ flight'[p].leader = flight[p].leader /\ flight'[p].force = flight[p].force

LEMMA GotoEffect ==
  ASSUME ShapeOK, NEW p \in Procs, NEW place \in Places, Goto(p, place)
  PROVE  Moves(p, place, flight[p].token, flight[p].got, flight[p].answer)
<1> DEFINE r == [flight[p] EXCEPT !.at = place]
<1>1. flight' = [flight EXCEPT ![p].at = place] /\ call' = call
  BY DEF Goto
<1>2. flight[p] \in Refreshes /\ flight \in [Procs -> Refreshes]
  BY DEF ShapeOK
<1>3. /\ r \in Refreshes /\ r.at = place /\ r.token = flight[p].token /\ r.got = flight[p].got
      /\ r.answer = flight[p].answer /\ r.leader = flight[p].leader /\ r.force = flight[p].force
  BY <1>2 DEF Refreshes
<1>4. flight' = [flight EXCEPT ![p] = r]
  BY <1>1
<1> HIDE DEF r
<1> QED
  BY <1>1, <1>2, <1>3, <1>4 DEF Moves

LEMMA AnswerEffect ==
  ASSUME ShapeOK, NEW p \in Procs, NEW answer \in Answers, Answer(p, answer)
  PROVE  Moves(p, "release", flight[p].token, flight[p].got, answer)
<1> DEFINE r == [flight[p] EXCEPT !.at = "release", !.answer = answer]
<1>1. flight' = [flight EXCEPT ![p].at = "release", ![p].answer = answer] /\ call' = call
  BY DEF Answer
<1>2. flight[p] \in Refreshes /\ flight \in [Procs -> Refreshes]
  BY DEF ShapeOK
<1>3. /\ r \in Refreshes /\ r.at = "release" /\ r.token = flight[p].token /\ r.got = flight[p].got
      /\ r.answer = answer /\ r.leader = flight[p].leader /\ r.force = flight[p].force
  BY <1>2 DEF Refreshes, Places
<1>4. flight' = [flight EXCEPT ![p] = r]
  BY <1>1
<1> HIDE DEF r
<1> QED
  BY <1>1, <1>2, <1>3, <1>4 DEF Moves

\* The refresh of p is over; those who waited for it have the answer.
LEMMA SettleEffect ==
  ASSUME ShapeOK, NEW p \in Procs, NEW answer \in Answers, Settle(p, answer)
  PROVE  /\ flight' \in [Procs -> Refreshes] /\ call' \in [Calls -> CallRecords]
         /\ \A q \in Procs \ {p} : flight'[q] = flight[q]
         /\ flight'[p] = IdleFlight
         /\ \A c \in Calls :
              IF call[c].in = p /\ call[c].at \in {"led", "joined"}
              THEN /\ call'[c].at = "done" /\ call'[c].answer = answer
                   /\ call'[c].in = call[c].in /\ call'[c].force = call[c].force /\ call'[c].saw = call[c].saw
              ELSE call'[c] = call[c]
<1>1. IdleFlight \in Refreshes
  BY DEF IdleFlight, Refreshes, Places, Files, Answers
<1>2. /\ flight' \in [Procs -> Refreshes] /\ flight'[p] = IdleFlight
      /\ \A q \in Procs \ {p} : flight'[q] = flight[q]
  BY <1>1, ZenonT(60) DEF Settle, ShapeOK
<1>3. \A c \in Calls : call'[c] = IF call[c].in = p /\ call[c].at \in {"led", "joined"}
                                  THEN [call[c] EXCEPT !.at = "done", !.answer = answer] ELSE call[c]
  BY DEF Settle
<1>4. ASSUME NEW c \in Calls
      PROVE  IF call[c].in = p /\ call[c].at \in {"led", "joined"}
             THEN /\ call'[c].at = "done" /\ call'[c].answer = answer
                  /\ call'[c].in = call[c].in /\ call'[c].force = call[c].force /\ call'[c].saw = call[c].saw
                  /\ call'[c] \in CallRecords
             ELSE call'[c] = call[c] /\ call'[c] \in CallRecords
  <2>1. call[c] \in CallRecords
    BY DEF ShapeOK
  <2> DEFINE r == [call[c] EXCEPT !.at = "done", !.answer = answer]
  <2>2. /\ r \in CallRecords /\ r.at = "done" /\ r.answer = answer
        /\ r.in = call[c].in /\ r.force = call[c].force /\ r.saw = call[c].saw
    BY <2>1 DEF CallRecords
  <2>3. call'[c] = IF call[c].in = p /\ call[c].at \in {"led", "joined"} THEN r ELSE call[c]
    BY <1>3
  <2> HIDE DEF r
  <2> QED
    BY <2>1, <2>2, <2>3
<1>5. call' = [c \in Calls |-> call'[c]]
  BY DEF Settle
<1>6. call' \in [Calls -> CallRecords]
  BY <1>4, <1>5
<1> QED
  BY <1>2, <1>4, <1>6

\* The process has crashed: its calls are over, the waiting ones too.
LEMMA CrashEffect ==
  ASSUME ShapeOK, NEW p \in Procs, Crash(p)
  PROVE  /\ flight' \in [Procs -> Refreshes] /\ call' \in [Calls -> CallRecords]
         /\ \A q \in Procs \ {p} : flight'[q] = flight[q]
         /\ flight'[p] = IdleFlight
         /\ \A c \in Calls :
              IF call[c].in = p /\ call[c].at \in {"led", "joined", "queued"}
              THEN /\ call'[c].at = "done" /\ call'[c].answer = Failed
                   /\ call'[c].in = call[c].in /\ call'[c].force = call[c].force /\ call'[c].saw = call[c].saw
              ELSE call'[c] = call[c]
<1>1. IdleFlight \in Refreshes
  BY DEF IdleFlight, Refreshes, Places, Files, Answers
<1>2. /\ flight' \in [Procs -> Refreshes] /\ flight'[p] = IdleFlight
      /\ \A q \in Procs \ {p} : flight'[q] = flight[q]
  BY <1>1, ZenonT(60) DEF Crash, ShapeOK
<1>3. call' = [c \in Calls |-> IF call[c].in = p /\ call[c].at \in {"led", "joined", "queued"}
                               THEN [call[c] EXCEPT !.at = "done", !.answer = Failed] ELSE call[c]]
  BY DEF Crash
<1>4. ASSUME NEW c \in Calls
      PROVE  IF call[c].in = p /\ call[c].at \in {"led", "joined", "queued"}
             THEN /\ call'[c].at = "done" /\ call'[c].answer = Failed
                  /\ call'[c].in = call[c].in /\ call'[c].force = call[c].force /\ call'[c].saw = call[c].saw
                  /\ call'[c] \in CallRecords
             ELSE call'[c] = call[c] /\ call'[c] \in CallRecords
  <2>1. call[c] \in CallRecords
    BY DEF ShapeOK
  <2> DEFINE r == [call[c] EXCEPT !.at = "done", !.answer = Failed]
  <2>2. /\ r \in CallRecords /\ r.at = "done" /\ r.answer = Failed
        /\ r.in = call[c].in /\ r.force = call[c].force /\ r.saw = call[c].saw
    BY <2>1 DEF CallRecords, Answers
  <2>3. call'[c] = IF call[c].in = p /\ call[c].at \in {"led", "joined", "queued"} THEN r ELSE call[c]
    BY <1>3
  <2> HIDE DEF r
  <2> QED
    BY <2>1, <2>2, <2>3
<1>5. call' \in [Calls -> CallRecords]
  BY <1>3, <1>4
<1> QED
  BY <1>2, <1>4, <1>5

\* A call starts a refresh, joins the one in flight or waits for its end.
LEMMA EnterEffect ==
  ASSUME ShapeOK, NEW c \in Calls, NEW p \in Procs, NEW force \in BOOLEAN, Enter(c, p, force)
  PROVE  /\ flight' \in [Procs -> Refreshes] /\ call' \in [Calls -> CallRecords]
         /\ \A d \in Calls \ {c} : call'[d] = call[d]
         /\ call'[c].at = IF At(p, "idle") THEN "led" ELSE IF Joins(c, p, force) THEN "joined" ELSE "queued"
         /\ call'[c].in = p /\ call'[c].force = force
         /\ call'[c].saw = IF call[c].at = "new" THEN file ELSE call[c].saw
         /\ call'[c].answer = None
         /\ ~At(p, "idle") => flight' = flight
         /\ At(p, "idle") =>
              /\ \A q \in Procs \ {p} : flight'[q] = flight[q]
              /\ flight'[p].at = "load" /\ flight'[p].leader = c /\ flight'[p].force = force
              /\ flight'[p].token = file /\ flight'[p].got = None /\ flight'[p].answer = None
<1>1. call \in [Calls -> CallRecords] /\ flight \in [Procs -> Refreshes] /\ file \in Files
  BY DEF ShapeOK
<1> DEFINE at == IF At(p, "idle") THEN "led" ELSE IF Joins(c, p, force) THEN "joined" ELSE "queued"
           saw == IF call[c].at = "new" THEN file ELSE call[c].saw
           r == [at |-> at, in |-> p, force |-> force, saw |-> saw, answer |-> None]
           f == [IdleFlight EXCEPT !.at = "load", !.leader = c, !.force = force, !.token = file]
<1>2. saw \in Files \cup {None} /\ at \in {"led", "joined", "queued"}
  BY <1>1 DEF CallRecords
<1> HIDE DEF at, saw
<1>3. r \in CallRecords
  BY <1>2 DEF CallRecords, Answers
<1>4. call' = [call EXCEPT ![c] = r]
  BY DEF Enter, at, saw
<1>5. /\ f \in Refreshes /\ f.at = "load" /\ f.leader = c /\ f.force = force
      /\ f.token = file /\ f.got = None /\ f.answer = None
  BY <1>1 DEF IdleFlight, Refreshes, Places, Answers
<1>6. IF At(p, "idle") THEN flight' = [flight EXCEPT ![p] = f] ELSE flight' = flight
  BY DEF Enter
<1>7. r.at = at /\ r.in = p /\ r.force = force /\ r.saw = saw /\ r.answer = None
  OBVIOUS
<1> HIDE DEF r, f
<1>8. /\ call' \in [Calls -> CallRecords] /\ call'[c] = r /\ \A d \in Calls \ {c} : call'[d] = call[d]
  BY <1>1, <1>3, <1>4
<1>9. /\ flight' \in [Procs -> Refreshes] /\ (~At(p, "idle") => flight' = flight)
      /\ At(p, "idle") => flight'[p] = f /\ \A q \in Procs \ {p} : flight'[q] = flight[q]
  BY <1>1, <1>5, <1>6
<1> QED
  BY <1>5, <1>7, <1>8, <1>9 DEF at, saw

\* The re-read under the lock: what the stored token has come to decides.
LEMMA AfterLockEffect ==
  ASSUME ShapeOK, NEW p \in Procs, afterLock(p)
  PROVE  LET f == flight[p] IN
         \/ Moves(p, "release", f.token, f.got, Unauthorized) /\ odd' = odd
            /\ burned' \in {burned, burned \cup {f.token}}
         \/ /\ file = Missing /\ Moves(p, "post", f.token, f.got, f.answer)
            /\ odd' = odd \cup {"fallback"} /\ burned' = burned \cup {f.token}
         \/ /\ Valid(file) /\ Moves(p, "release", f.token, f.got, file) /\ (f.force => file # f.token) /\ odd' = odd
            /\ burned' \in {burned, burned \cup {f.token}}
         \/ /\ Valid(file) /\ Moves(p, "post", file, f.got, f.answer) /\ (f.force => file = f.token) /\ odd' = odd
            /\ burned' \in {burned, burned \cup {f.token}}
<1>1. flight[p] \in Refreshes /\ flight \in [Procs -> Refreshes]
  BY DEF ShapeOK
<1>2. burned' \in {burned, burned \cup {flight[p].token}} /\ (file # Missing => burned' = burned)
      /\ (file = Missing => burned' = burned \cup {flight[p].token})
  BY DEF afterLock
<1>3. CASE file = Tombstone /\ Answer(p, Unauthorized) /\ UNCHANGED odd
  <2>1. Moves(p, "release", flight[p].token, flight[p].got, Unauthorized)
    BY <1>3, AnswerEffect DEF Answers
  <2> QED
    BY <1>2, <1>3, <2>1
<1>4. CASE file = Missing /\ Goto(p, "post") /\ odd' = odd \cup {"fallback"}
  <2>1. Moves(p, "post", flight[p].token, flight[p].got, flight[p].answer)
    BY <1>4, GotoEffect DEF Places
  <2> QED
    BY <1>2, <1>4, <2>1
<1>5. CASE /\ Valid(file) /\ UNCHANGED odd /\ Answer(p, file)
           /\ ~shouldRefreshToken(file, flight[p].force) \/ (flight[p].force /\ file # flight[p].token)
  <2>1. Moves(p, "release", flight[p].token, flight[p].got, file)
    BY <1>5, AnswerEffect DEF Answers, Valid
  <2>2. flight[p].force => file # flight[p].token
    BY <1>5 DEF shouldRefreshToken
  <2> QED
    BY <1>2, <1>5, <2>1, <2>2
<1>6. CASE /\ Valid(file) /\ UNCHANGED <<odd, call>>
           /\ flight' = [flight EXCEPT ![p].at = "post", ![p].token = file]
           /\ ~(flight[p].force /\ file # flight[p].token)
  <2> DEFINE r == [flight[p] EXCEPT !.at = "post", !.token = file]
  <2>1. /\ r \in Refreshes /\ r.at = "post" /\ r.token = file /\ r.got = flight[p].got
        /\ r.answer = flight[p].answer /\ r.leader = flight[p].leader /\ r.force = flight[p].force
    BY <1>1, <1>6 DEF Refreshes, Places, Valid, Files
  <2>2. flight' = [flight EXCEPT ![p] = r]
    BY <1>6
  <2> HIDE DEF r
  <2>3. Moves(p, "post", file, flight[p].got, flight[p].answer)
    BY <1>1, <1>6, <2>1, <2>2 DEF Moves
  <2> QED
    BY <1>2, <1>6, <2>3
<1> QED
  BY <1>3, <1>4, <1>5, <1>6 DEF afterLock

\* The server has rotated the token.
LEMMA AcceptedEffect ==
  ASSUME ShapeOK, NEW p \in Procs, PostAccepted(p)
  PROVE  /\ Moves(p, "save", flight[p].token, Rotated(flight[p].token), flight[p].answer)
         /\ Rotated(flight[p].token) \in Tokens
<1>1. flight[p] \in Refreshes /\ flight \in [Procs -> Refreshes] /\ flight[p].token \in Tokens
  BY DEF ShapeOK, PostAccepted, At
<1>2. Rotated(flight[p].token) \in Tokens
  BY <1>1 DEF Rotated, Tokens
<1> DEFINE r == [flight[p] EXCEPT !.at = "save", !.got = Rotated(flight[p].token)]
<1>3. /\ r \in Refreshes /\ r.at = "save" /\ r.token = flight[p].token /\ r.got = Rotated(flight[p].token)
      /\ r.answer = flight[p].answer /\ r.leader = flight[p].leader /\ r.force = flight[p].force
  BY <1>1, <1>2 DEF Refreshes, Places
<1>4. flight' = [flight EXCEPT ![p] = r] /\ call' = call
  BY DEF PostAccepted
<1> HIDE DEF r
<1> QED
  BY <1>1, <1>2, <1>3, <1>4 DEF Moves

\* The request is made again, or given up.
LEMMA FailsEffect ==
  ASSUME ShapeOK, NEW p \in Procs, NEW rotated \in BOOLEAN, PostFails(p, rotated)
  PROVE  \/ Moves(p, "post", flight[p].token, flight[p].got, flight[p].answer)
         \/ Moves(p, "release", flight[p].token, flight[p].got, Failed)
<1>1. flight[p] \in Refreshes /\ flight \in [Procs -> Refreshes] /\ flight[p].at = "post"
  BY DEF ShapeOK, PostFails, At
<1>2. CASE Answer(p, Failed)
  BY <1>2, AnswerEffect DEF Answers
<1>3. CASE flight' = [flight EXCEPT ![p].tries = @ + 1] /\ UNCHANGED call
  <2> DEFINE r == [flight[p] EXCEPT !.tries = @ + 1]
  <2>1. /\ r \in Refreshes /\ r.at = "post" /\ r.token = flight[p].token /\ r.got = flight[p].got
        /\ r.answer = flight[p].answer /\ r.leader = flight[p].leader /\ r.force = flight[p].force
    BY <1>1 DEF Refreshes
  <2>2. flight' = [flight EXCEPT ![p] = r]
    BY <1>3
  <2> HIDE DEF r
  <2> QED
    BY <1>1, <1>3, <2>1, <2>2 DEF Moves
<1> QED
  BY <1>2, <1>3 DEF PostFails

----------------------------------------------------------------------------
(* The records, and who leads.                                             *)

LEMMA ShapeInit == ConstantsApart /\ Init => ShapeOK
<1> SUFFICES ASSUME ConstantsApart, Init PROVE ShapeOK
  OBVIOUS
<1>1. [s |-> 1, g |-> 1] \in Tokens
  BY DEF ConstantsApart, Tokens
<1>2. IdleFlight \in Refreshes /\ IdleFlight.at = "idle" /\ IdleFlight.leader = None
  BY DEF IdleFlight, Refreshes, Places, Files, Answers
<1>3. flight = [p \in Procs |-> IdleFlight]
  BY DEF Init
<1>4. [at |-> "new", in |-> None, force |-> FALSE, saw |-> None, answer |-> None] \in CallRecords
  BY DEF CallRecords, Answers
<1>5. call \in [Calls -> CallRecords] /\ \A c \in Calls : call[c].at = "new"
  BY <1>4 DEF Init
<1>6. live \in [1 .. MaxSessions -> Nat]
  BY DEF Init
<1> HIDE DEF IdleFlight
<1>7. /\ flight \in [Procs -> Refreshes]
      /\ \A p \in Procs : flight[p].at = "idle" /\ flight[p].leader = None
  BY <1>2, <1>3
<1>8. file \in Files /\ lock \in Procs \cup {None} /\ due \subseteq Tokens /\ dead \subseteq Tokens
      /\ logins \in 1 .. MaxSessions /\ user \in 0 .. logins
  BY <1>1 DEF Init, Files, ConstantsApart
<1> QED
  BY <1>5, <1>6, <1>7, <1>8 DEF ShapeOK

\* The parts that a step of one refresh leaves alone.
LEMMA ShapeMoved ==
  ASSUME ShapeOK, NEW p \in Procs, NEW at \in Places \ {"idle"}, NEW token, NEW got, NEW answer,
         Moves(p, at, token, got, answer), flight[p].at # "idle",
         at # "load" => token \in Tokens,
         at = "save" => got = Rotated(token),
         file' \in Files, live' \in [1 .. MaxSessions -> Nat], lock' \in Procs \cup {None},
         dead' \subseteq Tokens, UNCHANGED <<due, logins, user>>
  PROVE  ShapeOK'
<1>1. /\ flight' \in [Procs -> Refreshes] /\ call' = call
      /\ \A q \in Procs \ {p} : flight'[q] = flight[q]
      /\ flight'[p].at = at /\ flight'[p].token = token /\ flight'[p].got = got
      /\ flight'[p].leader = flight[p].leader
  BY DEF Moves
<1>2. ASSUME NEW q \in Procs
      PROVE  /\ flight'[q].at = "idle" <=> flight'[q].leader = None
             /\ flight'[q].at # "idle" => call'[flight'[q].leader].at = "led" /\ call'[flight'[q].leader].in = q
             /\ flight'[q].at \notin {"idle", "load"} => flight'[q].token \in Tokens
             /\ flight'[q].at = "save" => flight'[q].got = Rotated(flight'[q].token)
  <2>1. CASE q = p
    BY <1>1, <2>1 DEF ShapeOK
  <2>2. CASE q # p
    BY <1>1, <2>2 DEF ShapeOK
  <2> QED
    BY <2>1, <2>2
<1>3. ASSUME NEW c \in Calls
      PROVE  /\ call'[c].at # "new" => call'[c].in \in Procs
             /\ call'[c].at \in {"led", "joined"} => flight'[call'[c].in].at # "idle"
  BY <1>1 DEF ShapeOK
<1> QED
  BY <1>1, <1>2, <1>3 DEF ShapeOK, Rotated

\* The refresh of p is over, and so are the calls S that waited for it.
LEMMA ShapeEnded ==
  ASSUME ConstantsApart, ShapeOK, NEW p \in Procs,
         flight' \in [Procs -> Refreshes], call' \in [Calls -> CallRecords],
         \A q \in Procs \ {p} : flight'[q] = flight[q], flight'[p] = IdleFlight,
         \A c \in Calls : \/ call[c].in = p /\ call'[c].at = "done" /\ call'[c].in = p
                          \/ call'[c] = call[c] /\ ~(call[c].in = p /\ call[c].at \in {"led", "joined"}),
         UNCHANGED <<file, live, dead, due, logins, user>>, lock' \in Procs \cup {None}
  PROVE  ShapeOK'
<1>1. flight'[p].at = "idle" /\ flight'[p].leader = None
  BY DEF IdleFlight
<1>2. ASSUME NEW q \in Procs
      PROVE  /\ flight'[q].at = "idle" <=> flight'[q].leader = None
             /\ flight'[q].at # "idle" => call'[flight'[q].leader].at = "led" /\ call'[flight'[q].leader].in = q
             /\ flight'[q].at \notin {"idle", "load"} => flight'[q].token \in Tokens
             /\ flight'[q].at = "save" => flight'[q].got = Rotated(flight'[q].token)
  <2>1. CASE q = p
    BY <1>1, <2>1
  <2>2. CASE q # p
    <3>1. flight'[q] = flight[q] /\ flight[q] \in Refreshes
      BY <2>2 DEF ShapeOK
    <3>2. flight[q].at # "idle" => flight[q].leader \in Calls
      BY <3>1 DEF ShapeOK, Refreshes
    <3> QED
      BY <2>2, <3>1, <3>2 DEF ShapeOK
  <2> QED
    BY <2>1, <2>2
<1>3. ASSUME NEW c \in Calls
      PROVE  /\ call'[c].at # "new" => call'[c].in \in Procs
             /\ call'[c].at \in {"led", "joined"} => flight'[call'[c].in].at # "idle"
  <2>1. CASE call'[c] = call[c] /\ ~(call[c].in = p /\ call[c].at \in {"led", "joined"})
    BY <2>1 DEF ShapeOK
  <2>2. CASE call'[c].at = "done" /\ call'[c].in = p
    BY <2>2
  <2> QED
    BY <2>1, <2>2
<1> QED
  BY <1>2, <1>3 DEF ShapeOK, Rotated

\* The call leads the refresh it starts.
LEMMA ShapeEntered ==
  ASSUME ConstantsApart, ShapeOK, NEW c \in Calls, NEW p \in Procs, NEW force \in BOOLEAN,
         call[c].at \in {"new", "queued"}, Enter(c, p, force)
  PROVE  ShapeOK'
<1>1. /\ flight' \in [Procs -> Refreshes] /\ call' \in [Calls -> CallRecords]
      /\ \A d \in Calls \ {c} : call'[d] = call[d]
      /\ call'[c].at = IF At(p, "idle") THEN "led" ELSE IF Joins(c, p, force) THEN "joined" ELSE "queued"
      /\ call'[c].in = p
      /\ ~At(p, "idle") => flight' = flight
      /\ At(p, "idle") =>
           /\ \A q \in Procs \ {p} : flight'[q] = flight[q]
           /\ flight'[p].at = "load" /\ flight'[p].leader = c
  BY EnterEffect
<1>2. UNCHANGED <<file, live, due, lock, user, logins, dead>>
  BY DEF Enter
<1>3. c # None
  BY DEF ConstantsApart
<1>4. ASSUME NEW q \in Procs
      PROVE  /\ flight'[q].at = "idle" <=> flight'[q].leader = None
             /\ flight'[q].at # "idle" => call'[flight'[q].leader].at = "led" /\ call'[flight'[q].leader].in = q
             /\ flight'[q].at \notin {"idle", "load"} => flight'[q].token \in Tokens
             /\ flight'[q].at = "save" => flight'[q].got = Rotated(flight'[q].token)
  <2>1. CASE q = p /\ At(p, "idle")
    BY <1>1, <1>3, <2>1
  <2>2. CASE flight'[q] = flight[q]
    <3>1. flight[q] \in Refreshes
      BY DEF ShapeOK
    <3>2. flight[q].at # "idle" => flight[q].leader \in Calls \ {c}
      BY <3>1 DEF ShapeOK, Refreshes
    <3> QED
      BY <1>1, <2>2, <3>1, <3>2 DEF ShapeOK
  <2> QED
    BY <1>1, <2>1, <2>2
<1>5. ASSUME NEW d \in Calls
      PROVE  /\ call'[d].at # "new" => call'[d].in \in Procs
             /\ call'[d].at \in {"led", "joined"} => flight'[call'[d].in].at # "idle"
  <2>1. CASE d = c
    BY <1>1, <2>1 DEF At, Joins
  <2>2. CASE d # c
    <3>1. call'[d] = call[d]
      BY <1>1, <2>2
    <3> QED
      BY <1>1, <3>1 DEF ShapeOK, At
  <2> QED
    BY <2>1, <2>2
<1> QED
  BY <1>1, <1>2, <1>4, <1>5 DEF ShapeOK, Rotated

LEMMA ShapeStep ==
  ASSUME ConstantsApart, ShapeOK, [Next]_vars
  PROVE  ShapeOK'
<1> DEFINE Scalars == UNCHANGED <<file, live, dead, due, logins, user>>
<1>1. ASSUME NEW p \in Procs, NEW answer \in Answers, Settle(p, answer), Scalars, lock' \in Procs \cup {None}
      PROVE  ShapeOK'
  BY <1>1, SettleEffect, ShapeEnded
<1>2. ASSUME NEW p \in Procs, NEW place \in Places \ {"idle", "save"}, Goto(p, place), flight[p].at # "idle",
             place # "load" => flight[p].token \in Tokens, Scalars, lock' \in Procs \cup {None}
      PROVE  ShapeOK'
  <2>1. Moves(p, place, flight[p].token, flight[p].got, flight[p].answer)
    BY <1>2, GotoEffect
  <2>2. file' \in Files /\ live' \in [1 .. MaxSessions -> Nat] /\ dead' \subseteq Tokens
    BY <1>2 DEF ShapeOK
  <2> QED
    BY <1>2, <2>1, <2>2, ShapeMoved
<1>3. ASSUME NEW p \in Procs, NEW answer \in Answers, Answer(p, answer), flight[p].at \notin {"idle", "load"},
             file' \in Files, UNCHANGED <<live, dead, due, logins, user, lock>>
      PROVE  ShapeOK'
  <2>1. Moves(p, "release", flight[p].token, flight[p].got, answer) /\ flight[p].token \in Tokens
    BY <1>3, AnswerEffect DEF ShapeOK
  <2>2. live' \in [1 .. MaxSessions -> Nat] /\ dead' \subseteq Tokens /\ lock' \in Procs \cup {None}
    BY <1>3 DEF ShapeOK
  <2> QED
    BY <1>3, <2>1, <2>2, ShapeMoved DEF Places
<1>4. CASE \E c \in Calls, p \in Procs, force \in BOOLEAN : ensureFresh(c, p, force)
  <2>1. PICK c \in Calls, p \in Procs, force \in BOOLEAN : call[c].at = "new" /\ Enter(c, p, force)
    BY <1>4 DEF ensureFresh
  <2> QED
    BY <2>1, ShapeEntered
<1>5. CASE \E c \in Calls : EnterAgain(c)
  <2>1. PICK c \in Calls : call[c].at = "queued" /\ Enter(c, call[c].in, call[c].force)
    BY <1>5 DEF EnterAgain
  <2>2. call[c].in \in Procs /\ call[c].force \in BOOLEAN
    BY <2>1 DEF ShapeOK, CallRecords
  <2> QED
    BY <2>1, <2>2, ShapeEntered
<1>6. ASSUME NEW p \in Procs, RefreshStep(p)
      PROVE  ShapeOK'
  <2>0. flight[p] \in Refreshes
    BY DEF ShapeOK
  <2>1. CASE loadState(p)
    <3>1. Scalars /\ lock' = lock /\ flight[p].at = "load"
      BY <2>1 DEF loadState, At
    <3>2. CASE Settle(p, Unauthorized)
      BY <1>1, <3>1, <3>2 DEF Answers, ShapeOK
    <3>3. CASE Valid(flight[p].token) /\ Settle(p, flight[p].token)
      BY <1>1, <3>1, <3>3 DEF Answers, Valid, ShapeOK
    <3>4. CASE Valid(flight[p].token) /\ Goto(p, "lock")
      BY <1>2, <3>1, <3>4 DEF Places, Valid, ShapeOK
    <3> QED
      BY <2>1, <3>2, <3>3, <3>4 DEF loadState
  <2>2. CASE acquireRefreshLock(p)
    <3>1. Scalars /\ lock' = p /\ flight[p].at = "lock" /\ Goto(p, "reread")
      BY <2>2 DEF acquireRefreshLock, At
    <3> QED
      BY <1>2, <3>1 DEF Places, ShapeOK
  <2>3. CASE LockFails(p)
    <3>1. Scalars /\ lock' = lock /\ Settle(p, Failed)
      BY <2>3 DEF LockFails
    <3> QED
      BY <1>1, <3>1 DEF Answers, ShapeOK
  <2>4. CASE afterLock(p)
    <3>1. Scalars /\ lock' = lock /\ flight[p].at = "reread" /\ flight[p].token \in Tokens
      BY <2>4 DEF afterLock, At, ShapeOK
    <3>2. \E at \in {"release", "post"}, token \in Tokens, answer \in Answers :
            Moves(p, at, token, flight[p].got, answer)
      BY <2>0, <2>4, <3>1, AfterLockEffect DEF Valid, Answers, Refreshes
    <3>3. file' \in Files /\ live' \in [1 .. MaxSessions -> Nat] /\ lock' \in Procs \cup {None} /\ dead' \subseteq Tokens
      BY <3>1 DEF ShapeOK
    <3> QED
      BY <3>1, <3>2, <3>3, ShapeMoved DEF Places
  <2>5. CASE PostAccepted(p)
    <3>1. /\ flight[p].at = "post" /\ flight[p].token \in Tokens
          /\ Moves(p, "save", flight[p].token, Rotated(flight[p].token), flight[p].answer)
      BY <2>5, AcceptedEffect DEF PostAccepted, At, ShapeOK
    <3>2. live' \in [1 .. MaxSessions -> Nat]
      BY <2>5, <3>1 DEF PostAccepted, ShapeOK, Tokens
    <3>3. /\ file' \in Files /\ dead' \subseteq Tokens /\ UNCHANGED <<due, logins, user>>
          /\ lock' \in Procs \cup {None}
      BY <2>5, <3>1 DEF PostAccepted, ShapeOK
    <3> QED
      BY <3>1, <3>2, <3>3, ShapeMoved DEF Places
  <2>6. CASE PostRejected(p)
    <3>1. /\ flight[p].at = "post" /\ flight[p].token \in Tokens
          /\ Moves(p, "recover", flight[p].token, flight[p].got, flight[p].answer)
      BY <2>6, GotoEffect DEF PostRejected, At, ShapeOK, Places
    <3>2. /\ file' \in Files /\ dead' \subseteq Tokens /\ UNCHANGED <<due, logins, user>>
          /\ lock' \in Procs \cup {None} /\ live' \in [1 .. MaxSessions -> Nat]
      BY <2>6, <3>1 DEF PostRejected, ShapeOK
    <3> QED
      BY <3>1, <3>2, ShapeMoved DEF Places
  <2>7. CASE \E rotated \in BOOLEAN : PostFails(p, rotated)
    <3>1. PICK rotated \in BOOLEAN : PostFails(p, rotated)
      BY <2>7
    <3>2. flight[p].at = "post" /\ flight[p].token \in Tokens
      BY <3>1 DEF PostFails, At, ShapeOK
    <3>3. /\ file' \in Files /\ dead' \subseteq Tokens /\ UNCHANGED <<due, logins, user>>
          /\ lock' \in Procs \cup {None}
      BY <3>1, <3>2 DEF PostFails, ShapeOK
    <3>4. live' \in [1 .. MaxSessions -> Nat]
      BY <3>1, <3>2 DEF PostFails, ShapeOK, Tokens
    <3>5. CASE Moves(p, "post", flight[p].token, flight[p].got, flight[p].answer)
      BY <3>2, <3>3, <3>4, <3>5, ShapeMoved DEF Places
    <3>6. CASE Moves(p, "release", flight[p].token, flight[p].got, Failed)
      BY <3>2, <3>3, <3>4, <3>6, ShapeMoved DEF Places
    <3> QED
      BY <3>1, <3>5, <3>6, FailsEffect
  <2>8. CASE saveRefreshed(p)
    <3>1. /\ flight[p].at = "save" /\ file' = flight[p].got /\ Answer(p, flight[p].got)
          /\ UNCHANGED <<live, dead, due, logins, user, lock>>
      BY <2>8 DEF saveRefreshed, At
    <3>2. flight[p].got \in Tokens
      <4>1. flight[p].token \in Tokens /\ flight[p].got = Rotated(flight[p].token)
        BY <3>1 DEF ShapeOK
      <4> QED
        BY <4>1 DEF Rotated, Tokens
    <3> QED
      BY <1>3, <3>1, <3>2 DEF Files, Answers
  <2>9. CASE SaveFails(p)
    <3>1. flight[p].at \in {"save", "bury"} /\ Answer(p, Failed) /\ UNCHANGED <<file, live, dead, due, logins, user, lock>>
      BY <2>9 DEF SaveFails
    <3> QED
      BY <1>3, <3>1 DEF Answers, ShapeOK
  <2>10. CASE recovery(p)
    <3>1. flight[p].at = "recover" /\ UNCHANGED <<file, live, dead, due, logins, user, lock>>
      BY <2>10 DEF recovery, At
    <3>2. CASE Valid(file) /\ Answer(p, file)
      BY <1>3, <3>1, <3>2 DEF Answers, Valid, ShapeOK
    <3>3. CASE Goto(p, "bury")
      BY <1>2, <3>1, <3>3 DEF Places, ShapeOK
    <3> QED
      BY <2>10, <3>2, <3>3 DEF recovery
  <2>11. CASE saveTombstone(p)
    <3>1. /\ flight[p].at = "bury" /\ file' = Tombstone /\ Answer(p, Unauthorized)
          /\ UNCHANGED <<live, dead, due, logins, user, lock>>
      BY <2>11 DEF saveTombstone, At
    <3> QED
      BY <1>3, <3>1 DEF Files, Answers
  <2>12. CASE release(p)
    <3>1. Scalars /\ lock' \in Procs \cup {None} /\ Settle(p, flight[p].answer)
      BY <2>12 DEF release, ShapeOK
    <3> QED
      BY <1>1, <2>0, <3>1 DEF Refreshes
  <2> QED
    BY <1>6, <2>1, <2>2, <2>3, <2>4, <2>5, <2>6, <2>7, <2>8, <2>9, <2>10, <2>11, <2>12 DEF RefreshStep
<1>7. CASE \E p \in Procs : Crash(p)
  <2>1. PICK p \in Procs : Crash(p)
    BY <1>7
  <2>2. Scalars /\ lock' \in Procs \cup {None}
    BY <2>1 DEF Crash, ShapeOK
  <2> QED
    BY <2>1, <2>2, CrashEffect, ShapeEnded
<1>8. CASE \E s \in 1 .. MaxSessions : Revoke(s)
  <2>1. UNCHANGED <<file, due, lock, call, flight, user, logins, dead>>
    BY <1>8 DEF Revoke
  <2>2. live' \in [1 .. MaxSessions -> Nat]
    BY <1>8 DEF Revoke, ShapeOK
  <2> QED
    BY <2>1, <2>2 DEF ShapeOK, Rotated
<1>9. CASE login
  <2>1. /\ UNCHANGED <<due, lock, call, flight, dead>> /\ logins < MaxSessions /\ logins' = logins + 1
        /\ user' = logins' /\ file' = [s |-> logins', g |-> 1] /\ live' = [live EXCEPT ![logins'] = 1]
    BY <1>9 DEF login
  <2>2. /\ logins' \in 1 .. MaxSessions /\ user' \in 0 .. logins'
        /\ live' \in [1 .. MaxSessions -> Nat]
    BY <2>1 DEF ShapeOK, ConstantsApart
  <2>3. file' \in Files
    BY <2>1, <2>2 DEF Files, Tokens
  <2> QED
    BY <2>1, <2>2, <2>3 DEF ShapeOK, Rotated
<1>10. CASE logout
  <2>1. UNCHANGED <<live, due, lock, call, flight, logins, dead>> /\ file' = Missing /\ user' = 0
    BY <1>10 DEF logout
  <2> QED
    BY <2>1 DEF ShapeOK, Rotated, Files
<1>11. CASE TimePasses
  <2>1. UNCHANGED <<file, live, lock, call, flight, user, logins, dead>> /\ due' \subseteq Tokens
    BY <1>11 DEF TimePasses, Valid, ShapeOK
  <2> QED
    BY <2>1 DEF ShapeOK, Rotated
<1>12. CASE UNCHANGED vars
  BY <1>12 DEF vars, ShapeOK, Rotated
<1> QED
  BY <1>4, <1>5, <1>6, <1>7, <1>8, <1>9, <1>10, <1>11, <1>12 DEF Next, Done

----------------------------------------------------------------------------
(* Which tokens there can be.                                              *)

LEMMA TokensInit == ConstantsApart /\ Init => TokensOK
<1> SUFFICES ASSUME ConstantsApart, Init PROVE TokensOK
  OBVIOUS
<1>1. /\ file = [s |-> 1, g |-> 1] /\ logins = 1 /\ dead = {}
      /\ live[1] = 1
      /\ \A p \in Procs : flight[p] = IdleFlight
      /\ \A c \in Calls : call[c].saw = None
  BY DEF Init, ConstantsApart
<1>2. Issued(file)
  BY <1>1 DEF Issued, IssuedOf
<1>3. IdleFlight.at = "idle" /\ IdleFlight.token = None /\ IdleFlight.answer = None
  BY DEF IdleFlight
<1> HIDE DEF IdleFlight
<1> QED
  BY <1>1, <1>2, <1>3 DEF TokensOK, ConstantsApart, At, Past

LEMMA RotatedIsToken ==
  ASSUME NEW tok \in Tokens
  PROVE  Rotated(tok) \in Tokens /\ Rotated(tok).s = tok.s /\ Rotated(tok).g = tok.g + 1 /\ tok.s \in 1 .. MaxSessions
         /\ tok.g \in Nat \ {0}
BY DEF Rotated, Tokens

\* Tokens are copied from the file, unless they are new to everybody.
LEMMA TokensKept ==
  ASSUME TokensOK, ShapeOK', file \in Files,
         \A tok \in Tokens : Issued(tok) => IssuedOf(tok, logins', live'),
         \A tok \in dead' : tok.s <= logins' /\ (live'[tok.s] # 0 => tok.g < live'[tok.s]),
         \/ file' = file
         \/ /\ file' \in Tokens => IssuedOf(file', logins', live')
            /\ \A p \in Procs : flight'[p].at = "save" => file' # flight'[p].got,
         \A p \in Procs :
           /\ flight'[p].token \in {flight[p].token, file, None}
           /\ \/ flight'[p].answer \in {flight[p].answer, file, None, Unauthorized, Failed}
              \/ IssuedOf(flight'[p].answer, logins',
                 live') /\ \A q \in Procs : flight'[q].at = "save" => flight'[p].answer # flight'[q].got
           /\ flight'[p].at = "save" =>
                \/ flight[p].at = "save" /\ flight'[p].got = flight[p].got
                \/ /\ IssuedOf(flight'[p].got, logins', live') /\ Unknown(flight[p].got)'
                   /\ \A q \in Procs \ {p} : flight'[q].at = "save" => flight'[q].got # flight'[p].got
           /\ Past(p)' => flight'[p].token \in dead',
         \A c \in Calls : call'[c].saw \in {call[c].saw, file, None}, ConstantsApart
  PROVE  TokensOK'
<1>0. {None, Unauthorized, Failed} \cap Tokens = {}
  BY DEF ConstantsApart
<1>1. file' \in Tokens => IssuedOf(file', logins', live')
  BY DEF TokensOK, Valid, Issued
<1>2. ASSUME NEW p \in Procs
      PROVE  /\ flight'[p].token \in Tokens => IssuedOf(flight'[p].token, logins', live')
             /\ flight'[p].answer \in Tokens => IssuedOf(flight'[p].answer, logins', live')
  <2>1. flight'[p].token \in Tokens => IssuedOf(flight'[p].token, logins', live')
    BY <1>0 DEF TokensOK, Valid, Issued
  <2>2. flight'[p].answer \in Tokens => IssuedOf(flight'[p].answer, logins', live')
    BY <1>0 DEF TokensOK, Valid, Issued
  <2> QED
    BY <2>1, <2>2
<1>3. \A c \in Calls : call'[c].saw \in Tokens => IssuedOf(call'[c].saw, logins', live')
  BY <1>0 DEF TokensOK, Valid, Issued
<1>4. ASSUME NEW p \in Procs, flight'[p].at = "save"
      PROVE  IssuedOf(flight'[p].got, logins', live') /\ Unknown(flight[p].got)'
  <2>1. CASE IssuedOf(flight'[p].got, logins', live') /\ Unknown(flight[p].got)'
    BY <2>1
  <2>2. CASE flight[p].at = "save" /\ flight'[p].got = flight[p].got
    <3>1. flight'[p].got \in Tokens /\ Issued(flight[p].got) /\ Unknown(flight[p].got)
      <4>1. flight'[p].token \in Tokens /\ flight'[p].got = Rotated(flight'[p].token)
        BY <1>4 DEF ShapeOK, Rotated
      <4> QED
        BY <2>2, <4>1, RotatedIsToken DEF TokensOK, At
    <3>2. IssuedOf(flight'[p].got, logins', live')
      BY <2>2, <3>1 DEF Issued
    <3>3. file' # flight'[p].got
      BY <1>4, <2>2, <3>1 DEF Unknown
    <3>4. \A q \in Procs : flight'[q].token # flight'[p].got
      BY <1>0, <2>2, <3>1 DEF Unknown
    <3>5. \A q \in Procs : flight'[q].answer # flight'[p].got
      BY <1>0, <1>4, <2>2, <3>1 DEF Unknown
    <3>6. \A c \in Calls : call'[c].saw # flight'[p].got
      BY <1>0, <2>2, <3>1 DEF Unknown
    <3> QED
      BY <3>2, <3>3, <3>4, <3>5, <3>6 DEF Unknown
  <2> QED
    BY <1>4, <2>1, <2>2
<1>5. ASSUME NEW p \in Procs, NEW q \in Procs, p # q, flight'[p].at = "save", flight'[q].at = "save"
      PROVE  flight'[p].got # flight'[q].got
  BY <1>5 DEF TokensOK, At
<1> QED
  BY <1>1, <1>2, <1>3, <1>4, <1>5 DEF TokensOK, At, Issued, Valid

\* A step of one refresh that takes no new token, when the server's tokens stay
\* or only grow.
LEMMA TokensMoved ==
  ASSUME ConstantsApart, ShapeOK, ShapeOK', TokensOK, NEW p \in Procs,
         NEW at, NEW token, NEW got, NEW answer, Moves(p, at, token, got, answer),
         token \in {flight[p].token, file}, answer \in {flight[p].answer, file, Unauthorized, Failed},
         at # "save",
         at \in {"recover", "bury"} => token \in dead',
         \A tok \in Tokens : IssuedOf(tok, logins, live) => IssuedOf(tok, logins', live'),
         \A tok \in dead' : tok.s <= logins' /\ (live'[tok.s] # 0 => tok.g < live'[tok.s]),
         dead \subseteq dead', file' \in {file, Missing, Tombstone}
  PROVE  TokensOK'
<1>1. /\ call' = call /\ \A q \in Procs \ {p} : flight'[q] = flight[q]
      /\ flight'[p].at = at /\ flight'[p].token = token /\ flight'[p].got = got /\ flight'[p].answer = answer
  BY DEF Moves
<1>2. file \in Files /\ {Missing, Tombstone} \cap Tokens = {}
  BY DEF ShapeOK, ConstantsApart
<1>3. \A tok \in Tokens : Issued(tok) => IssuedOf(tok, logins', live')
  BY DEF Issued
<1>4. \/ file' = file
      \/ /\ file' \in Tokens => IssuedOf(file', logins', live')
         /\ \A q \in Procs : flight'[q].at = "save" => file' # flight'[q].got
  <2>1. \A q \in Procs : flight'[q].at = "save" => flight'[q].got \in Tokens
    BY RotatedIsToken DEF ShapeOK
  <2> QED
    BY <1>2, <2>1
<1>5. ASSUME NEW q \in Procs
      PROVE  /\ flight'[q].token \in {flight[q].token, file, None}
             /\ flight'[q].answer \in {flight[q].answer, file, None, Unauthorized, Failed}
             /\ flight'[q].at = "save" => flight[q].at = "save" /\ flight'[q].got = flight[q].got
             /\ flight'[q].at \in {"save", "recover", "bury"} => flight'[q].token \in dead'
  <2>1. CASE q = p
    BY <1>1, <2>1
  <2>2. CASE q # p
    BY <1>1, <2>2 DEF TokensOK, Past
  <2> QED
    BY <2>1, <2>2
<1>6. \A c \in Calls : call'[c].saw \in {call[c].saw, file, None}
  BY <1>1
<1> QED
  BY <1>2, <1>3, <1>4, <1>5, <1>6, TokensKept DEF Past

\* A refresh ends, or begins, or the user, the clock or the server act; the
\* calls see what the file holds.
LEMMA TokensElsewhere ==
  ASSUME ConstantsApart, ShapeOK, ShapeOK', TokensOK,
         \A tok \in Tokens : IssuedOf(tok, logins, live) => IssuedOf(tok, logins', live'),
         \A tok \in dead : tok.s <= logins' /\ (live'[tok.s] # 0 => tok.g < live'[tok.s]),
         dead' = dead,
         \/ file' = file
         \/ /\ file' \in Tokens => IssuedOf(file', logins', live')
            /\ \A q \in Procs : flight'[q].at = "save" => file' # flight'[q].got,
         \A q \in Procs : \/ flight'[q] = flight[q]
                          \/ /\ flight'[q].at \in {"idle", "load"} /\ flight'[q].token \in {file, None}
                             /\ flight'[q].answer = None,
         \A c \in Calls : call'[c].saw \in {call[c].saw, file, None}
  PROVE  TokensOK'
<1>1. \A tok \in Tokens : Issued(tok) => IssuedOf(tok, logins', live')
  BY DEF Issued
<1>2. ASSUME NEW q \in Procs
      PROVE  /\ flight'[q].token \in {flight[q].token, file, None}
             /\ flight'[q].answer \in {flight[q].answer, file, None, Unauthorized, Failed}
             /\ flight'[q].at = "save" => flight[q].at = "save" /\ flight'[q].got = flight[q].got
             /\ flight'[q].at \in {"save", "recover", "bury"} => flight'[q].token \in dead'
  BY DEF TokensOK, Past
<1>3. file \in Files
  BY DEF ShapeOK
<1> QED
  BY <1>1, <1>2, <1>3, TokensKept DEF Past

\* The server only ever moves on.
LEMMA LiveMoves ==
  ASSUME ShapeOK, NEW s \in 1 .. MaxSessions, NEW n \in Nat, live' = [live EXCEPT ![s] = n],
         n = 0 \/ n >= live[s] \/ live[s] = 0, logins' \in Nat, logins <= logins',
         live[s] = 0 /\ n # 0 => s > logins
  PROVE  /\ \A tok \in Tokens : IssuedOf(tok, logins, live) => IssuedOf(tok, logins', live')
         /\ \A tok \in Tokens : tok.s <= logins /\ (live[tok.s] # 0 => tok.g < live[tok.s])
                                  => tok.s <= logins' /\ (live'[tok.s] # 0 => tok.g < live'[tok.s])
<1>1. live \in [1 .. MaxSessions -> Nat] /\ logins \in Nat
  BY DEF ShapeOK
<1>2. \A t \in 1 .. MaxSessions : live'[t] = IF t = s THEN n ELSE live[t]
  BY <1>1
<1>3. \A tok \in Tokens : tok.s \in 1 .. MaxSessions /\ tok.g \in Nat
  BY DEF Tokens
<1> QED
  BY <1>1, <1>2, <1>3 DEF IssuedOf

LEMMA RotationBounds ==
  ASSUME ShapeOK, TokensOK, NEW tok \in Tokens, Accepts(tok),
         live' = [live EXCEPT ![tok.s] = @ + 1], dead' = dead \cup {tok}, logins' = logins,
         IssuedOf(tok, logins, live)
  PROVE  /\ \A t \in Tokens : IssuedOf(t, logins, live) => IssuedOf(t, logins', live')
         /\ \A t \in dead' : t.s <= logins' /\ (live'[t.s] # 0 => t.g < live'[t.s])
         /\ dead \subseteq dead'
<1>1. /\ live \in [1 .. MaxSessions -> Nat] /\ logins \in Nat /\ tok.s \in 1 .. MaxSessions
      /\ tok.g \in Nat \ {0} /\ live[tok.s] = tok.g /\ dead \subseteq Tokens
  BY RotatedIsToken DEF ShapeOK, Accepts
<1> DEFINE n == live[tok.s] + 1
<1>2. /\ live' = [live EXCEPT ![tok.s] = n] /\ n \in Nat /\ n >= live[tok.s] /\ live[tok.s] # 0
      /\ logins' \in Nat /\ logins <= logins' /\ n = tok.g + 1
  BY <1>1
<1> HIDE DEF n
<1>3. /\ \A t \in Tokens : IssuedOf(t, logins, live) => IssuedOf(t, logins', live')
      /\ \A t \in Tokens : t.s <= logins /\ (live[t.s] # 0 => t.g < live[t.s])
                                  => t.s <= logins' /\ (live'[t.s] # 0 => t.g < live'[t.s])
  BY <1>1, <1>2, LiveMoves
<1>4. tok.s <= logins' /\ tok.g < live'[tok.s]
  BY <1>1, <1>2 DEF IssuedOf
<1> QED
  BY <1>1, <1>3, <1>4 DEF TokensOK

\* The new token is known to the refresh alone.
LEMMA TokensRotated ==
  ASSUME ConstantsApart, ShapeOK, ShapeOK', TokensOK, NEW p \in Procs, PostAccepted(p)
  PROVE  TokensOK'
<1> DEFINE tok == flight[p].token
           new == Rotated(tok)
<1>1. /\ tok \in Tokens /\ new \in Tokens /\ Accepts(tok) /\ Issued(tok)
      /\ live' = [live EXCEPT ![tok.s] = @ + 1] /\ dead' = dead \cup {tok}
      /\ UNCHANGED <<file, logins>>
  BY AcceptedEffect DEF PostAccepted, At, ShapeOK, TokensOK
<1>2. /\ call' = call /\ \A q \in Procs \ {p} : flight'[q] = flight[q]
      /\ flight'[p].at = "save" /\ flight'[p].token = tok /\ flight'[p].got = new
      /\ flight'[p].answer = flight[p].answer
  BY AcceptedEffect DEF Moves
<1>3. /\ \A t \in Tokens : Issued(t) => IssuedOf(t, logins', live')
      /\ \A t \in dead' : t.s <= logins' /\ (live'[t.s] # 0 => t.g < live'[t.s])
      /\ dead \subseteq dead'
  BY <1>1, RotationBounds DEF Issued
<1>4. /\ tok.s \in 1 .. MaxSessions /\ tok.g \in Nat \ {0} /\ new.s = tok.s /\ new.g = tok.g + 1
      /\ live \in [1 .. MaxSessions -> Nat] /\ live[tok.s] = tok.g
  BY <1>1, RotatedIsToken DEF ShapeOK, Accepts
<1>5. live'[tok.s] = tok.g + 1
  BY <1>1, <1>4
<1>6. IssuedOf(new, logins', live')
  BY <1>1, <1>4, <1>5 DEF Issued, IssuedOf
<1>7. \A t \in Tokens : Issued(t) => t # new
  BY <1>4 DEF Issued, IssuedOf
<1> HIDE DEF new, tok
<1>8. Unknown(flight[p].got)'
  <2>1. file' # new
    BY <1>1, <1>7 DEF TokensOK, Valid
  <2>2. \A q \in Procs : flight'[q].token # new /\ flight'[q].answer # new
    BY <1>1, <1>2, <1>7 DEF TokensOK
  <2>3. \A c \in Calls : call'[c].saw # new
    BY <1>1, <1>2, <1>7 DEF TokensOK
  <2> QED
    BY <1>2, <2>1, <2>2, <2>3 DEF Unknown
<1>9. \A q \in Procs \ {p} : flight'[q].at = "save" => flight'[q].got # new
  <2>1. \A q \in Procs \ {p} : flight'[q].at = "save" => flight[q].got \in Tokens /\ Issued(flight[q].got)
    BY <1>2, RotatedIsToken DEF ShapeOK, TokensOK, At
  <2> QED
    BY <1>2, <1>7, <2>1
<1>10. ASSUME NEW q \in Procs
       PROVE  /\ flight'[q].token = flight[q].token /\ flight'[q].answer = flight[q].answer
              /\ flight'[q].at = "save" =>
                \/ flight[q].at = "save" /\ flight'[q].got = flight[q].got
                \/ /\ IssuedOf(flight'[q].got, logins', live') /\ Unknown(flight[q].got)'
                   /\ \A r \in Procs \ {q} : flight'[r].at = "save" => flight'[r].got # flight'[q].got
              /\ flight'[q].at \in {"save", "recover", "bury"} => flight'[q].token \in dead'
  <2>1. CASE q = p
    BY <1>1, <1>2, <1>6, <1>8, <1>9, <2>1 DEF tok
  <2>2. CASE q # p
    BY <1>2, <1>3, <2>2 DEF TokensOK, Past
  <2> QED
    BY <2>1, <2>2
<1>11. file \in Files
  BY DEF ShapeOK
<1> QED
  BY <1>1, <1>2, <1>3, <1>10, <1>11, TokensKept DEF Past

\* The new token becomes the file's.
LEMMA TokensSaved ==
  ASSUME ConstantsApart, ShapeOK, ShapeOK', TokensOK, NEW p \in Procs, saveRefreshed(p)
  PROVE  TokensOK'
<1> DEFINE new == flight[p].got
<1>1. /\ flight[p].at = "save" /\ file' = new /\ Answer(p, new) /\ UNCHANGED <<live, dead, logins>>
  BY DEF saveRefreshed, At
<1>2. new \in Tokens /\ Issued(new) /\ file \in Files
  BY <1>1, RotatedIsToken DEF ShapeOK, TokensOK, At
<1>3. /\ call' = call /\ \A q \in Procs \ {p} : flight'[q] = flight[q]
      /\ flight'[p].at = "release" /\ flight'[p].token = flight[p].token /\ flight'[p].answer = new
  BY <1>1, <1>2, AnswerEffect DEF Moves, Answers
<1>4. \A q \in Procs : flight'[q].at = "save" => flight'[q].got # new
  BY <1>1, <1>3 DEF TokensOK, At
<1>5. IssuedOf(new, logins', live') /\ \A t \in Tokens : Issued(t) => IssuedOf(t, logins', live')
  BY <1>1, <1>2 DEF Issued
<1> HIDE DEF new
<1>6. ASSUME NEW q \in Procs
      PROVE  /\ flight'[q].token = flight[q].token
             /\ \/ flight'[q].answer = flight[q].answer
                \/ IssuedOf(flight'[q].answer, logins',
                   live') /\ \A r \in Procs : flight'[r].at = "save" => flight'[q].answer # flight'[r].got
             /\ flight'[q].at = "save" => flight[q].at = "save" /\ flight'[q].got = flight[q].got
             /\ flight'[q].at \in {"save", "recover", "bury"} => flight'[q].token \in dead'
  <2>1. CASE q = p
    BY <1>3, <1>4, <1>5, <2>1
  <2>2. CASE q # p
    BY <1>1, <1>3, <2>2 DEF TokensOK, Past
  <2> QED
    BY <2>1, <2>2
<1>7. \A t \in dead' : t.s <= logins' /\ (live'[t.s] # 0 => t.g < live'[t.s])
  BY <1>1 DEF TokensOK
<1> QED
  BY <1>1, <1>2, <1>3, <1>4, <1>5, <1>6, <1>7, TokensKept DEF Past

LEMMA TokensStep ==
  ASSUME ConstantsApart, ShapeOK, ShapeOK', TokensOK, [Next]_vars
  PROVE  TokensOK'
<1>1. \A tok \in dead : tok \in Tokens /\ tok.s <= logins /\ (live[tok.s] # 0 => tok.g < live[tok.s])
  BY DEF TokensOK, ShapeOK
<1> DEFINE Elsewhere == UNCHANGED <<live, logins, dead>>
<1>2. ASSUME NEW p \in Procs, NEW answer \in Answers, Settle(p, answer), Elsewhere, UNCHANGED file
      PROVE  TokensOK'
  <2>1. /\ \A q \in Procs \ {p} : flight'[q] = flight[q]
        /\ flight'[p].at = "idle" /\ flight'[p].token = None /\ flight'[p].answer = None
        /\ \A c \in Calls : call'[c].saw = call[c].saw
    BY <1>2, SettleEffect DEF IdleFlight
  <2> QED
    BY <1>1, <1>2, <2>1, TokensElsewhere
<1>3. ASSUME NEW c \in Calls, NEW p \in Procs, NEW force \in BOOLEAN, Enter(c, p, force)
      PROVE  TokensOK'
  <2>1. /\ \A d \in Calls : call'[d].saw \in {call[d].saw, file}
        /\ \A q \in Procs : \/ flight'[q] = flight[q]
                            \/ flight'[q].at = "load" /\ flight'[q].token = file /\ flight'[q].answer = None
    BY <1>3, EnterEffect
  <2>2. Elsewhere /\ file' = file
    BY <1>3 DEF Enter
  <2> QED
    BY <1>1, <2>1, <2>2, TokensElsewhere
<1>4. CASE \E c \in Calls, p \in Procs, force \in BOOLEAN : ensureFresh(c, p, force)
  BY <1>3, <1>4 DEF ensureFresh
<1>5. CASE \E c \in Calls : EnterAgain(c)
  <2>1. PICK c \in Calls : call[c].at = "queued" /\ Enter(c, call[c].in, call[c].force)
    BY <1>5 DEF EnterAgain
  <2>2. call[c].in \in Procs /\ call[c].force \in BOOLEAN
    BY <2>1 DEF ShapeOK, CallRecords
  <2> QED
    BY <1>3, <2>1, <2>2
<1>6. ASSUME NEW p \in Procs, RefreshStep(p)
      PROVE  TokensOK'
  <2>0. flight[p] \in Refreshes
    BY DEF ShapeOK
  <2> DEFINE f == flight[p]
             Steady == Elsewhere /\ file' \in {file, Tombstone}
  <2>a. ASSUME NEW at, NEW answer, Moves(p, at, f.token, f.got, answer), Steady, at # "save",
               answer \in {f.answer, file, Unauthorized, Failed}, at \in {"recover", "bury"} => f.token \in dead
        PROVE  TokensOK'
    BY <1>1, <2>a, TokensMoved
  <2>1. CASE loadState(p)
    <3>1. Elsewhere /\ file' = file
      BY <2>1 DEF loadState
    <3>2. CASE Settle(p, Unauthorized)
      BY <1>2, <3>1, <3>2 DEF Answers
    <3>3. CASE Valid(f.token) /\ Settle(p, f.token)
      BY <1>2, <3>1, <3>3 DEF Answers, Valid
    <3>4. CASE Goto(p, "lock")
      <4>1. Moves(p, "lock", f.token, f.got, f.answer)
        BY <3>4, GotoEffect DEF Places
      <4> QED
        BY <2>a, <3>1, <4>1
    <3> QED
      BY <2>1, <3>2, <3>3, <3>4 DEF loadState
  <2>2. CASE acquireRefreshLock(p)
    <3>1. Elsewhere /\ file' = file /\ Goto(p, "reread")
      BY <2>2 DEF acquireRefreshLock
    <3>2. Moves(p, "reread", f.token, f.got, f.answer)
      BY <3>1, GotoEffect DEF Places
    <3> QED
      BY <2>a, <3>1, <3>2
  <2>3. CASE LockFails(p)
    BY <1>2, <2>3 DEF LockFails, Answers
  <2>4. CASE afterLock(p)
    <3>1. Elsewhere /\ file' = file
      BY <2>4 DEF afterLock
    <3>2. \/ Moves(p, "release", f.token, f.got, Unauthorized)
          \/ Moves(p, "post", f.token, f.got, f.answer)
          \/ Moves(p, "release", f.token, f.got, file)
          \/ Moves(p, "post", file, f.got, f.answer)
      BY <2>4, AfterLockEffect
    <3>3. CASE Moves(p, "post", file, f.got, f.answer)
      BY <1>1, <3>1, <3>3, TokensMoved
    <3> QED
      BY <2>a, <3>1, <3>2, <3>3
  <2>5. CASE PostAccepted(p)
    BY <2>5, TokensRotated
  <2>6. CASE PostRejected(p)
    <3>1. /\ Moves(p, "recover", f.token, f.got, f.answer) /\ f.at = "post" /\ f.token \in Tokens
          /\ ~Accepts(f.token) /\ dead' = dead \cup {f.token} /\ UNCHANGED <<file, live, logins>>
      BY <2>6, GotoEffect DEF PostRejected, At, ShapeOK, Places
    <3>2. Issued(f.token) /\ f.token.g \in Nat /\ f.token.s \in 1 .. MaxSessions /\ live \in [1 .. MaxSessions -> Nat]
      BY <3>1, RotatedIsToken DEF TokensOK, ShapeOK
    <3>3. \A tok \in dead' : tok.s <= logins' /\ (live'[tok.s] # 0 => tok.g < live'[tok.s])
      BY <1>1, <3>1, <3>2 DEF Issued, IssuedOf, Accepts
    <3> QED
      BY <3>1, <3>3, TokensMoved
  <2>7. CASE \E rotated \in BOOLEAN : PostFails(p, rotated)
    <3>1. PICK rotated \in BOOLEAN : PostFails(p, rotated)
      BY <2>7
    <3>2. f.at = "post" /\ f.token \in Tokens /\ UNCHANGED <<file, logins>>
      BY <3>1 DEF PostFails, At, ShapeOK
    <3>3. /\ \A tok \in Tokens : IssuedOf(tok, logins, live) => IssuedOf(tok, logins', live')
          /\ \A tok \in dead' : tok.s <= logins' /\ (live'[tok.s] # 0 => tok.g < live'[tok.s])
          /\ dead \subseteq dead'
      <4>1. CASE rotated
        <5>1. /\ Accepts(f.token) /\ live' = [live EXCEPT ![f.token.s] = @ + 1]
              /\ dead' = dead \cup {f.token} /\ logins' = logins
          BY <3>1, <3>2, <4>1 DEF PostFails
        <5>2. IssuedOf(f.token, logins, live)
          BY <3>2 DEF TokensOK, Issued
        <5> QED
          BY <3>2, <5>1, <5>2, RotationBounds
      <4>2. CASE ~rotated
        BY <1>1, <3>1, <3>2, <4>2 DEF PostFails
      <4> QED
        BY <4>1, <4>2
    <3>4. CASE Moves(p, "post", f.token, f.got, f.answer)
      BY <3>2, <3>3, <3>4, TokensMoved
    <3>5. CASE Moves(p, "release", f.token, f.got, Failed)
      BY <3>2, <3>3, <3>5, TokensMoved
    <3> QED
      BY <3>1, <3>4, <3>5, FailsEffect
  <2>8. CASE saveRefreshed(p)
    BY <2>8, TokensSaved
  <2>9. CASE SaveFails(p)
    <3>1. Elsewhere /\ file' = file /\ Answer(p, Failed)
      BY <2>9 DEF SaveFails
    <3>2. Moves(p, "release", f.token, f.got, Failed)
      BY <3>1, AnswerEffect DEF Answers
    <3> QED
      BY <2>a, <3>1, <3>2
  <2>10. CASE recovery(p)
    <3>1. Elsewhere /\ file' = file /\ f.token \in dead
      BY <2>10 DEF recovery, TokensOK, Past, At
    <3>2. CASE Valid(file) /\ Answer(p, file)
      <4>1. Moves(p, "release", f.token, f.got, file)
        BY <3>2, AnswerEffect DEF Answers, Valid
      <4> QED
        BY <2>a, <3>1, <4>1
    <3>3. CASE Goto(p, "bury")
      <4>1. Moves(p, "bury", f.token, f.got, f.answer)
        BY <3>3, GotoEffect DEF Places
      <4> QED
        BY <2>a, <3>1, <4>1
    <3> QED
      BY <2>10, <3>2, <3>3 DEF recovery
  <2>11. CASE saveTombstone(p)
    <3>1. Elsewhere /\ file' = Tombstone /\ Answer(p, Unauthorized)
      BY <2>11 DEF saveTombstone
    <3>2. Moves(p, "release", f.token, f.got, Unauthorized)
      BY <3>1, AnswerEffect DEF Answers
    <3> QED
      BY <2>a, <3>1, <3>2
  <2>12. CASE release(p)
    <3>1. Elsewhere /\ file' = file /\ Settle(p, f.answer) /\ f.answer \in Answers
      BY <2>0, <2>12 DEF release, Refreshes
    <3> QED
      BY <1>2, <3>1
  <2> QED
    BY <1>6, <2>1, <2>2, <2>3, <2>4, <2>5, <2>6, <2>7, <2>8, <2>9, <2>10, <2>11, <2>12 DEF RefreshStep
<1>7. CASE \E p \in Procs : Crash(p)
  <2>1. PICK p \in Procs : Crash(p)
    BY <1>7
  <2>2. Elsewhere /\ file' = file
    BY <2>1 DEF Crash
  <2>3. /\ \A q \in Procs \ {p} : flight'[q] = flight[q]
        /\ flight'[p].at = "idle" /\ flight'[p].token = None /\ flight'[p].answer = None
        /\ \A c \in Calls : call'[c].saw = call[c].saw
    BY <2>1, CrashEffect DEF IdleFlight
  <2> QED
    BY <1>1, <2>2, <2>3, TokensElsewhere
<1>8. CASE \E s \in 1 .. MaxSessions : Revoke(s)
  <2>1. PICK s \in 1 .. MaxSessions : Revoke(s)
    BY <1>8
  <2>2. UNCHANGED <<file, call, flight, logins, dead>> /\ live' = [live EXCEPT ![s] = 0]
    BY <2>1 DEF Revoke
  <2>3. logins' \in Nat /\ logins <= logins' /\ 0 \in Nat
    BY <2>2 DEF ShapeOK
  <2>4. /\ \A tok \in Tokens : IssuedOf(tok, logins, live) => IssuedOf(tok, logins', live')
        /\ \A tok \in dead : tok.s <= logins' /\ (live'[tok.s] # 0 => tok.g < live'[tok.s])
    BY <1>1, <2>2, <2>3, LiveMoves
  <2> QED
    BY <2>2, <2>4, TokensElsewhere
<1>9. CASE login
  <2>1. /\ UNCHANGED <<call, flight, dead>> /\ logins' = logins + 1
        /\ file' = [s |-> logins', g |-> 1] /\ live' = [live EXCEPT ![logins'] = 1]
    BY <1>9 DEF login
  <2>2. logins \in Nat /\ logins' \in 1 .. MaxSessions /\ logins < logins' /\ live \in [1 .. MaxSessions -> Nat]
    BY <2>1 DEF ShapeOK
  <2>3. /\ \A tok \in Tokens : IssuedOf(tok, logins, live) => IssuedOf(tok, logins', live')
        /\ \A tok \in dead : tok.s <= logins' /\ (live'[tok.s] # 0 => tok.g < live'[tok.s])
    BY <1>1, <2>1, <2>2 DEF IssuedOf, Tokens
  <2>4. IssuedOf(file', logins', live')
    BY <2>1, <2>2 DEF IssuedOf
  <2>5. \A q \in Procs : flight'[q].at = "save" => file' # flight'[q].got
    BY <2>1, <2>2 DEF TokensOK, At, Issued, IssuedOf
  <2> QED
    BY <2>1, <2>3, <2>4, <2>5, TokensElsewhere
<1>10. CASE logout
  <2>1. UNCHANGED <<live, call, flight, logins, dead>> /\ file' = Missing /\ Missing \notin Tokens
    BY <1>10 DEF logout, ConstantsApart
  <2>2. \A q \in Procs : flight'[q].at = "save" => file' # flight'[q].got
    BY <2>1, RotatedIsToken DEF ShapeOK
  <2> QED
    BY <1>1, <2>1, <2>2, TokensElsewhere
<1>11. CASE TimePasses \/ UNCHANGED vars
  <2>1. UNCHANGED <<file, live, call, flight, logins, dead>>
    BY <1>11 DEF TimePasses, vars
  <2> QED
    BY <1>1, <2>1, TokensElsewhere
<1> QED
  BY <1>4, <1>5, <1>6, <1>7, <1>8, <1>9, <1>10, <1>11 DEF Next, Done

----------------------------------------------------------------------------
(* What each step of a refresh does, besides the records of the others.    *)

\* The refresh of p is over; its calls in one of the places have the answer.
Ended(p, answer, places) ==
  /\ \A q \in Procs \ {p} : flight'[q] = flight[q]
  /\ flight'[p].at = "idle" /\ flight'[p].force = FALSE /\ flight'[p].token = None /\ flight'[p].answer = None
  /\ \A c \in Calls :
       IF call[c].in = p /\ call[c].at \in places
       THEN /\ call'[c].at = "done" /\ call'[c].answer = answer
            /\ call'[c].in = call[c].in /\ call'[c].force = call[c].force /\ call'[c].saw = call[c].saw
       ELSE call'[c] = call[c]

LEMMA SettleEnds ==
  ASSUME ShapeOK, NEW p \in Procs, NEW answer \in Answers, Settle(p, answer)
  PROVE  Ended(p, answer, {"led", "joined"})
BY SettleEffect DEF Ended, IdleFlight

LEMMA CrashEnds ==
  ASSUME ShapeOK, NEW p \in Procs, Crash(p)
  PROVE  /\ Ended(p, Failed, {"led", "joined", "queued"}) /\ burned \subseteq burned'
         /\ Past(p) => flight[p].token \in burned'
         /\ UNCHANGED <<file, lock, user, dead, again, odd>>
<1>1. Ended(p, Failed, {"led", "joined", "queued"})
  BY CrashEffect DEF Ended, IdleFlight
<1>2. /\ burned \subseteq burned' /\ (Past(p) => flight[p].token \in burned')
      /\ UNCHANGED <<file, lock, user, dead, again, odd>>
  BY DEF Crash, Past
<1> QED
  BY <1>1, <1>2

LEMMA LoadEffect ==
  ASSUME ShapeOK, NEW p \in Procs, loadState(p)
  PROVE  LET f == flight[p] IN
         /\ f.at = "load" /\ UNCHANGED <<file, lock, user, dead, again, burned, odd>>
         /\ \/ Ended(p, Unauthorized, {"led", "joined"})
            \/ Valid(f.token) /\ ~f.force /\ Ended(p, f.token, {"led", "joined"})
            \/ Moves(p, "lock", f.token, f.got, f.answer)
<1>1. flight[p].at = "load" /\ UNCHANGED <<file, lock, user, dead, again, burned, odd>>
  BY DEF loadState, At
<1>2. CASE Settle(p, Unauthorized)
  BY <1>1, <1>2, SettleEnds DEF Answers
<1>3. CASE Valid(flight[p].token) /\ ~shouldRefreshToken(flight[p].token, flight[p].force) /\ Settle(p, flight[p].token)
  <2>1. Ended(p, flight[p].token, {"led", "joined"})
    BY <1>3, SettleEnds DEF Answers, Valid
  <2> QED
    BY <1>1, <1>3, <2>1 DEF shouldRefreshToken
<1>4. CASE Goto(p, "lock")
  BY <1>1, <1>4, GotoEffect DEF Places
<1> QED
  BY <1>2, <1>3, <1>4 DEF loadState

LEMMA AcquireEffect ==
  ASSUME ShapeOK, NEW p \in Procs, acquireRefreshLock(p)
  PROVE  LET f == flight[p] IN
         /\ f.at = "lock" /\ lock' = p /\ Moves(p, "reread", f.token, f.got, f.answer)
         /\ IF lock # None /\ Alive(lock) THEN odd' = odd \cup {"stolen"} ELSE odd' = odd
         /\ UNCHANGED <<file, user, dead, again, burned>>
BY GotoEffect DEF acquireRefreshLock, At, Places

LEMMA LockFailsEffect ==
  ASSUME ShapeOK, NEW p \in Procs, LockFails(p)
  PROVE  /\ flight[p].at = "lock" /\ Ended(p, Failed, {"led", "joined"})
         /\ UNCHANGED <<file, lock, user, dead, again, burned, odd>>
BY SettleEnds DEF LockFails, At, Answers

LEMMA AfterLockRest ==
  ASSUME NEW p \in Procs, afterLock(p)
  PROVE  flight[p].at = "reread" /\ UNCHANGED <<file, live, lock, user, dead, again>>
BY DEF afterLock, At

\* A request has been answered, or has failed, the server's rotation perhaps lost.
LEMMA PresentedEffect ==
  ASSUME ShapeOK, NEW p \in Procs, PostAccepted(p) \/ PostRejected(p) \/ \E rotated \in BOOLEAN : PostFails(p, rotated)
  PROVE  LET f == flight[p] IN
         /\ f.at = "post" /\ f.token \in Tokens /\ UNCHANGED <<file, lock, user, odd>>
         /\ again' = IF f.token \in dead THEN again \cup {f.token} ELSE again
         /\ \/ /\ Moves(p, "save", f.token, Rotated(f.token), f.answer) /\ Accepts(f.token)
               /\ dead' = dead \cup {f.token} /\ burned' = burned
            \/ /\ Moves(p, "recover", f.token, f.got, f.answer)
               /\ dead' = dead \cup {f.token} /\ burned' = burned
            \/ /\ Moves(p, "post", f.token, f.got, f.answer) \/ Moves(p, "release", f.token, f.got, Failed)
               /\ \/ dead' = dead /\ burned' = burned
                  \/ dead' = dead \cup {f.token} /\ burned' = burned \cup {f.token}
<1>1. flight[p].at = "post" => flight[p].token \in Tokens
  BY DEF ShapeOK
<1>2. CASE PostAccepted(p)
  BY <1>1, <1>2, AcceptedEffect DEF PostAccepted, Presented, At
<1>3. CASE PostRejected(p)
  BY <1>1, <1>3, GotoEffect DEF PostRejected, Presented, At, Places
<1>4. CASE \E rotated \in BOOLEAN : PostFails(p, rotated)
  <2>1. PICK rotated \in BOOLEAN : PostFails(p, rotated)
    BY <1>4
  <2>2. \/ Moves(p, "post", flight[p].token, flight[p].got, flight[p].answer)
        \/ Moves(p, "release", flight[p].token, flight[p].got, Failed)
    BY <2>1, FailsEffect
  <2>3. /\ flight[p].at = "post" /\ UNCHANGED <<file, lock, user, odd>>
        /\ again' = IF flight[p].token \in dead THEN again \cup {flight[p].token} ELSE again
    BY <2>1 DEF PostFails, Presented, At
  <2>4. \/ dead' = dead /\ burned' = burned
        \/ dead' = dead \cup {flight[p].token} /\ burned' = burned \cup {flight[p].token}
    BY <2>1 DEF PostFails
  <2> QED
    BY <1>1, <2>2, <2>3, <2>4
<1> QED
  BY <1>2, <1>3, <1>4

LEMMA SavedEffect ==
  ASSUME ShapeOK, NEW p \in Procs, saveRefreshed(p)
  PROVE  LET f == flight[p] IN
         /\ f.at = "save" /\ f.got \in Tokens /\ f.got.s = f.token.s /\ f.token \in Tokens
         /\ file' = f.got /\ Moves(p, "release", f.token, f.got, f.got)
         /\ UNCHANGED <<lock, user, dead, again, burned, odd>>
<1>1. flight[p].at = "save" /\ file' = flight[p].got /\ Answer(p, flight[p].got)
      /\ UNCHANGED <<lock, user, dead, again, burned, odd>>
  BY DEF saveRefreshed, At
<1>2. flight[p].token \in Tokens /\ flight[p].got = Rotated(flight[p].token)
  BY <1>1 DEF ShapeOK
<1>3. flight[p].got \in Tokens /\ flight[p].got.s = flight[p].token.s
  BY <1>2, RotatedIsToken
<1> QED
  BY <1>1, <1>2, <1>3, AnswerEffect DEF Answers

LEMMA SaveFailsEffect ==
  ASSUME ShapeOK, NEW p \in Procs, SaveFails(p)
  PROVE  LET f == flight[p] IN
         /\ f.at \in {"save", "bury"} /\ Moves(p, "release", f.token, f.got, Failed)
         /\ burned' = burned \cup {f.token} /\ UNCHANGED <<file, lock, user, dead, again, odd>>
BY AnswerEffect DEF SaveFails, Answers

LEMMA RecoveryEffect ==
  ASSUME ShapeOK, NEW p \in Procs, recovery(p)
  PROVE  LET f == flight[p] IN
         /\ f.at = "recover" /\ UNCHANGED <<file, lock, user, dead, again, burned, odd>>
         /\ \/ Valid(file) /\ file # f.token /\ Moves(p, "release", f.token, f.got, file)
            \/ Moves(p, "bury", f.token, f.got, f.answer)
<1>1. flight[p].at = "recover" /\ UNCHANGED <<file, lock, user, dead, again, burned, odd>>
  BY DEF recovery, At
<1>2. CASE Valid(file) /\ file # flight[p].token /\ Answer(p, file)
  BY <1>1, <1>2, AnswerEffect DEF Valid, Answers
<1>3. CASE Goto(p, "bury")
  BY <1>1, <1>3, GotoEffect DEF Places
<1> QED
  BY <1>2, <1>3 DEF recovery

LEMMA BuryEffect ==
  ASSUME ShapeOK, NEW p \in Procs, saveTombstone(p)
  PROVE  LET f == flight[p] IN
         /\ f.at = "bury" /\ file' = Tombstone /\ Moves(p, "release", f.token, f.got, Unauthorized)
         /\ UNCHANGED <<lock, user, dead, again, burned, odd>>
BY AnswerEffect DEF saveTombstone, Answers, At

LEMMA ReleaseEffect ==
  ASSUME ShapeOK, NEW p \in Procs, release(p)
  PROVE  /\ flight[p].at = "release" /\ Ended(p, flight[p].answer, {"led", "joined"})
         /\ lock' = IF lock = p THEN None ELSE lock
         /\ UNCHANGED <<file, user, dead, again, burned, odd>>
<1>1. flight[p].answer \in Answers
  BY DEF ShapeOK, Refreshes
<1> QED
  BY <1>1, SettleEnds DEF release, At

LEMMA EnterRest ==
  ASSUME NEW c \in Calls, NEW p \in Procs, NEW force \in BOOLEAN, Enter(c, p, force)
  PROVE  /\ UNCHANGED <<file, live, lock, user, logins, dead, again, burned>>
         /\ odd' \in {odd, odd \cup {"late"}}
BY DEF Enter

\* The user, the clock and the server do not touch the refreshes.
Quiet == UNCHANGED <<lock, call, flight, dead, again, burned>>

LEMMA QuietSteps ==
  ASSUME login \/ logout \/ TimePasses \/ (\E s \in 1 .. MaxSessions : Revoke(s)) \/ Done \/ UNCHANGED vars
  PROVE  /\ Quiet /\ ("stolen" \in odd' <=> "stolen" \in odd) /\ ("late" \in odd' <=> "late" \in odd)
         /\ \/ login \/ logout
            \/ UNCHANGED <<file, user, odd>>
BY DEF Quiet, login, logout, Raced, TimePasses, Revoke, Done, vars

----------------------------------------------------------------------------
(* Who is past the lock holds it, unless it was taken from a live process. *)

LEMMA LockInit == Init => LockOK
BY DEF Init, LockOK, Inside, IdleFlight

LEMMA LockStep ==
  ASSUME ConstantsApart, ShapeOK, LockOK, [Next]_vars
  PROVE  LockOK'
<1>1. ASSUME NEW p \in Procs, RefreshStep(p)
      PROVE  LockOK'
  <2>1. CASE loadState(p)
    BY <2>1, LoadEffect DEF Moves, Ended, LockOK, Inside
  <2>2. CASE acquireRefreshLock(p)
    <3>1. lock' = p /\ (\A q \in Procs \ {p} : flight'[q] = flight[q])
          /\ IF lock # None /\ Alive(lock) THEN odd' = odd \cup {"stolen"} ELSE odd' = odd
      BY <2>2, AcquireEffect DEF Moves
    <3>2. "stolen" \in odd' \/ \A q \in Procs \ {p} : ~Inside(q)
      BY <3>1 DEF LockOK, Inside, Alive, ConstantsApart
    <3> QED
      BY <3>1, <3>2 DEF LockOK, Inside
  <2>3. CASE LockFails(p)
    BY <2>3, LockFailsEffect DEF Ended, LockOK, Inside
  <2>4. CASE afterLock(p)
    <3>1. flight[p].at = "reread" /\ lock' = lock
      BY <2>4, AfterLockRest
    <3>2. odd' \in {odd, odd \cup {"fallback"}} /\ \A q \in Procs \ {p} : flight'[q] = flight[q]
      BY <2>4, AfterLockEffect DEF Moves
    <3> QED
      BY <3>1, <3>2 DEF LockOK, Inside
  <2>5. CASE PostAccepted(p) \/ PostRejected(p) \/ \E rotated \in BOOLEAN : PostFails(p, rotated)
    <3>1. /\ flight[p].at = "post" /\ UNCHANGED <<lock, odd>>
          /\ \A q \in Procs \ {p} : flight'[q] = flight[q]
      BY <2>5, PresentedEffect DEF Moves
    <3> QED
      BY <3>1 DEF LockOK, Inside
  <2>6. CASE saveRefreshed(p)
    BY <2>6, SavedEffect DEF Moves, LockOK, Inside
  <2>7. CASE SaveFails(p)
    BY <2>7, SaveFailsEffect DEF Moves, LockOK, Inside
  <2>8. CASE recovery(p)
    BY <2>8, RecoveryEffect DEF Moves, LockOK, Inside
  <2>9. CASE saveTombstone(p)
    BY <2>9, BuryEffect DEF Moves, LockOK, Inside
  <2>10. CASE release(p)
    BY <2>10, ReleaseEffect DEF Ended, LockOK, Inside
  <2> QED
    BY <1>1, <2>1, <2>2, <2>3, <2>4, <2>5, <2>6, <2>7, <2>8, <2>9, <2>10 DEF RefreshStep
<1>2. ASSUME NEW c \in Calls, NEW p \in Procs, NEW force \in BOOLEAN, Enter(c, p, force)
      PROVE  LockOK'
  <2>1. \A q \in Procs : Inside(q)' => Inside(q)
    BY <1>2, EnterEffect DEF Inside, At
  <2> QED
    BY <1>2, <2>1, EnterRest DEF LockOK
<1>3. CASE \E c \in Calls, p \in Procs, force \in BOOLEAN : ensureFresh(c, p, force)
  BY <1>2, <1>3 DEF ensureFresh
<1>4. CASE \E c \in Calls : EnterAgain(c)
  <2>1. PICK c \in Calls : call[c].at = "queued" /\ Enter(c, call[c].in, call[c].force)
    BY <1>4 DEF EnterAgain
  <2>2. call[c].in \in Procs /\ call[c].force \in BOOLEAN
    BY <2>1 DEF ShapeOK, CallRecords
  <2> QED
    BY <1>2, <2>1, <2>2
<1>5. ASSUME NEW p \in Procs, Crash(p)
      PROVE  LockOK'
  BY <1>5, CrashEnds DEF Ended, LockOK, Inside
<1>6. CASE login \/ logout \/ TimePasses \/ (\E s \in 1 .. MaxSessions : Revoke(s)) \/ Done \/ UNCHANGED vars
  BY <1>6, QuietSteps DEF Quiet, LockOK, Inside
<1> QED
  BY <1>1, <1>3, <1>4, <1>5, <1>6 DEF Next

\* Two refreshes are never past the lock together.
LEMMA AloneInside ==
  ASSUME LockOK, "stolen" \notin odd, NEW p \in Procs, Inside(p)
  PROVE  \A q \in Procs \ {p} : ~Inside(q)
BY DEF LockOK

----------------------------------------------------------------------------
(* A refresh past its re-read works for the session the user is in, and on *)
(* the token that is stored.                                               *)

LEMMA UserInit == ConstantsApart /\ Init => UserOK
BY DEF ConstantsApart, Init, UserOK, FileFollowsUser, Under, IdleFlight, Valid, Tokens

LEMMA UserKept ==
  ASSUME UserOK, UNCHANGED <<file, user>>, odd \subseteq odd',
         \A p \in Procs : Under(p)' => Under(p) /\ flight'[p].token = flight[p].token
  PROVE  UserOK'
BY DEF UserOK, FileFollowsUser, Valid

\* What a refresh stores belongs to the user's session.
LEMMA UserStored ==
  ASSUME ConstantsApart, UserOK, LockOK, NEW p \in Procs, Under(p),
         file' = Tombstone \/ (file' \in Tokens /\ file'.s = flight[p].token.s),
         UNCHANGED <<user, odd>>, \A q \in Procs \ {p} : flight'[q] = flight[q], flight'[p].at = "release"
  PROVE  UserOK'
<1> SUFFICES ASSUME {"raced", "fallback"} \cap odd = {}
             PROVE  UserOK'
  BY DEF UserOK
<1>1. user # 0 /\ flight[p].token.s = user
  BY DEF UserOK
<1>2. FileFollowsUser'
  BY <1>1 DEF FileFollowsUser, Valid
<1>3. \A q \in Procs : Under(q)' => q # p /\ Under(q) /\ flight'[q] = flight[q]
  BY DEF Under
<1>4. "stolen" \notin odd => \A q \in Procs : ~Under(q)'
  BY <1>3, AloneInside DEF Under, Inside
<1> QED
  BY <1>2, <1>3, <1>4 DEF UserOK

LEMMA UserStep ==
  ASSUME ConstantsApart, ShapeOK, LockOK, UserOK, [Next]_vars
  PROVE  UserOK'
<1>1. ASSUME NEW p \in Procs, RefreshStep(p)
      PROVE  UserOK'
  <2> DEFINE f == flight[p]
  <2>1. CASE loadState(p)
    BY <2>1, LoadEffect, UserKept DEF Moves, Ended, Under
  <2>2. CASE acquireRefreshLock(p)
    BY <2>2, AcquireEffect, UserKept DEF Moves, Under
  <2>3. CASE LockFails(p)
    BY <2>3, LockFailsEffect, UserKept DEF Ended, Under
  <2>4. CASE afterLock(p)
    <3>1. UNCHANGED <<file, user>>
      BY <2>4, AfterLockRest
    <3>2. CASE /\ odd' = odd
               /\ Moves(p, "release", f.token, f.got, Unauthorized) \/ Moves(p, "release", f.token, f.got, file)
      BY <3>1, <3>2, UserKept DEF Moves, Under
    <3>3. CASE odd' = odd \cup {"fallback"}
      BY <3>3 DEF UserOK
    <3>4. CASE Valid(file) /\ Moves(p, "post", file, f.got, f.answer) /\ odd' = odd
      <4> SUFFICES ASSUME {"raced", "fallback"} \cap odd = {}
                   PROVE  UserOK'
        BY <3>4 DEF UserOK
      <4>1. user # 0 /\ file.s = user
        BY <3>4 DEF UserOK, FileFollowsUser, Valid, ConstantsApart
      <4>2. flight'[p].token = file /\ \A q \in Procs \ {p} : flight'[q] = flight[q]
        BY <3>4 DEF Moves
      <4>3. \A q \in Procs : Under(q)' => q = p \/ (Under(q) /\ flight'[q] = flight[q])
        BY <4>2 DEF Under
      <4>4. FileFollowsUser'
        BY <3>1, <3>4 DEF UserOK, FileFollowsUser, Valid
      <4> QED
        BY <3>1, <3>4, <4>1, <4>2, <4>3, <4>4 DEF UserOK
    <3> QED
      BY <2>4, <3>2, <3>3, <3>4, AfterLockEffect
  <2>5. CASE PostAccepted(p) \/ PostRejected(p) \/ \E rotated \in BOOLEAN : PostFails(p, rotated)
    <3>1. f.at = "post" /\ UNCHANGED <<file, user, odd>>
      BY <2>5, PresentedEffect
    <3>2. flight'[p].token = f.token /\ \A q \in Procs \ {p} : flight'[q] = flight[q]
      BY <2>5, PresentedEffect DEF Moves
    <3> QED
      BY <3>1, <3>2, UserKept DEF Under
  <2>6. CASE saveRefreshed(p)
    <3>1. Under(p)
      BY <2>6, SavedEffect DEF Under
    <3> QED
      BY <2>6, <3>1, SavedEffect, UserStored DEF Moves
  <2>7. CASE SaveFails(p)
    BY <2>7, SaveFailsEffect, UserKept DEF Moves, Under
  <2>8. CASE recovery(p)
    BY <2>8, RecoveryEffect, UserKept DEF Moves, Under
  <2>9. CASE saveTombstone(p)
    <3>1. Under(p)
      BY <2>9, BuryEffect DEF Under
    <3> QED
      BY <2>9, <3>1, BuryEffect, UserStored DEF Moves
  <2>10. CASE release(p)
    BY <2>10, ReleaseEffect, UserKept DEF Ended, Under
  <2> QED
    BY <1>1, <2>1, <2>2, <2>3, <2>4, <2>5, <2>6, <2>7, <2>8, <2>9, <2>10 DEF RefreshStep
<1>2. ASSUME NEW c \in Calls, NEW p \in Procs, NEW force \in BOOLEAN, Enter(c, p, force)
      PROVE  UserOK'
  <2>1. \A q \in Procs : Under(q)' => Under(q) /\ flight'[q] = flight[q]
    BY <1>2, EnterEffect DEF Under, At
  <2> QED
    BY <1>2, <2>1, EnterRest, UserKept
<1>3. CASE \E c \in Calls, p \in Procs, force \in BOOLEAN : ensureFresh(c, p, force)
  BY <1>2, <1>3 DEF ensureFresh
<1>4. CASE \E c \in Calls : EnterAgain(c)
  <2>1. PICK c \in Calls : call[c].at = "queued" /\ Enter(c, call[c].in, call[c].force)
    BY <1>4 DEF EnterAgain
  <2>2. call[c].in \in Procs /\ call[c].force \in BOOLEAN
    BY <2>1 DEF ShapeOK, CallRecords
  <2> QED
    BY <1>2, <2>1, <2>2
<1>5. ASSUME NEW p \in Procs, Crash(p)
      PROVE  UserOK'
  BY <1>5, CrashEnds, UserKept DEF Ended, Under
<1>6. CASE login
  <2>1. /\ odd' = Raced /\ flight' = flight /\ user' = logins + 1 /\ user' \in 1 .. MaxSessions
        /\ file' = [s |-> user', g |-> 1]
    BY <1>6 DEF login, ShapeOK, ConstantsApart
  <2>2. file' \in Tokens /\ file'.s = user' /\ user' # 0
    BY <2>1 DEF Tokens
  <2>3. "raced" \in odd' \/ \A p \in Procs : ~Under(p)'
    BY <2>1 DEF Raced, Under
  <2> QED
    BY <2>2, <2>3 DEF UserOK, FileFollowsUser, Valid
<1>7. CASE logout
  <2>1. odd' = Raced /\ flight' = flight /\ user' = 0 /\ file' = Missing
    BY <1>7 DEF logout
  <2>2. "raced" \in odd' \/ \A p \in Procs : ~Under(p)'
    BY <2>1 DEF Raced, Under
  <2> QED
    BY <2>1, <2>2 DEF UserOK, FileFollowsUser
<1>8. CASE TimePasses \/ (\E s \in 1 .. MaxSessions : Revoke(s)) \/ Done \/ UNCHANGED vars
  <2>1. UNCHANGED <<flight, file, user, odd>>
    BY <1>8 DEF TimePasses, Revoke, Done, vars
  <2> QED
    BY <2>1, UserKept DEF Under
<1> QED
  BY <1>1, <1>3, <1>4, <1>5, <1>6, <1>7, <1>8 DEF Next

----------------------------------------------------------------------------
(* A spent token that is still stored is being worked on, or its end could *)
(* not be recorded.                                                        *)

LEMMA SpentInit == Init => SpentOK
BY DEF Init, SpentOK, IdleFlight, At

\* No request is answered.
LEMMA SpentKept ==
  ASSUME SpentOK, dead' = dead, burned \subseteq burned', again' = again,
         "stolen" \in odd => "stolen" \in odd',
         file' = file \/ ~Valid(file') \/ file' \notin dead,
         file' = file =>
           \A p \in Procs : Past(p) => \/ Past(p)' /\ flight'[p].token = flight[p].token
                                       \/ flight[p].token \in burned' \/ flight[p].token # file,
         \A p \in Procs :
           /\ flight'[p].at = "post" => \/ flight[p].at = "post" /\ flight'[p].token = flight[p].token
                                        \/ flight'[p].token \in dead => flight'[p].token \in burned'
           /\ flight'[p].at = "save" => flight[p].at = "save" /\ flight'[p].got = flight[p].got
  PROVE  SpentOK'
<1> SUFFICES ASSUME "stolen" \notin odd
             PROVE  SpentOK'
  BY DEF SpentOK
<1>1. again' \subseteq burned'
  BY DEF SpentOK
<1>2. file' \in Tokens /\ file' \in dead' => file' \in burned' \/ \E p \in Procs : Past(p)' /\ flight'[p].token = file'
  BY DEF SpentOK, Valid
<1>3. ASSUME NEW p \in Procs
      PROVE  /\ flight'[p].at = "post" /\ flight'[p].token \in dead' => flight'[p].token \in burned'
             /\ flight'[p].at = "save" => flight'[p].got \notin dead'
  BY DEF SpentOK, At
<1> QED
  BY <1>1, <1>2, <1>3 DEF SpentOK, At, Valid

\* The server has accepted or rejected the token of the one refresh past the lock.
LEMMA SpentPresented ==
  ASSUME SpentOK, LockOK, NEW p \in Procs, flight[p].at = "post",
         NEW at, NEW got, NEW answer, Moves(p, at, flight[p].token, got, answer),
         dead' \in {dead, dead \cup {flight[p].token}}, burned \subseteq burned', UNCHANGED <<file, odd>>,
         again' = IF flight[p].token \in dead THEN again \cup {flight[p].token} ELSE again,
         dead' # dead => at \in {"save", "recover"} \/ flight[p].token \in burned',
         at = "save" => got \notin dead'
  PROVE  SpentOK'
<1> SUFFICES ASSUME "stolen" \notin odd
             PROVE  SpentOK'
  BY DEF SpentOK
<1> DEFINE tok == flight[p].token
<1>1. /\ \A q \in Procs \ {p} : flight'[q] = flight[q] /\ ~Inside(q)
      /\ flight'[p].at = at /\ flight'[p].token = tok /\ flight'[p].got = got
  BY AloneInside DEF Moves, Inside
<1>2. tok \in dead => tok \in burned
  BY DEF SpentOK, At
<1>3. again' \subseteq burned'
  BY <1>2 DEF SpentOK
<1>4. ASSUME file' \in Tokens, file' \in dead'
      PROVE  file' \in burned' \/ \E q \in Procs : Past(q)' /\ flight'[q].token = file'
  <2>1. CASE file \in dead
    <3>1. file \in burned \/ \E q \in Procs : Past(q) /\ flight[q].token = file
      BY <1>4, <2>1 DEF SpentOK, Valid
    <3>2. \A q \in Procs : ~Past(q)
      BY <1>1 DEF Past, Inside
    <3> QED
      BY <3>1, <3>2
  <2>2. CASE file = tok /\ dead' # dead
    BY <1>1, <2>2 DEF Past
  <2> QED
    BY <1>4, <2>1, <2>2
<1>5. ASSUME NEW q \in Procs
      PROVE  /\ flight'[q].at = "post" /\ flight'[q].token \in dead' => flight'[q].token \in burned'
             /\ flight'[q].at = "save" => flight'[q].got \notin dead'
  <2>1. CASE q = p
    BY <1>1, <1>2, <2>1
  <2>2. CASE q # p
    BY <1>1, <2>2 DEF Inside
  <2> QED
    BY <2>1, <2>2
<1> QED
  BY <1>3, <1>4, <1>5 DEF SpentOK, At, Valid

\* The token after a rotation has not been spent.
LEMMA RotatedIsFresh ==
  ASSUME ShapeOK, TokensOK, NEW tok \in Tokens, Accepts(tok)
  PROVE  Rotated(tok) \notin dead \cup {tok}
<1>1. /\ Rotated(tok).s = tok.s /\ Rotated(tok).g = tok.g + 1 /\ tok.s \in 1 .. MaxSessions
      /\ tok.g \in Nat \ {0} /\ live[tok.s] = tok.g
  BY RotatedIsToken DEF Accepts
<1>2. \A t \in dead : t.s = tok.s => t.g < tok.g
  BY <1>1 DEF TokensOK
<1> QED
  BY <1>1, <1>2

LEMMA SpentStep ==
  ASSUME ConstantsApart, ShapeOK, TokensOK, LockOK, SpentOK, [Next]_vars
  PROVE  SpentOK'
<1>1. ASSUME NEW p \in Procs, RefreshStep(p)
      PROVE  SpentOK'
  <2> DEFINE f == flight[p]
  <2>1. CASE loadState(p)
    BY <2>1, LoadEffect, SpentKept DEF Moves, Ended, Past
  <2>2. CASE acquireRefreshLock(p)
    BY <2>2, AcquireEffect, SpentKept DEF Moves, Past
  <2>3. CASE LockFails(p)
    BY <2>3, LockFailsEffect, SpentKept DEF Ended, Past
  <2>4. CASE afterLock(p)
    <3>1. f.at = "reread" /\ UNCHANGED <<file, dead, again>>
      BY <2>4, AfterLockRest
    <3>2. burned \subseteq burned' /\ odd \subseteq odd' /\ \A q \in Procs \ {p} : flight'[q] = flight[q]
      BY <2>4, AfterLockEffect DEF Moves
    <3>3. CASE "stolen" \in odd
      BY <3>2, <3>3 DEF SpentOK
    <3>4. CASE "stolen" \notin odd
      <4>1. \A q \in Procs : ~Past(q)
        BY <3>1, <3>4, AloneInside DEF Inside, Past
      <4>2. Valid(file) /\ file \in dead => file \in burned
        BY <3>4, <4>1 DEF SpentOK
      <4>3. /\ flight'[p].at \in {"release", "post"}
            /\ flight'[p].at = "post" => \/ flight'[p].token \in burned'
                                         \/ Valid(file) /\ flight'[p].token = file
        BY <2>4, AfterLockEffect DEF Moves
      <4> QED
        BY <3>1, <3>2, <4>1, <4>2, <4>3, SpentKept
    <3> QED
      BY <3>3, <3>4
  <2>5. CASE PostAccepted(p) \/ PostRejected(p) \/ \E rotated \in BOOLEAN : PostFails(p, rotated)
    <3>1. /\ f.at = "post" /\ f.token \in Tokens /\ UNCHANGED <<file, odd>>
          /\ again' = IF f.token \in dead THEN again \cup {f.token} ELSE again
      BY <2>5, PresentedEffect
    <3>2. CASE /\ Moves(p, "save", f.token, Rotated(f.token), f.answer) /\ Accepts(f.token)
               /\ dead' = dead \cup {f.token} /\ burned' = burned
      <4>1. Rotated(f.token) \notin dead'
        BY <3>1, <3>2, RotatedIsFresh
      <4> QED
        BY <3>1, <3>2, <4>1, SpentPresented
    <3>3. CASE /\ Moves(p, "recover", f.token, f.got, f.answer)
               /\ dead' = dead \cup {f.token} /\ burned' = burned
      <4>1. /\ dead' \in {dead, dead \cup {f.token}} /\ burned \subseteq burned'
            /\ UNCHANGED <<file, odd>> /\ "recover" \in {"save", "recover"} /\ "recover" # "save"
        BY <3>1, <3>3
      <4> HIDE DEF f
      <4> QED
        BY <3>1, <3>3, <4>1, SpentPresented DEF f
    <3>4. ASSUME NEW at \in {"post", "release"}, NEW answer, Moves(p, at, f.token, f.got, answer),
                 \/ dead' = dead /\ burned' = burned
                 \/ dead' = dead \cup {f.token} /\ burned' = burned \cup {f.token}
          PROVE  SpentOK'
      BY <3>1, <3>4, SpentPresented
    <3> QED
      BY <2>5, <3>2, <3>3, <3>4, PresentedEffect
  <2>6. CASE saveRefreshed(p)
    <3>1. /\ f.at = "save" /\ file' = f.got /\ UNCHANGED <<dead, again, burned, odd>>
          /\ flight'[p].at = "release" /\ \A q \in Procs \ {p} : flight'[q] = flight[q]
      BY <2>6, SavedEffect DEF Moves
    <3>2. CASE "stolen" \in odd
      BY <3>1, <3>2 DEF SpentOK
    <3>3. CASE "stolen" \notin odd
      <4>1. f.got \notin dead
        BY <3>1, <3>3 DEF SpentOK, At
      <4>2. \A q \in Procs : flight'[q].at \notin {"post", "save"}
        BY <3>1, <3>3, AloneInside DEF Inside
      <4> QED
        BY <3>1, <3>3, <4>1, <4>2 DEF SpentOK, At
    <3> QED
      BY <3>2, <3>3
  <2>7. CASE SaveFails(p)
    BY <2>7, SaveFailsEffect, SpentKept DEF Moves, Past
  <2>8. CASE recovery(p)
    BY <2>8, RecoveryEffect, SpentKept DEF Moves, Past
  <2>9. CASE saveTombstone(p)
    <3>1. /\ file' = Tombstone /\ ~Valid(file') /\ UNCHANGED <<dead, again, burned, odd>>
          /\ flight'[p].at = "release" /\ \A q \in Procs \ {p} : flight'[q] = flight[q]
      BY <2>9, BuryEffect DEF Moves, Valid, ConstantsApart
    <3>2. \A q \in Procs : /\ flight'[q].at \in {"post", "save"} => flight'[q] = flight[q]
      BY <3>1
    <3> QED
      BY <3>1, <3>2 DEF SpentOK, At, Valid
  <2>10. CASE release(p)
    BY <2>10, ReleaseEffect, SpentKept DEF Ended, Past
  <2> QED
    BY <1>1, <2>1, <2>2, <2>3, <2>4, <2>5, <2>6, <2>7, <2>8, <2>9, <2>10 DEF RefreshStep
<1>2. ASSUME NEW c \in Calls, NEW p \in Procs, NEW force \in BOOLEAN, Enter(c, p, force)
      PROVE  SpentOK'
  <2>1. \A q \in Procs : flight'[q] = flight[q] \/ (flight[q].at = "idle" /\ flight'[q].at = "load")
    BY <1>2, EnterEffect DEF At
  <2>2. /\ UNCHANGED <<file, dead, again, burned>> /\ odd \subseteq odd'
    BY <1>2, EnterRest
  <2>3. \A q \in Procs : /\ Past(q) => Past(q)' /\ flight'[q].token = flight[q].token
                         /\ flight'[q].at = "post" => flight[q].at = "post" /\ flight'[q].token = flight[q].token
                         /\ flight'[q].at = "save" => flight[q].at = "save" /\ flight'[q].got = flight[q].got
    BY <2>1 DEF Past
  <2> QED
    BY <2>2, <2>3, SpentKept
<1>3. CASE \E c \in Calls, p \in Procs, force \in BOOLEAN : ensureFresh(c, p, force)
  BY <1>2, <1>3 DEF ensureFresh
<1>4. CASE \E c \in Calls : EnterAgain(c)
  <2>1. PICK c \in Calls : call[c].at = "queued" /\ Enter(c, call[c].in, call[c].force)
    BY <1>4 DEF EnterAgain
  <2>2. call[c].in \in Procs /\ call[c].force \in BOOLEAN
    BY <2>1 DEF ShapeOK, CallRecords
  <2> QED
    BY <1>2, <2>1, <2>2
<1>5. ASSUME NEW p \in Procs, Crash(p)
      PROVE  SpentOK'
  BY <1>5, CrashEnds, SpentKept DEF Ended, Past
<1>6. ASSUME Quiet, "stolen" \in odd' <=> "stolen" \in odd, file' = file \/ ~Valid(file') \/ file' \notin dead
      PROVE  SpentOK'
  BY <1>6, SpentKept DEF Quiet, Past
<1>7. CASE login
  <2>1. file' \notin dead
    <3>1. file'.s = logins + 1 /\ logins \in Nat
      BY <1>7 DEF login, ShapeOK
    <3> QED
      BY <3>1 DEF TokensOK, ShapeOK, Tokens
  <2> QED
    BY <1>6, <1>7, <2>1, QuietSteps
<1>8. CASE logout
  <2>1. ~Valid(file')
    BY <1>8 DEF logout, Valid, ConstantsApart
  <2> QED
    BY <1>6, <1>8, <2>1, QuietSteps
<1>9. CASE TimePasses \/ (\E s \in 1 .. MaxSessions : Revoke(s)) \/ Done \/ UNCHANGED vars
  <2>1. file' = file
    BY <1>9 DEF TimePasses, Revoke, Done, vars
  <2> QED
    BY <1>6, <1>9, <2>1, QuietSteps
<1> QED
  BY <1>1, <1>3, <1>4, <1>5, <1>7, <1>8, <1>9 DEF Next

----------------------------------------------------------------------------
(* A forced refresh answers with a token its callers have not seen.        *)

LEMMA ForceInit == Init => ForceOK
BY DEF Init, ForceOK, ForcedCallRotates, IdleFlight

\* One refresh moves; what it answers is none of what its callers have seen.
LEMMA ForceMoved ==
  ASSUME ForceOK, ShapeOK, NEW p \in Procs, flight[p].at # "idle",
         NEW at, NEW token, NEW got, NEW answer, Moves(p, at, token, got, answer), at # "idle",
         flight[p].force => token = flight[p].token,
         odd \subseteq odd',
         file' = file \/ ~Valid(file') \/ \A c \in Calls : call[c].saw # file',
         at = "release" /\ flight[p].force /\ Valid(answer) =>
           answer # flight[p].token /\ \A c \in Calls : call[c].saw = answer => answer = file
  PROVE  ForceOK'
<1> SUFFICES ASSUME "late" \notin odd
             PROVE  ForceOK'
  BY DEF ForceOK
<1>1. /\ call' = call /\ \A q \in Procs \ {p} : flight'[q] = flight[q]
      /\ flight'[p].at = at /\ flight'[p].token = token /\ flight'[p].answer = answer
      /\ flight'[p].force = flight[p].force
  BY DEF Moves
<1>2. ForcedCallRotates'
  BY <1>1 DEF ForceOK, ForcedCallRotates, Valid
<1>3. ASSUME NEW q \in Procs, flight'[q].at = "release", flight'[q].force, Valid(flight'[q].answer)
      PROVE  flight'[q].answer # flight'[q].token
  BY <1>1, <1>3 DEF ForceOK
<1>4. ASSUME NEW c \in Calls, NEW q \in Procs, call'[c].in = q, call'[c].at \in {"led", "joined", "queued"},
             call'[c].force, flight'[q].at # "idle", flight'[q].force
      PROVE  /\ Valid(file') /\ file' = call'[c].saw => flight'[q].token = file'
             /\ flight'[q].at = "release" /\ Valid(flight'[q].answer) => flight'[q].answer # call'[c].saw
  <2>1. /\ call[c].in = q /\ call[c].at \in {"led", "joined", "queued"} /\ call[c].force
        /\ flight[q].at # "idle" /\ flight[q].force
    BY <1>1, <1>4
  <2>2. /\ Valid(file) /\ file = call[c].saw => flight[q].token = file
        /\ flight[q].at = "release" /\ Valid(flight[q].answer) => flight[q].answer # call[c].saw
    BY <2>1 DEF ForceOK
  <2>3. flight'[q].token = flight[q].token
    BY <1>1, <2>1
  <2>4. Valid(file') /\ file' = call'[c].saw => flight'[q].token = file'
    BY <1>1, <2>2, <2>3
  <2>5. flight'[q].at = "release" /\ Valid(flight'[q].answer) => flight'[q].answer # call'[c].saw
    <3>1. CASE q = p
      BY <1>1, <2>1, <2>2, <3>1
    <3>2. CASE q # p
      BY <1>1, <2>2, <3>2
    <3> QED
      BY <3>1, <3>2
  <2> QED
    BY <2>4, <2>5
<1>5. ASSUME NEW c \in Calls, call'[c].force, call'[c].at \in {"led", "joined"}
      PROVE  flight'[call'[c].in].force
  <2>1. call[c].in \in Procs /\ flight[call[c].in].force
    BY <1>1, <1>5 DEF ForceOK, ShapeOK
  <2> QED
    BY <1>1, <2>1
<1> QED
  BY <1>2, <1>3, <1>4, <1>5 DEF ForceOK, Valid

\* A refresh is over; none of its forced callers has seen the answer.
LEMMA ForceEnded ==
  ASSUME ForceOK, ShapeOK, NEW p \in Procs, NEW answer, NEW places, Ended(p, answer, places),
         {"led", "joined"} \subseteq places, places \subseteq {"led", "joined", "queued"},
         UNCHANGED <<file, odd>>,
         Valid(answer) => \A c \in Calls : call[c].in = p /\ call[c].at \in places /\ call[c].force
                                             => answer # call[c].saw
  PROVE  ForceOK'
<1> SUFFICES ASSUME "late" \notin odd
             PROVE  ForceOK'
  BY DEF ForceOK
<1>1. /\ \A q \in Procs \ {p} : flight'[q] = flight[q]
      /\ flight'[p].at = "idle"
      /\ \A c \in Calls :
           \/ /\ call[c].in = p /\ call[c].at \in places /\ call'[c].at = "done" /\ call'[c].answer = answer
              /\ call'[c].force = call[c].force /\ call'[c].saw = call[c].saw
           \/ call'[c] = call[c] /\ ~(call[c].in = p /\ call[c].at \in places)
  BY DEF Ended
<1>2. ASSUME NEW c \in Calls, call'[c].at = "done", call'[c].force, Valid(call'[c].answer)
      PROVE  call'[c].answer # call'[c].saw
  <2>1. CASE call'[c] = call[c]
    BY <1>2, <2>1 DEF ForceOK, ForcedCallRotates
  <2>2. CASE call'[c] # call[c]
    BY <1>1, <1>2, <2>2
  <2> QED
    BY <2>1, <2>2
<1>3. ASSUME NEW q \in Procs, flight'[q].at = "release", flight'[q].force, Valid(flight'[q].answer)
      PROVE  flight'[q].answer # flight'[q].token
  <2>1. flight'[q] = flight[q]
    BY <1>1, <1>3
  <2> QED
    BY <1>3, <2>1 DEF ForceOK
<1>4. ASSUME NEW c \in Calls, NEW q \in Procs, call'[c].in = q, call'[c].at \in {"led", "joined", "queued"},
             call'[c].force, flight'[q].at # "idle", flight'[q].force
      PROVE  /\ Valid(file) /\ file = call'[c].saw => flight'[q].token = file
             /\ flight'[q].at = "release" /\ Valid(flight'[q].answer) => flight'[q].answer # call'[c].saw
  <2>1. call'[c] = call[c] /\ flight'[q] = flight[q]
    BY <1>1, <1>4
  <2> QED
    BY <1>4, <2>1 DEF ForceOK
<1>5. ASSUME NEW c \in Calls, call'[c].force, call'[c].at \in {"led", "joined"}
      PROVE  flight'[call'[c].in].force
  <2>1. call'[c] = call[c] /\ call[c].in # p
    BY <1>1, <1>5
  <2>2. call[c].in \in Procs /\ flight[call[c].in].force
    BY <1>5, <2>1 DEF ForceOK, ShapeOK
  <2> QED
    BY <1>1, <2>1, <2>2
<1> QED
  BY <1>2, <1>3, <1>4, <1>5 DEF ForceOK, ForcedCallRotates, Valid

\* A call begins, or begins again what it waited to begin.
LEMMA ForceEntered ==
  ASSUME ForceOK, ShapeOK, NEW c \in Calls, NEW p \in Procs, NEW force \in BOOLEAN, Enter(c, p, force),
         call[c].at = "new" \/ (call[c].at = "queued" /\ call[c].in = p /\ call[c].force = force)
  PROVE  ForceOK'
<1>1. UNCHANGED file /\ odd \subseteq odd'
  BY EnterRest
<1> SUFFICES ASSUME "late" \notin odd, "late" \notin odd'
             PROVE  ForceOK'
  BY <1>1 DEF ForceOK
<1>2. /\ \A d \in Calls \ {c} : call'[d] = call[d]
      /\ call'[c].at = IF At(p, "idle") THEN "led" ELSE IF Joins(c, p, force) THEN "joined" ELSE "queued"
      /\ call'[c].in = p /\ call'[c].force = force
      /\ call'[c].saw = IF call[c].at = "new" THEN file ELSE call[c].saw
      /\ ~At(p, "idle") => flight' = flight
      /\ At(p, "idle") =>
           /\ \A q \in Procs \ {p} : flight'[q] = flight[q]
           /\ flight'[p].at = "load" /\ flight'[p].force = force /\ flight'[p].token = file
  BY EnterEffect
<1>3. force /\ ~At(p, "idle") /\ flight[p].force => flight[p].token = file
  BY DEF Enter
<1>4. ASSUME NEW d \in Calls, call'[d].at = "done", call'[d].force, Valid(call'[d].answer)
      PROVE  call'[d].answer # call'[d].saw
  <2>1. d # c
    BY <1>2, <1>4
  <2> QED
    BY <1>2, <1>4, <2>1 DEF ForceOK, ForcedCallRotates
<1>5. ASSUME NEW q \in Procs, flight'[q].at = "release", flight'[q].force, Valid(flight'[q].answer)
      PROVE  flight'[q].answer # flight'[q].token
  <2>1. flight'[q] = flight[q]
    BY <1>2, <1>5
  <2> QED
    BY <1>5, <2>1 DEF ForceOK
<1>6. ASSUME NEW d \in Calls, NEW q \in Procs, call'[d].in = q, call'[d].at \in {"led", "joined", "queued"},
             call'[d].force, flight'[q].at # "idle", flight'[q].force
      PROVE  /\ Valid(file) /\ file = call'[d].saw => flight'[q].token = file
             /\ flight'[q].at = "release" /\ Valid(flight'[q].answer) => flight'[q].answer # call'[d].saw
  <2>1. CASE q = p /\ At(p, "idle")
    BY <1>2, <2>1
  <2>2. CASE flight'[q] = flight[q] /\ d # c
    BY <1>2, <1>6, <2>2 DEF ForceOK
  <2>3. CASE q = p /\ ~At(p, "idle") /\ d = c
    <3>1. flight'[p] = flight[p] /\ flight[p].at # "idle" /\ force /\ flight[p].force
      BY <1>2, <1>6, <2>3 DEF At
    <3>2. flight[p].token = file
      BY <1>3, <3>1 DEF At
    <3>3. flight[p].at = "release" /\ Valid(flight[p].answer) => flight[p].answer # call'[c].saw
      <4>1. CASE call[c].at = "new"
        BY <1>2, <3>1, <3>2, <4>1 DEF ForceOK
      <4>2. CASE call[c].at = "queued" /\ call[c].in = p /\ call[c].force = force
        BY <1>2, <3>1, <4>2, ZenonT(60) DEF ForceOK
      <4> QED
        BY <4>1, <4>2
    <3> QED
      BY <2>3, <3>1, <3>2, <3>3
  <2>4. d = c => q = p
    BY <1>2, <1>6
  <2> QED
    BY <1>2, <2>1, <2>2, <2>3, <2>4
<1>7. ASSUME NEW d \in Calls, call'[d].force, call'[d].at \in {"led", "joined"}
      PROVE  flight'[call'[d].in].force
  <2>1. CASE d = c
    BY <1>2, <1>7, <2>1 DEF At, Joins
  <2>2. CASE d # c
    <3>1. call'[d] = call[d] /\ call[d].in \in Procs /\ flight[call[d].in].at # "idle" /\ flight[call[d].in].force
      BY <1>2, <1>7, <2>2 DEF ShapeOK, ForceOK
    <3>2. flight'[call[d].in] = flight[call[d].in]
      BY <1>2, <3>1 DEF At
    <3> QED
      BY <3>1, <3>2
  <2> QED
    BY <2>1, <2>2
<1> QED
  BY <1>1, <1>4, <1>5, <1>6, <1>7 DEF ForceOK, ForcedCallRotates, Valid

LEMMA ForceStep ==
  ASSUME ConstantsApart, ShapeOK, TokensOK, ForceOK, [Next]_vars
  PROVE  ForceOK'
<1>0. ~Valid(Unauthorized) /\ ~Valid(Failed)
  BY DEF Valid, ConstantsApart
<1>1. ASSUME NEW p \in Procs, RefreshStep(p)
      PROVE  ForceOK'
  <2> DEFINE f == flight[p]
  <2>1. CASE loadState(p)
    <3>1. f.at = "load" /\ UNCHANGED <<file, odd>>
      BY <2>1, LoadEffect
    <3>2. CASE Ended(p, Unauthorized, {"led", "joined"})
      BY <1>0, <3>1, <3>2, ForceEnded
    <3>3. CASE ~f.force /\ Ended(p, f.token, {"led", "joined"})
      <4>1. "late" \notin odd =>
              \A c \in Calls : ~(call[c].in = p /\ call[c].at \in {"led", "joined"} /\ call[c].force)
        BY <3>3 DEF ForceOK
      <4>2. CASE "late" \in odd
        BY <3>1, <4>2 DEF ForceOK
      <4>3. CASE "late" \notin odd
        BY <3>1, <3>3, <4>1, <4>3, ForceEnded
      <4> QED
        BY <4>2, <4>3
    <3>4. CASE Moves(p, "lock", f.token, f.got, f.answer)
      BY <3>1, <3>4, ForceMoved
    <3> QED
      BY <2>1, <3>2, <3>3, <3>4, LoadEffect
  <2>2. CASE acquireRefreshLock(p)
    <3>1. odd \subseteq odd'
      BY <2>2, AcquireEffect
    <3> QED
      BY <2>2, <3>1, AcquireEffect, ForceMoved
  <2>3. CASE LockFails(p)
    BY <1>0, <2>3, LockFailsEffect, ForceEnded
  <2>4. CASE afterLock(p)
    <3>1. f.at = "reread" /\ file' = file
      BY <2>4, AfterLockRest
    <3>2. CASE Moves(p, "release", f.token, f.got, Unauthorized) /\ odd' = odd
      BY <1>0, <3>1, <3>2, ForceMoved
    <3>3. CASE Moves(p, "post", f.token, f.got, f.answer) /\ odd' = odd \cup {"fallback"}
      BY <3>1, <3>3, ForceMoved
    <3>4. CASE Moves(p, "release", f.token, f.got, file) /\ (f.force => file # f.token) /\ odd' = odd
      BY <3>1, <3>4, ForceMoved
    <3>5. CASE Moves(p, "post", file, f.got, f.answer) /\ (f.force => file = f.token) /\ odd' = odd
      BY <3>1, <3>5, ForceMoved
    <3> QED
      BY <2>4, <3>2, <3>3, <3>4, <3>5, AfterLockEffect
  <2>5. CASE PostAccepted(p) \/ PostRejected(p) \/ \E rotated \in BOOLEAN : PostFails(p, rotated)
    <3>1. f.at = "post" /\ UNCHANGED <<file, odd>>
      BY <2>5, PresentedEffect
    <3>2. ASSUME NEW at \in {"save", "recover", "post"}, NEW got, Moves(p, at, f.token, got, f.answer)
          PROVE  ForceOK'
      BY <3>1, <3>2, ForceMoved
    <3>3. CASE Moves(p, "release", f.token, f.got, Failed)
      BY <1>0, <3>1, <3>3, ForceMoved
    <3>4. \/ Moves(p, "save", f.token, Rotated(f.token), f.answer)
          \/ Moves(p, "recover", f.token, f.got, f.answer)
          \/ Moves(p, "post", f.token, f.got, f.answer)
          \/ Moves(p, "release", f.token, f.got, Failed)
      BY <2>5, PresentedEffect
    <3> QED
      BY <3>2, <3>3, <3>4
  <2>6. CASE saveRefreshed(p)
    <3>1. /\ f.at = "save" /\ file' = f.got /\ odd' = odd /\ Moves(p, "release", f.token, f.got, f.got)
      BY <2>6, SavedEffect
    <3>2. f.token # f.got /\ \A c \in Calls : call[c].saw # f.got
      BY <3>1 DEF TokensOK, Unknown, At
    <3> QED
      BY <3>1, <3>2, ForceMoved
  <2>7. CASE SaveFails(p)
    BY <1>0, <2>7, SaveFailsEffect, ForceMoved
  <2>8. CASE recovery(p)
    BY <2>8, RecoveryEffect, ForceMoved
  <2>9. CASE saveTombstone(p)
    <3>1. /\ f.at = "bury" /\ ~Valid(file') /\ odd' = odd /\ Moves(p, "release", f.token, f.got, Unauthorized)
      BY <2>9, BuryEffect DEF Valid, ConstantsApart
    <3> QED
      BY <1>0, <3>1, ForceMoved
  <2>10. CASE release(p)
    <3>1. /\ f.at = "release" /\ Ended(p, f.answer, {"led", "joined"}) /\ UNCHANGED <<file, odd>>
      BY <2>10, ReleaseEffect
    <3>2. CASE "late" \in odd
      BY <3>1, <3>2 DEF ForceOK
    <3>3. CASE "late" \notin odd
      <4>1. ASSUME NEW c \in Calls, call[c].in = p, call[c].at \in {"led", "joined"}, call[c].force, Valid(f.answer)
            PROVE  f.answer # call[c].saw
        <5>1. f.force
          BY <3>3, <4>1 DEF ForceOK
        <5> QED
          BY <3>1, <3>3, <4>1, <5>1 DEF ForceOK
      <4> QED
        BY <3>1, <4>1, ForceEnded
    <3> QED
      BY <3>2, <3>3
  <2> QED
    BY <1>1, <2>1, <2>2, <2>3, <2>4, <2>5, <2>6, <2>7, <2>8, <2>9, <2>10 DEF RefreshStep
<1>2. CASE \E c \in Calls, p \in Procs, force \in BOOLEAN : ensureFresh(c, p, force)
  BY <1>2, ForceEntered DEF ensureFresh
<1>3. CASE \E c \in Calls : EnterAgain(c)
  <2>1. PICK c \in Calls : call[c].at = "queued" /\ Enter(c, call[c].in, call[c].force)
    BY <1>3 DEF EnterAgain
  <2>2. call[c].in \in Procs /\ call[c].force \in BOOLEAN
    BY <2>1 DEF ShapeOK, CallRecords
  <2> QED
    BY <2>1, <2>2, ForceEntered
<1>4. ASSUME NEW p \in Procs, Crash(p)
      PROVE  ForceOK'
  BY <1>0, <1>4, CrashEnds, ForceEnded
<1>5. ASSUME Quiet, "late" \in odd' <=> "late" \in odd,
             file' = file \/ ~Valid(file') \/ \A c \in Calls : call[c].saw # file'
      PROVE  ForceOK'
  BY <1>5 DEF Quiet, ForceOK, ForcedCallRotates, Valid
<1>6. CASE login
  <2>1. file'.s = logins + 1 /\ logins \in Nat /\ file' \in Tokens
    BY <1>6 DEF login, ShapeOK, ConstantsApart, Tokens
  <2>2. \A c \in Calls : call[c].saw # file'
    BY <2>1 DEF TokensOK, Issued, IssuedOf
  <2> QED
    BY <1>5, <1>6, <2>2, QuietSteps
<1>7. CASE logout
  <2>1. ~Valid(file')
    BY <1>7 DEF logout, Valid, ConstantsApart
  <2> QED
    BY <1>5, <1>7, <2>1, QuietSteps
<1>8. CASE TimePasses \/ (\E s \in 1 .. MaxSessions : Revoke(s)) \/ Done \/ UNCHANGED vars
  <2>1. file' = file
    BY <1>8 DEF TimePasses, Revoke, Done, vars
  <2> QED
    BY <1>5, <1>8, <2>1, QuietSteps
<1> QED
  BY <1>1, <1>2, <1>3, <1>4, <1>6, <1>7, <1>8 DEF Next

----------------------------------------------------------------------------
(* The theorems.                                                           *)

OAuthIInv == ShapeOK /\ TokensOK /\ LockOK /\ UserOK /\ SpentOK /\ ForceOK

LEMMA OAuthInduction ==
  ASSUME ConstantsApart
  PROVE  Spec => []OAuthIInv
<1>1. Init => OAuthIInv
  BY ShapeInit, TokensInit, LockInit, UserInit, SpentInit, ForceInit DEF OAuthIInv
<1>2. OAuthIInv /\ [Next]_vars => OAuthIInv'
  <2> SUFFICES ASSUME OAuthIInv, [Next]_vars
               PROVE  OAuthIInv'
    OBVIOUS
  <2>1. ShapeOK'
    BY ShapeStep DEF OAuthIInv
  <2>2. TokensOK'
    BY <2>1, TokensStep DEF OAuthIInv
  <2>3. LockOK'
    BY LockStep DEF OAuthIInv
  <2>4. UserOK'
    BY UserStep DEF OAuthIInv
  <2>5. SpentOK'
    BY SpentStep DEF OAuthIInv
  <2>6. ForceOK'
    BY ForceStep DEF OAuthIInv
  <2> QED
    BY <2>1, <2>2, <2>3, <2>4, <2>5, <2>6 DEF OAuthIInv
<1> QED
  BY <1>1, <1>2, PTL DEF Spec

(* However many processes share the token file and whatever fails, a spent *)
(* refresh token is not presented again, a forced call gets a new token,   *)
(* and the file shows what the user did last (OAuthManager.ensureFresh,    *)
(* doEnsureFresh, login and logout).                                       *)
THEOREM TokenFileFollowsUser ==
  ASSUME ConstantsApart
  PROVE  Spec => []TokensFollowTheUser
<1>1. OAuthIInv => TokensFollowTheUser
  <2> SUFFICES ASSUME OAuthIInv
               PROVE  TokensFollowTheUser
    OBVIOUS
  <2>1. TypeOK
    BY DEF OAuthIInv, ShapeOK, TypeOK, Files, CallRecords, Refreshes
  <2>2. NeverPresentedAgain
    BY DEF OAuthIInv, SpentOK, NeverPresentedAgain
  <2>3. ForcedCallRotates
    BY DEF OAuthIInv, ForceOK, ForcedCallRotates
  <2>4. FileFollowsUser
    BY DEF OAuthIInv, UserOK, FileFollowsUser
  <2> QED
    BY <2>1, <2>2, <2>3, <2>4 DEF TokensFollowTheUser
<1> QED
  BY <1>1, OAuthInduction, PTL

(* A refresh never replaces a stored token that the server accepts, neither *)
(* by the token it got for an older one nor by the tombstone of a 401.      *)
THEOREM RefreshSparesLiveTokens ==
  ASSUME ConstantsApart
  PROVE  Spec => LiveTokenKept
<1>1. ASSUME OAuthIInv, Next, Valid(file), Accepts(file), file' # file, ~(login \/ logout)
      PROVE  {"raced", "stolen", "fallback"} \cap odd # {}
  <2>1. \E p \in Procs : saveRefreshed(p) \/ saveTombstone(p)
    BY <1>1, EnterRest DEF Next, ensureFresh, EnterAgain, RefreshStep, loadState, acquireRefreshLock, LockFails,
       afterLock, PostAccepted, PostRejected, PostFails, SaveFails, recovery, release, Crash, Revoke, TimePasses,
       Done, vars, Enter
  <2>2. PICK p \in Procs : Under(p) /\ Past(p)
    BY <2>1 DEF saveRefreshed, saveTombstone, At, Under, Past
  <2>3. flight[p].token \in dead
    BY <1>1, <2>2 DEF OAuthIInv, TokensOK
  <2>4. file \in Tokens /\ file.s \in 1 .. MaxSessions /\ file.g \in Nat \ {0} /\ live[file.s] = file.g
    BY <1>1, RotatedIsToken DEF Valid, Accepts
  <2>5. file \notin dead
    BY <1>1, <2>4 DEF OAuthIInv, TokensOK
  <2> QED
    BY <1>1, <2>2, <2>3, <2>5 DEF OAuthIInv, UserOK
<1>2. OAuthIInv /\ [Next]_vars =>
        [Valid(file) /\ Accepts(file) /\ file' # file
           => login \/ logout \/ {"raced", "stolen", "fallback"} \cap odd # {}]_vars
  BY <1>1
<1> QED
  BY <1>2, OAuthInduction, PTL DEF Spec, LiveTokenKept

----------------------------------------------------------------------------
(* The connection to an MCP server.                                        *)

Operations ==
  [k : {"none", "connect", "remove", "markRemoved", "reconnect", "join", "auth"}, e : 0 .. MaxEntries, a : Nat,
   pc : {"idle", "close", "create", "discover", "report", "stale", "peek", "authClose", "invalidate", "done"},
   cfg : Configs \cup {Off}, on : 0 .. MaxOps]
EntryRecords ==
  [a : Nat, status : Mcp!Statuses \cup {"none"}, client : 0 .. MaxOps, cfg : Configs \cup {Off}]

\* An operation that connects an entry, and those of them that connect e as it is now.
Attempt(o) == ops[o].k \in {"connect", "reconnect", "join"} /\ ops[o].e # 0
Serves(o, e) == Attempt(o) /\ ops[o].e = e /\ ops[o].a = ent[e].a
Mutating(o) == ops[o].k \in Mcp!Mutations /\ Mcp!Live(o)
Unclobbered == "clobber" \notin mcpOdd

\* Where each kind of operation may be, and what it knows there.
PlaceOK(o) ==
  /\ ops[o].k = "none" <=> ops[o].pc = "idle"
  /\ ops[o].k = "auth" => ops[o].pc \in {"peek", "authClose", "invalidate", "done"}
  /\ ops[o].k \in {"remove", "markRemoved"} => ops[o].pc \in {"close", "done"}
  /\ ops[o].k \in {"connect", "reconnect", "join"} =>
       ops[o].pc \in {"close", "create", "discover", "report", "stale", "done"}
  /\ ops[o].k \in {"remove", "markRemoved", "reconnect", "join", "auth"} => ops[o].e # 0
  /\ ops[o].k = "connect" => (ops[o].e = 0 <=> ops[o].pc = "close")
  /\ ops[o].pc \in {"idle", "close", "create"} => clients[o] = "none"

RecordsOK ==
  /\ Mcp!TypeOK
  /\ ops \in [Mcp!Ops -> Operations] /\ ent \in [1 .. MaxEntries -> EntryRecords]
  /\ clients \in [Mcp!Ops -> {"none", "open", "closed", "died"}]
  /\ \A o \in Mcp!Ops : PlaceOK(o)
  /\ \A e \in 1 .. MaxEntries : ent[e].client # 0 => clients[ent[e].client] # "none"

\* The entries there have been are numbered; those that operations know are of them.
EntriesOK ==
  /\ Mcp!Entries \in 0 .. MaxEntries
  /\ {f \in 1 .. MaxEntries : ent[f] # Mcp!NoEntry} = 1 .. Mcp!Entries
  /\ \A f \in 1 .. Mcp!Entries : ent[f].status # "none"
  /\ cur <= Mcp!Entries /\ \A o \in Mcp!Ops : ops[o].e <= Mcp!Entries

\* One mutation at a time; it knows the current entry and has room for another.
MutationsOK ==
  /\ \A o, p \in Mcp!Ops : Mutating(o) /\ Mutating(p) => o = p
  /\ \A o \in Mcp!Ops : ops[o].pc = "close" =>
       /\ ops[o].k \in {"remove", "markRemoved"} => ops[o].e = cur
       /\ ops[o].k = "connect" => Mcp!Entries < MaxEntries

\* An attempt has a number of its own.
AttemptsOK ==
  \A o \in Mcp!Ops : Attempt(o) =>
    /\ ops[o].a <= ent[ops[o].e].a \/ (ent[ops[o].e].cfg = Off /\ ops[o].pc = "done")
    /\ \A p \in Mcp!Ops : Attempt(p) /\ ops[p].e = ops[o].e /\ ops[p].a = ops[o].a => p = o

\* An open client is the one of its entry if its attempt was not overtaken, and
\* once the attempt is over it was not.
ClientOK(c) ==
  clients[c] = "open" =>
    /\ Attempt(c) /\ ops[c].pc \in {"discover", "done"}
    /\ ops[c].a = ent[ops[c].e].a => ent[ops[c].e].client = c
    /\ ops[c].pc = "done" => ops[c].a = ent[ops[c].e].a /\ ("lost" \in mcpOdd \/ cur = ops[c].e)
ClientsOK == Unclobbered => \A c \in Mcp!Ops : ClientOK(c)

\* Somebody is connecting a pending server.
Connects(o) == Serves(o, cur) /\ ops[o].pc \in {"close", "create", "discover"}
PendingOK == cur # 0 /\ ent[cur].status = "pending" => \E o \in Mcp!Ops : Connects(o)

\* A connected server has an open client, which its tools use, or somebody is
\* about to change its status.
InUse(c) ==
  c # 0 /\ clients[c] = "open" /\ Serves(c, cur) /\ ops[c].pc = "done" /\ tools = c
Overruled(o) ==
  \/ Serves(o, cur) /\ ops[o].pc = "close"
  \/ Mutating(o) /\ ops[o].pc = "close"
  \/ ops[o].pc = "authClose" /\ ops[o].e = cur /\ ops[o].a = ent[cur].a
ConnectedOK ==
  Unclobbered /\ cur # 0 /\ ent[cur].status = "connected" =>
    InUse(ent[cur].client) \/ \E o \in Mcp!Ops : Overruled(o)

\* The status was told, or is about to be.
Reports(o) ==
  /\ ops[o].e = cur /\ ops[o].a = ent[cur].a
  /\ ops[o].pc \in {"report", "invalidate"} \/ (Attempt(o) /\ ops[o].pc = "close")
ToldOK ==
  /\ cur # 0 => shown = ent[cur].status \/ \E o \in Mcp!Ops : Reports(o)
  /\ shown \in {"needs-auth", "disabled", "removed"} => tools = 0

McpIInv ==
  RecordsOK /\ EntriesOK /\ MutationsOK /\ AttemptsOK /\ ClientsOK /\ PendingOK /\ ConnectedOK /\ ToldOK

McpPlaces == {"idle", "close", "create", "discover", "report", "stale", "peek", "authClose", "invalidate", "done"}

\* o goes to pc; o is set up with k, e, a and pc; entry e gets the attempt a, the
\* status and the client c; client c is closed.
Others(o) == \A p \in Mcp!Ops \ {o} : ops'[p] = ops[p]
MovesTo(o, pc) ==
  /\ ops' \in [Mcp!Ops -> Operations] /\ Others(o)
  /\ ops'[o].k = ops[o].k /\ ops'[o].e = ops[o].e /\ ops'[o].a = ops[o].a /\ ops'[o].pc = pc
Starts(o, k, e, a, pc) ==
  /\ ops' \in [Mcp!Ops -> Operations] /\ Others(o)
  /\ ops'[o].k = k /\ ops'[o].e = e /\ ops'[o].a = a /\ ops'[o].pc = pc
  /\ ops[o].pc = "idle"
Becomes(e, a, status, c) ==
  /\ ent' \in [1 .. MaxEntries -> EntryRecords] /\ \A f \in 1 .. MaxEntries \ {e} : ent'[f] = ent[f]
  /\ ent'[e].a = a /\ ent'[e].status = status /\ ent'[e].client = c /\ ent'[e].cfg = ent[e].cfg
Closes(c) ==
  /\ clients' \in [Mcp!Ops -> {"none", "open", "closed", "died"}]
  /\ \A p \in Mcp!Ops : clients'[p] = IF p = c THEN "closed" ELSE clients[p]
Tells(status, c) ==
  /\ shown' = status
  /\ tools' = IF status = "connected" THEN (IF c = 0 THEN tools ELSE c)
              ELSE IF status \in {"needs-auth", "disabled", "removed"} THEN 0 ELSE tools

LEMMA MovesToEffect ==
  ASSUME RecordsOK, NEW o \in Mcp!Ops, NEW pc \in McpPlaces, Mcp!At(o, pc)
  PROVE  MovesTo(o, pc)
<1>1. ops \in [Mcp!Ops -> Operations] /\ ops' = [ops EXCEPT ![o] = [ops[o] EXCEPT !.pc = pc]]
  BY DEF RecordsOK, Mcp!At
<1>2. ops[o] \in Operations
  BY <1>1
<1>3. [ops[o] EXCEPT !.pc = pc] \in Operations
  BY <1>2 DEF Operations, McpPlaces
<1> QED
  BY <1>1, <1>2, <1>3 DEF MovesTo, Others, Operations

LEMMA StartsEffect ==
  ASSUME RecordsOK, NEW o \in Mcp!Ops, NEW r \in Operations, ops' = [ops EXCEPT ![o] = r], ops[o].pc = "idle"
  PROVE  Starts(o, r.k, r.e, r.a, r.pc)
<1>1. ops \in [Mcp!Ops -> Operations]
  BY DEF RecordsOK
<1> QED
  BY <1>1 DEF Starts, Others

LEMMA BecomesEffect ==
  ASSUME RecordsOK, NEW e \in 1 .. MaxEntries, NEW r \in EntryRecords, ent' = [ent EXCEPT ![e] = r], r.cfg = ent[e].cfg
  PROVE  Becomes(e, r.a, r.status, r.client)
<1>1. ent \in [1 .. MaxEntries -> EntryRecords]
  BY DEF RecordsOK
<1> QED
  BY <1>1 DEF Becomes

LEMMA ClosesEffect ==
  ASSUME RecordsOK, NEW c \in 0 .. MaxOps, clients' = Mcp!Closed(c)
  PROVE  Closes(c)
<1>1. clients \in [Mcp!Ops -> {"none", "open", "closed", "died"}]
  BY DEF RecordsOK
<1>2. CASE c = 0
  BY <1>1, <1>2 DEF Mcp!Closed, Closes, Mcp!Ops
<1>3. CASE c # 0
  <2>1. c \in Mcp!Ops /\ clients' = [clients EXCEPT ![c] = "closed"]
    BY <1>3 DEF Mcp!Closed, Mcp!Ops
  <2> QED
    BY <1>1, <2>1 DEF Closes
<1> QED
  BY <1>2, <1>3

LEMMA TellsEffect ==
  ASSUME NEW r \in EntryRecords, Mcp!emit(r)
  PROVE  Tells(r.status, r.client)
BY DEF Mcp!emit, Tells

LEMMA ZeroFacts == 0 \in 0 .. MaxOps /\ 0 \in 0 .. MaxEntries
BY ConnectionBounds

LEMMA McpFields ==
  ASSUME RecordsOK, EntriesOK
  PROVE  /\ MaxOps \in Nat /\ MaxEntries \in Nat /\ Mcp!Entries \in Nat
         /\ \A o \in Mcp!Ops : /\ o \in Nat \ {0} /\ ops[o] \in Operations /\ ops[o].e \in 0 .. Mcp!Entries /\ ops[o].a \in Nat
                               /\ ops[o].e # 0 => ops[o].e \in 1 .. MaxEntries
         /\ \A e \in 1 .. MaxEntries : ent[e] \in EntryRecords /\ ent[e].a \in Nat /\ ent[e].client \in 0 .. MaxOps
         /\ cur # 0 => cur \in 1 .. MaxEntries
<1>1. /\ ops \in [Mcp!Ops -> Operations] /\ ent \in [1 .. MaxEntries -> EntryRecords] /\ cur \in 0 .. MaxEntries
      /\ Mcp!Entries \in 0 .. MaxEntries /\ \A o \in Mcp!Ops : ops[o].e <= Mcp!Entries
  BY DEF RecordsOK, EntriesOK, Mcp!TypeOK
<1> QED
  BY <1>1, ConnectionBounds DEF Operations, EntryRecords, Mcp!Ops

Quiescent == shown' = shown /\ tools' = tools

\* The new entry e of o and its first attempt.
Enters(o) ==
  LET e == Mcp!Entries + 1 IN
  /\ e \in 1 .. MaxEntries /\ ent[e] = Mcp!NoEntry /\ cur' = e /\ joined' = joined /\ clients' = clients
  /\ ops' \in [Mcp!Ops -> Operations] /\ Others(o)
  /\ ops'[o].k = "connect" /\ ops'[o].e = e /\ ops'[o].a = 1
  /\ ent' \in [1 .. MaxEntries -> EntryRecords] /\ \A f \in 1 .. MaxEntries \ {e} : ent'[f] = ent[f]
  /\ ent'[e].client = 0
  /\ \/ ent'[e].cfg = Off /\ ent'[e].a = 0 /\ ent'[e].status = "disabled" /\ ops'[o].pc = "done"
     \/ ent'[e].cfg # Off /\ ent'[e].a = 1 /\ ent'[e].status = "pending" /\ ops'[o].pc = "create"
  /\ Tells(ent'[e].status, 0)
  /\ mcpOdd' = IF cur # 0 /\ ent[cur].client # 0 THEN mcpOdd \cup {"lost"} ELSE mcpOdd

LEMMA EntersEffect ==
  ASSUME RecordsOK, EntriesOK, Mcp!Entries < MaxEntries, NEW o \in Mcp!Ops, NEW cfg \in Configs \cup {Off},
         Mcp!NewEntry(o, cfg), clients' = clients
  PROVE  Enters(o)
<1> DEFINE e == Mcp!Entries + 1
           r == [a |-> IF cfg = Off THEN 0 ELSE 1, status |-> IF cfg = Off THEN "disabled" ELSE "pending",
                 client |-> 0, cfg |-> cfg]
           x == [k |-> "connect", e |-> e, a |-> 1, cfg |-> cfg, on |-> 0, pc |-> IF cfg = Off THEN "done" ELSE "create"]
<1>1. /\ ent' = [ent EXCEPT ![e] = r] /\ cur' = e /\ Mcp!emit(r) /\ ops' = [ops EXCEPT ![o] = x]
      /\ mcpOdd' = Mcp!Lost(cur) /\ joined' = joined
  BY DEF Mcp!NewEntry
<1>2. /\ e \in 1 .. MaxEntries /\ ent[e] = Mcp!NoEntry
      /\ ops \in [Mcp!Ops -> Operations] /\ ent \in [1 .. MaxEntries -> EntryRecords]
  <2>1. Mcp!Entries \in Nat /\ MaxEntries \in Nat
    BY McpFields
  <2>2. e \in 1 .. MaxEntries /\ e \notin 1 .. Mcp!Entries
    BY <2>1
  <2> QED
    BY <2>2 DEF RecordsOK, EntriesOK
<1>3. r \in EntryRecords /\ x \in Operations
  <2>1. 0 \in 0 .. MaxOps /\ e \in 0 .. MaxEntries
    BY <1>2, ConnectionBounds
  <2> HIDE DEF e
  <2> QED
    BY <2>1 DEF EntryRecords, Operations, Mcp!Statuses
<1>4. /\ ops'[o] = x /\ Others(o) /\ ops' \in [Mcp!Ops -> Operations]
      /\ ent' \in [1 .. MaxEntries -> EntryRecords] /\ ent'[e] = r /\ \A f \in 1 .. MaxEntries \ {e} : ent'[f] = ent[f]
  <2> HIDE DEF e, r, x
  <2> QED
    BY <1>1, <1>2, <1>3 DEF Others
<1>5. Tells(r.status, r.client)
  BY <1>1, <1>3, TellsEffect
<1>6. mcpOdd' = IF cur # 0 /\ ent[cur].client # 0 THEN mcpOdd \cup {"lost"} ELSE mcpOdd
  BY <1>1 DEF Mcp!Lost
<1> QED
  BY <1>1, <1>2, <1>4, <1>5, <1>6 DEF Enters

LEMMA ClosingEffect ==
  ASSUME RecordsOK, EntriesOK, NEW o \in Mcp!Ops, cur # 0, NEW x \in Operations, Mcp!Next1(o),
         ops' = [ops EXCEPT ![o] = x], clients' = Mcp!Closed(ent[cur].client), NEW n \in Nat,
         ent' = [ent EXCEPT ![cur] = [ent[cur] EXCEPT !.a = n, !.client = 0]]
  PROVE  Starts(o, x.k, x.e, x.a, x.pc) /\ Closes(ent[cur].client) /\ Becomes(cur, n, ent[cur].status, 0)
<1>1. cur \in 1 .. MaxEntries /\ ent[cur] \in EntryRecords /\ ent[cur].client \in 0 .. MaxOps
  BY McpFields
<1>2. Closes(ent[cur].client)
  BY <1>1, ClosesEffect
<1>3. [ent[cur] EXCEPT !.a = n, !.client = 0] \in EntryRecords
  BY <1>1, ZeroFacts DEF EntryRecords
<1>4. Becomes(cur, n, ent[cur].status, 0)
  <2> DEFINE r == [ent[cur] EXCEPT !.a = n, !.client = 0]
  <2>1. r.cfg = ent[cur].cfg /\ r.a = n /\ r.status = ent[cur].status /\ r.client = 0
    BY <1>1 DEF EntryRecords
  <2> HIDE DEF r
  <2> QED
    BY <1>1, <1>3, <2>1, BecomesEffect DEF r
<1> QED
  BY <1>2, <1>4, StartsEffect DEF Mcp!Next1

LEMMA ConnectEffect ==
  ASSUME RecordsOK, EntriesOK, NEW o \in Mcp!Ops, NEW cfg \in Configs, Mcp!connect(o, cfg)
  PROVE  /\ Mcp!Serial /\ Mcp!Entries < MaxEntries /\ ops[o].pc = "idle"
         /\ \/ cur = 0 /\ Enters(o)
            \/ /\ cur # 0 /\ Starts(o, "connect", 0, 0, "close") /\ Closes(ent[cur].client)
               /\ Becomes(cur, ent[cur].a, ent[cur].status, 0)
               /\ Quiescent /\ cur' = cur /\ joined' = joined /\ mcpOdd' = mcpOdd
<1>1. Mcp!Serial /\ Mcp!Entries < MaxEntries /\ ops[o].pc = "idle" /\ Mcp!Next1(o)
  BY DEF Mcp!connect, Mcp!Next1
<1>2. CASE cur = 0
  <2>1. Mcp!NewEntry(o, cfg) /\ clients' = clients
    BY <1>2 DEF Mcp!connect
  <2> QED
    BY <1>1, <1>2, <2>1, EntersEffect
<1>3. CASE cur # 0
  <2> DEFINE x == [Mcp!NoOp EXCEPT !.k = "connect", !.pc = "close", !.cfg = cfg]
  <2>1. /\ ops' = [ops EXCEPT ![o] = x] /\ clients' = Mcp!Closed(ent[cur].client)
        /\ ent' = [ent EXCEPT ![cur].client = 0]
        /\ Quiescent /\ cur' = cur /\ joined' = joined /\ mcpOdd' = mcpOdd
    BY <1>3 DEF Mcp!connect, Mcp!Silent, Quiescent
  <2>2. x \in Operations /\ x.k = "connect" /\ x.e = 0 /\ x.a = 0 /\ x.pc = "close"
    BY ZeroFacts DEF Operations, Mcp!NoOp
  <2>3. cur \in 1 .. MaxEntries /\ ent[cur] \in EntryRecords /\ ent[cur].a \in Nat
    BY <1>3, McpFields
  <2>4. ent' = [ent EXCEPT ![cur] = [ent[cur] EXCEPT !.a = ent[cur].a, !.client = 0]]
    BY <2>1, <2>3 DEF EntryRecords
  <2> HIDE DEF x
  <2> QED
    BY <1>1, <1>3, <2>1, <2>2, <2>3, <2>4, ClosingEffect
<1> QED
  BY <1>2, <1>3

LEMMA RemovalEffect ==
  ASSUME RecordsOK, EntriesOK, NEW o \in Mcp!Ops, NEW k \in {"remove", "markRemoved"}, Mcp!removal(o, k)
  PROVE  /\ Mcp!Serial /\ cur # 0 /\ Starts(o, k, cur, 0, "close") /\ Closes(ent[cur].client)
         /\ Becomes(cur, ent[cur].a, ent[cur].status, 0)
         /\ Quiescent /\ cur' = cur /\ joined' = joined /\ mcpOdd' = mcpOdd
<1> DEFINE x == [Mcp!NoOp EXCEPT !.k = k, !.e = cur, !.pc = "close"]
<1>1. /\ Mcp!Serial /\ cur # 0 /\ Mcp!Next1(o)
      /\ ops' = [ops EXCEPT ![o] = x] /\ clients' = Mcp!Closed(ent[cur].client)
      /\ ent' = [ent EXCEPT ![cur].client = 0]
      /\ Quiescent /\ cur' = cur /\ joined' = joined /\ mcpOdd' = mcpOdd
  BY DEF Mcp!removal, Mcp!Silent, Quiescent
<1>2. cur \in 1 .. MaxEntries /\ ent[cur] \in EntryRecords /\ ent[cur].a \in Nat
  BY <1>1, McpFields
<1>3. x \in Operations /\ x.k = k /\ x.e = cur /\ x.a = 0 /\ x.pc = "close"
  <2>1. cur \in 0 .. MaxEntries
    BY <1>2
  <2> QED
    BY <2>1, ZeroFacts DEF Operations, Mcp!NoOp
<1>4. ent' = [ent EXCEPT ![cur] = [ent[cur] EXCEPT !.a = ent[cur].a, !.client = 0]]
  BY <1>1, <1>2 DEF EntryRecords
<1> HIDE DEF x
<1>5. Starts(o, x.k, x.e, x.a, x.pc) /\ Closes(ent[cur].client) /\ Becomes(cur, ent[cur].a, ent[cur].status, 0)
  BY <1>1, <1>2, <1>3, <1>4, ClosingEffect
<1> QED
  BY <1>1, <1>3, <1>5

LEMMA ReconnectEffect ==
  ASSUME RecordsOK, EntriesOK, NEW o \in Mcp!Ops, NEW k \in {"reconnect", "join"}, Mcp!reconnect(o, k)
  PROVE  /\ cur # 0 /\ ent[cur].cfg # Off /\ Starts(o, k, cur, ent[cur].a + 1, "close") /\ Closes(ent[cur].client)
         /\ Becomes(cur, ent[cur].a + 1, ent[cur].status, 0)
         /\ Quiescent /\ cur' = cur /\ mcpOdd' = mcpOdd
         /\ joined' = joined \/ (k = "join" /\ joined = 0 /\ joined' = o)
<1> DEFINE x == [k |-> k, e |-> cur, a |-> ent[cur].a + 1, pc |-> "close", cfg |-> Off, on |-> 0]
<1>1. /\ cur # 0 /\ ent[cur].cfg # Off /\ Mcp!Next1(o)
      /\ ops' = [ops EXCEPT ![o] = x] /\ clients' = Mcp!Closed(ent[cur].client)
      /\ ent' = [ent EXCEPT ![cur].a = @ + 1, ![cur].client = 0]
      /\ Quiescent /\ cur' = cur /\ mcpOdd' = mcpOdd
      /\ joined' = joined \/ (k = "join" /\ joined = 0 /\ joined' = o)
  BY DEF Mcp!reconnect, Mcp!Silent, Quiescent
<1>2. cur \in 1 .. MaxEntries /\ ent[cur] \in EntryRecords /\ ent[cur].a \in Nat
  BY <1>1, McpFields
<1>3. ent[cur].a + 1 \in Nat
  BY <1>2
<1>4. x \in Operations /\ x.k = k /\ x.e = cur /\ x.a = ent[cur].a + 1 /\ x.pc = "close"
  BY <1>2, <1>3, ConnectionBounds DEF Operations
<1>5. ent' = [ent EXCEPT ![cur] = [ent[cur] EXCEPT !.a = ent[cur].a + 1, !.client = 0]]
  BY <1>1, <1>2 DEF EntryRecords
<1> HIDE DEF x
<1>6. Starts(o, x.k, x.e, x.a, x.pc) /\ Closes(ent[cur].client) /\ Becomes(cur, ent[cur].a + 1, ent[cur].status, 0)
  BY <1>1, <1>3, <1>4, <1>5, ClosingEffect
<1> QED
  BY <1>1, <1>4, <1>6

LEMMA SetEntry ==
  ASSUME RecordsOK, EntriesOK, NEW e \in 1 .. MaxEntries, NEW s \in Mcp!Statuses, NEW c \in 0 .. MaxOps
  PROVE  /\ ent' = [ent EXCEPT ![e].status = s] => Becomes(e, ent[e].a, s, ent[e].client)
         /\ ent' = [ent EXCEPT ![e].client = c] => Becomes(e, ent[e].a, ent[e].status, c)
         /\ ent' = [ent EXCEPT ![e].status = s, ![e].client = c] => Becomes(e, ent[e].a, s, c)
<1>1. ent[e] \in EntryRecords
  BY McpFields
<1> DEFINE r1 == [ent[e] EXCEPT !.status = s]
           r2 == [ent[e] EXCEPT !.client = c]
           r3 == [ent[e] EXCEPT !.status = s, !.client = c]
<1>2. r1 \in EntryRecords /\ r2 \in EntryRecords /\ r3 \in EntryRecords
  BY <1>1 DEF EntryRecords
<1>3. /\ r1.cfg = ent[e].cfg /\ r1.a = ent[e].a /\ r1.status = s /\ r1.client = ent[e].client
      /\ r2.cfg = ent[e].cfg /\ r2.a = ent[e].a /\ r2.status = ent[e].status /\ r2.client = c
      /\ r3.cfg = ent[e].cfg /\ r3.a = ent[e].a /\ r3.status = s /\ r3.client = c
  BY <1>1 DEF EntryRecords
<1>4. ASSUME ent' = [ent EXCEPT ![e].status = s] PROVE Becomes(e, ent[e].a, s, ent[e].client)
  <2>1. ent' = [ent EXCEPT ![e] = r1]
    BY <1>4
  <2> HIDE DEF r1
  <2> QED
    BY <1>2, <1>3, <2>1, BecomesEffect
<1>5. ASSUME ent' = [ent EXCEPT ![e].client = c] PROVE Becomes(e, ent[e].a, ent[e].status, c)
  <2>1. ent' = [ent EXCEPT ![e] = r2]
    BY <1>5
  <2> HIDE DEF r2
  <2> QED
    BY <1>2, <1>3, <2>1, BecomesEffect
<1>6. ASSUME ent' = [ent EXCEPT ![e].status = s, ![e].client = c] PROVE Becomes(e, ent[e].a, s, c)
  <2>1. ent' = [ent EXCEPT ![e] = r3]
    BY <1>1, <1>6 DEF RecordsOK, EntryRecords
  <2> HIDE DEF r3
  <2> QED
    BY <1>2, <1>3, <2>1, BecomesEffect
<1> QED
  BY <1>4, <1>5, <1>6

\* The entry of an operation that is past its start.
LEMMA OwnEntry ==
  ASSUME RecordsOK, EntriesOK, NEW o \in Mcp!Ops, ops[o].pc # "idle", ~(ops[o].k = "connect" /\ ops[o].pc = "close")
  PROVE  ops[o].e \in 1 .. MaxEntries /\ ent[ops[o].e] \in EntryRecords /\ ent[ops[o].e].client \in 0 .. MaxOps
<1>1. ops[o].e # 0
  BY McpFields DEF RecordsOK, PlaceOK, Operations
<1> QED
  BY <1>1, McpFields

\* The status told is that of the entry.
TellsEntry(e) == Tells(ent'[e].status, ent'[e].client)

LEMMA TellsEntryEffect ==
  ASSUME NEW e \in 1 .. MaxEntries, ent' \in [1 .. MaxEntries -> EntryRecords], Mcp!emit(ent'[e])
  PROVE  TellsEntry(e)
<1>1. ent'[e] \in EntryRecords
  OBVIOUS
<1>2. ASSUME NEW r \in EntryRecords, r = ent'[e] PROVE TellsEntry(e)
  <2>1. Mcp!emit(r)
    BY <1>2
  <2>2. Tells(r.status, r.client)
    BY <2>1, TellsEffect
  <2> QED
    BY <1>2, <2>2 DEF TellsEntry
<1> QED
  BY <1>1, <1>2

Ends(o) == MovesTo(o, "done") /\ joined' = IF joined = o THEN 0 ELSE joined

LEMMA EndsEffect ==
  ASSUME RecordsOK, NEW o \in Mcp!Ops, Mcp!Over(o)
  PROVE  Ends(o)
BY MovesToEffect DEF Mcp!Over, Ends, McpPlaces

LEMMA ConnectGoesOnEffect ==
  ASSUME RecordsOK, EntriesOK, MutationsOK, NEW o \in Mcp!Ops, Mcp!ConnectGoesOn(o)
  PROVE  ops[o].k = "connect" /\ ops[o].pc = "close" /\ Enters(o)
<1>1. ops[o].k = "connect" /\ ops[o].pc = "close" /\ Mcp!NewEntry(o, ops[o].cfg) /\ clients' = clients
  BY DEF Mcp!ConnectGoesOn
<1>2. Mcp!Entries < MaxEntries /\ ops[o].cfg \in Configs \cup {Off}
  BY <1>1, McpFields DEF MutationsOK, Operations
<1> QED
  BY <1>1, <1>2, EntersEffect

LEMMA RemoveEffect ==
  ASSUME RecordsOK, EntriesOK, MutationsOK, NEW o \in Mcp!Ops, Mcp!remove(o)
  PROVE  /\ ops[o].k = "remove" /\ ops[o].pc = "close" /\ ops[o].e = cur /\ cur # 0 /\ MovesTo(o, "done")
         /\ Becomes(cur, ent[cur].a, "disabled", ent[cur].client) /\ TellsEntry(cur) /\ cur' = 0
         /\ mcpOdd' = (IF ent[cur].client # 0 THEN mcpOdd \cup {"lost"} ELSE mcpOdd)
         /\ clients' = clients /\ joined' = joined
<1> DEFINE e == ops[o].e
<1>1. /\ ops[o].k = "remove" /\ ops[o].pc = "close" /\ Mcp!At(o, "done") /\ ent' = [ent EXCEPT ![e].status = "disabled"]
      /\ Mcp!emit(ent'[e]) /\ cur' = 0 /\ mcpOdd' = Mcp!Lost(e) /\ clients' = clients /\ joined' = joined
  BY DEF Mcp!remove
<1>2. e \in 1 .. MaxEntries /\ e = cur /\ e # 0
  BY <1>1, OwnEntry DEF MutationsOK
<1>3. Becomes(e, ent[e].a, "disabled", ent[e].client)
  BY <1>1, <1>2, ZeroFacts, SetEntry DEF Mcp!Statuses
<1>4. TellsEntry(e)
  BY <1>1, <1>2, <1>3, TellsEntryEffect DEF Becomes
<1>5. MovesTo(o, "done")
  BY <1>1, MovesToEffect DEF McpPlaces
<1> QED
  BY <1>1, <1>2, <1>3, <1>4, <1>5 DEF Mcp!Lost

LEMMA MarkRemovedEffect ==
  ASSUME RecordsOK, EntriesOK, MutationsOK, NEW o \in Mcp!Ops, Mcp!markRemoved(o)
  PROVE  /\ ops[o].k = "markRemoved" /\ ops[o].pc = "close" /\ ops[o].e = cur /\ cur # 0 /\ MovesTo(o, "done")
         /\ Becomes(cur, ent[cur].a, "removed", ent[cur].client) /\ TellsEntry(cur) /\ cur' = cur
         /\ mcpOdd' \in {mcpOdd, mcpOdd \cup {"late"}}
         /\ clients' = clients /\ joined' = joined
<1> DEFINE e == ops[o].e
<1>1. /\ ops[o].k = "markRemoved" /\ ops[o].pc = "close" /\ Mcp!At(o, "done") /\ ent' = [ent EXCEPT ![e].status = "removed"]
      /\ Mcp!emit(ent'[e]) /\ cur' = cur /\ mcpOdd' = Mcp!Late(e) /\ clients' = clients /\ joined' = joined
  BY DEF Mcp!markRemoved
<1>2. e \in 1 .. MaxEntries /\ e = cur /\ e # 0
  BY <1>1, OwnEntry DEF MutationsOK
<1>3. Becomes(e, ent[e].a, "removed", ent[e].client)
  BY <1>1, <1>2, ZeroFacts, SetEntry DEF Mcp!Statuses
<1>4. TellsEntry(e)
  BY <1>1, <1>2, <1>3, TellsEntryEffect DEF Becomes
<1>5. MovesTo(o, "done")
  BY <1>1, MovesToEffect DEF McpPlaces
<1> QED
  BY <1>1, <1>2, <1>3, <1>4, <1>5 DEF Mcp!Late

LEMMA ReconnectGoesOnEffect ==
  ASSUME RecordsOK, EntriesOK, NEW o \in Mcp!Ops, Mcp!ReconnectGoesOn(o)
  PROVE  /\ ops[o].k \in {"reconnect", "join"} /\ ops[o].pc = "close" /\ ops[o].e \in 1 .. MaxEntries
         /\ cur' = cur /\ clients' = clients /\ mcpOdd' = mcpOdd
         /\ \/ /\ cur = ops[o].e /\ ent[cur].a = ops[o].a /\ MovesTo(o, "create") /\ joined' = joined
               /\ Becomes(cur, ent[cur].a, "pending", ent[cur].client) /\ TellsEntry(cur)
            \/ /\ ~(cur = ops[o].e /\ ent[ops[o].e].a = ops[o].a) /\ Ends(o) /\ Quiescent /\ ent' = ent
<1> DEFINE e == ops[o].e
<1>1. /\ ops[o].k \in {"reconnect", "join"} /\ ops[o].pc = "close" /\ cur' = cur /\ clients' = clients /\ mcpOdd' = mcpOdd
  BY DEF Mcp!ReconnectGoesOn
<1>2. e \in 1 .. MaxEntries /\ ent[e] \in EntryRecords
  BY <1>1, OwnEntry
<1>3. CASE Mcp!isCurrent(e, ops[o].a)
  <2>1. ent' = [ent EXCEPT ![e] = Mcp!Pending(e)] /\ Mcp!emit(ent'[e]) /\ Mcp!At(o, "create") /\ joined' = joined
    BY <1>3 DEF Mcp!ReconnectGoesOn
  <2>2. ent' = [ent EXCEPT ![e].status = "pending"]
    BY <2>1 DEF Mcp!Pending
  <2>3. Becomes(e, ent[e].a, "pending", ent[e].client)
    BY <1>2, <2>2, ZeroFacts, SetEntry DEF Mcp!Statuses
  <2>4. TellsEntry(e)
    BY <1>2, <2>1, <2>3, TellsEntryEffect DEF Becomes
  <2>5. MovesTo(o, "create")
    BY <2>1, MovesToEffect DEF McpPlaces
  <2> QED
    BY <1>1, <1>2, <1>3, <2>1, <2>3, <2>4, <2>5 DEF Mcp!isCurrent
<1>4. CASE ~Mcp!isCurrent(e, ops[o].a)
  <2>1. Mcp!Over(o) /\ Mcp!Silent /\ ent' = ent
    BY <1>4 DEF Mcp!ReconnectGoesOn
  <2> QED
    BY <1>1, <1>2, <1>4, <2>1, EndsEffect DEF Mcp!isCurrent, Mcp!Silent, Quiescent
<1> QED
  BY <1>3, <1>4

LEMMA CreateClientEffect ==
  ASSUME RecordsOK, EntriesOK, NEW o \in Mcp!Ops, Mcp!createClient(o)
  PROVE  /\ Attempt(o) /\ ops[o].pc = "create" /\ ops[o].e \in 1 .. MaxEntries /\ MovesTo(o, "discover")
         /\ clients[o] = "none" /\ clients' = [clients EXCEPT ![o] = "open"]
         /\ Becomes(ops[o].e, ent[ops[o].e].a, ent[ops[o].e].status, o)
         /\ cur' = cur /\ joined' = joined /\ Quiescent
         /\ mcpOdd \subseteq mcpOdd' /\ ("lost" \in mcpOdd' <=> "lost" \in mcpOdd) /\ mcpOdd' \subseteq mcpOdd \cup {"clobber"}
         /\ Unclobbered' => \A p \in Mcp!Ops : p # o /\ ops[p].e = ops[o].e /\ clients[p] # "none" =>
                                ~(ops[o].a < ent[ops[o].e].a /\ ops[p].a > ops[o].a)
<1> DEFINE e == ops[o].e
<1>1. /\ ops[o].pc = "create" /\ Mcp!At(o, "discover") /\ clients' = [clients EXCEPT ![o] = "open"]
      /\ ent' = [ent EXCEPT ![e].client = o] /\ cur' = cur /\ joined' = joined /\ Quiescent
      /\ mcpOdd' = IF ops[o].a < ent[e].a /\ \E p \in Mcp!Ops : /\ p # o /\ ops[p].e = e
                                                                /\ ops[p].a > ops[o].a /\ clients[p] # "none"
                   THEN mcpOdd \cup {"clobber"} ELSE mcpOdd
  BY DEF Mcp!createClient, Mcp!Silent, Quiescent
<1>2. e \in 1 .. MaxEntries /\ o \in 0 .. MaxOps /\ e # 0
  <2>1. e \in 1 .. MaxEntries
    BY <1>1, OwnEntry
  <2> QED
    BY <2>1, ConnectionBounds DEF Mcp!Ops
<1>3. Attempt(o) /\ clients[o] = "none"
  BY <1>1, <1>2, McpFields DEF RecordsOK, PlaceOK, Attempt, Operations
<1>4. Becomes(e, ent[e].a, ent[e].status, o)
  BY <1>1, <1>2, SetEntry DEF Mcp!Statuses
<1>5. MovesTo(o, "discover")
  BY <1>1, MovesToEffect DEF McpPlaces
<1>6. Unclobbered' => \A p \in Mcp!Ops : p # o /\ ops[p].e = e /\ clients[p] # "none" =>
                         ~(ops[o].a < ent[e].a /\ ops[p].a > ops[o].a)
  BY <1>1 DEF Unclobbered
<1> QED
  BY <1>1, <1>2, <1>3, <1>4, <1>5, <1>6

\* An attempt that is not current ends without a word.
Overtaken(o) == ~(cur = ops[o].e /\ ent[ops[o].e].a = ops[o].a)
GivesUp(o) == Overtaken(o) /\ MovesTo(o, "stale") /\ Quiescent /\ ent' = ent /\ joined' = joined

LEMMA ConnectedEffect ==
  ASSUME RecordsOK, EntriesOK, NEW o \in Mcp!Ops, Mcp!connected(o)
  PROVE  /\ Attempt(o) /\ ops[o].pc = "discover" /\ ops[o].e \in 1 .. MaxEntries /\ clients[o] = "open"
         /\ cur' = cur /\ mcpOdd' = mcpOdd
         /\ \/ /\ ~Overtaken(o) /\ cur # 0 /\ Ends(o) /\ clients' = clients
               /\ Becomes(cur, ent[cur].a, "connected", ent[cur].client) /\ TellsEntry(cur)
            \/ GivesUp(o) /\ Closes(o)
<1> DEFINE e == ops[o].e
<1>1. ops[o].pc = "discover" /\ clients[o] = "open" /\ cur' = cur /\ mcpOdd' = mcpOdd
  BY DEF Mcp!connected
<1>2. e \in 1 .. MaxEntries /\ ent[e] \in EntryRecords /\ e # 0
  BY <1>1, OwnEntry
<1>3. Attempt(o)
  BY <1>1, <1>2, McpFields DEF RecordsOK, PlaceOK, Attempt, Operations
<1>4. CASE Mcp!isCurrent(e, ops[o].a)
  <2>1. ent' = [ent EXCEPT ![e].status = "connected"] /\ Mcp!emit(ent'[e]) /\ Mcp!Over(o) /\ clients' = clients
    BY <1>4 DEF Mcp!connected
  <2>2. Becomes(e, ent[e].a, "connected", ent[e].client)
    BY <1>2, <2>1, ZeroFacts, SetEntry DEF Mcp!Statuses
  <2>3. TellsEntry(e)
    BY <1>2, <2>1, <2>2, TellsEntryEffect DEF Becomes
  <2> QED
    BY <1>1, <1>2, <1>3, <1>4, <2>1, <2>2, <2>3, EndsEffect DEF Mcp!isCurrent, Overtaken
<1>5. CASE ~Mcp!isCurrent(e, ops[o].a)
  <2>1. clients' = Mcp!Closed(o) /\ Mcp!At(o, "stale") /\ Mcp!Silent /\ ent' = ent /\ joined' = joined
    BY <1>5 DEF Mcp!connected, Mcp!CloseStale
  <2>2. Closes(o)
    BY <2>1, ClosesEffect, ConnectionBounds DEF Mcp!Ops
  <2>3. MovesTo(o, "stale")
    BY <2>1, MovesToEffect DEF McpPlaces
  <2> QED
    BY <1>1, <1>2, <1>3, <1>5, <2>1, <2>2, <2>3 DEF Mcp!isCurrent, Overtaken, GivesUp, Mcp!Silent, Quiescent
<1> QED
  BY <1>4, <1>5

LEMMA ConnectFailsEffect ==
  ASSUME RecordsOK, EntriesOK, NEW o \in Mcp!Ops, NEW s \in {"failed", "needs-auth"}, Mcp!ConnectFails(o, s)
  PROVE  /\ Attempt(o) /\ ops[o].pc \in {"create", "discover"} /\ ops[o].e \in 1 .. MaxEntries
         /\ cur' = cur /\ mcpOdd' = mcpOdd
         /\ \/ /\ ~Overtaken(o) /\ cur # 0 /\ MovesTo(o, "report") /\ Quiescent /\ joined' = joined
               /\ Closes(ent[cur].client) /\ Becomes(cur, ent[cur].a, s, 0)
            \/ GivesUp(o) /\ ((clients[o] = "none" /\ clients' = clients) \/ Closes(o))
<1> DEFINE e == ops[o].e
<1>1. ops[o].pc \in {"create", "discover"} /\ cur' = cur /\ mcpOdd' = mcpOdd /\ Quiescent /\ joined' = joined
  BY DEF Mcp!ConnectFails, Mcp!InConnectOne, Mcp!Silent, Quiescent
<1>2. e \in 1 .. MaxEntries /\ ent[e] \in EntryRecords /\ e # 0 /\ ent[e].client \in 0 .. MaxOps
  BY <1>1, OwnEntry
<1>3. Attempt(o)
  BY <1>1, <1>2, McpFields DEF RecordsOK, PlaceOK, Attempt, Operations
<1>4. CASE Mcp!isCurrent(e, ops[o].a)
  <2>1. /\ ent' = [ent EXCEPT ![e].status = s, ![e].client = 0] /\ Mcp!At(o, "report")
        /\ clients' = IF ent[e].client = 0 THEN clients ELSE Mcp!Closed(ent[e].client)
    BY <1>4 DEF Mcp!ConnectFails
  <2>2. clients' = Mcp!Closed(ent[e].client)
    BY <2>1 DEF Mcp!Closed
  <2>3. Closes(ent[e].client)
    BY <1>2, <2>2, ClosesEffect
  <2>4. Becomes(e, ent[e].a, s, 0)
    BY <1>2, <2>1, ZeroFacts, SetEntry DEF Mcp!Statuses
  <2>5. MovesTo(o, "report")
    BY <2>1, MovesToEffect DEF McpPlaces
  <2> QED
    BY <1>1, <1>2, <1>3, <1>4, <2>3, <2>4, <2>5 DEF Mcp!isCurrent, Overtaken
<1>5. CASE ~Mcp!isCurrent(e, ops[o].a)
  <2>1. clients' = (IF clients[o] = "none" THEN clients ELSE Mcp!Closed(o)) /\ Mcp!At(o, "stale") /\ ent' = ent
    BY <1>5 DEF Mcp!ConnectFails, Mcp!CloseStale
  <2>2. (clients[o] = "none" /\ clients' = clients) \/ Closes(o)
    BY <2>1, ClosesEffect, ConnectionBounds DEF Mcp!Ops
  <2>3. MovesTo(o, "stale")
    BY <2>1, MovesToEffect DEF McpPlaces
  <2> QED
    BY <1>1, <1>2, <1>3, <1>5, <2>1, <2>2, <2>3 DEF Mcp!isCurrent, Overtaken, GivesUp
<1> QED
  BY <1>4, <1>5

LEMMA EmitEffect ==
  ASSUME RecordsOK, NEW e \in 1 .. MaxEntries, Mcp!emit(ent[e])
  PROVE  Tells(ent[e].status, ent[e].client)
BY TellsEffect DEF RecordsOK

\* The status of the current entry is told.
TellsCurrent == cur # 0 /\ Tells(ent[cur].status, ent[cur].client)

LEMMA ConnectEndsEffect ==
  ASSUME RecordsOK, EntriesOK, NEW o \in Mcp!Ops, Mcp!ConnectEnds(o)
  PROVE  /\ Attempt(o) /\ ops[o].pc \in {"report", "stale"} /\ Ends(o)
         /\ ent' = ent /\ cur' = cur /\ clients' = clients /\ mcpOdd' = mcpOdd
         /\ TellsCurrent \/ (Quiescent /\ (ops[o].pc = "report" => Overtaken(o)))
<1>1. /\ ops[o].pc \in {"report", "stale"} /\ Mcp!Over(o)
      /\ ent' = ent /\ cur' = cur /\ clients' = clients /\ mcpOdd' = mcpOdd
      /\ IF ops[o].pc = "report" /\ Mcp!isCurrent(ops[o].e, ops[o].a) THEN Mcp!emit(ent[ops[o].e]) ELSE Mcp!Silent
  BY DEF Mcp!ConnectEnds
<1>2. ops[o].e \in 1 .. MaxEntries /\ ops[o].e # 0
  BY <1>1, OwnEntry
<1>3. Attempt(o)
  BY <1>1, <1>2, McpFields DEF RecordsOK, PlaceOK, Attempt, Operations
<1>4. TellsCurrent \/ (Quiescent /\ (ops[o].pc = "report" => Overtaken(o)))
  BY <1>1, <1>2, EmitEffect DEF Mcp!isCurrent, Mcp!Silent, Overtaken, Quiescent, TellsCurrent
<1> QED
  BY <1>1, <1>3, <1>4, EndsEffect

LEMMA UnexpectedCloseEffect ==
  ASSUME RecordsOK, EntriesOK, NEW c \in Mcp!Ops, Mcp!UnexpectedClose(c)
  PROVE  /\ clients[c] = "open" /\ clients' = [clients EXCEPT ![c] = "died"]
         /\ ops' = ops /\ cur' = cur /\ joined' = joined /\ mcpOdd' = mcpOdd
         /\ \/ /\ ~Overtaken(c) /\ cur # 0 /\ ops[c].pc = "done" /\ ent[cur].client = c
               /\ Becomes(cur, ent[cur].a, "failed", 0) /\ TellsEntry(cur)
            \/ /\ ~(ops[c].pc = "done" /\ ~Overtaken(c) /\ ent[cur].client = c) /\ Quiescent /\ ent' = ent
<1> DEFINE e == ops[c].e
<1>1. /\ clients[c] = "open" /\ clients' = [clients EXCEPT ![c] = "died"]
      /\ ops' = ops /\ cur' = cur /\ joined' = joined /\ mcpOdd' = mcpOdd
  BY DEF Mcp!UnexpectedClose
<1>2. ops[c].pc # "idle" /\ ops[c].pc # "close"
  BY <1>1 DEF RecordsOK, PlaceOK
<1>3. e \in 1 .. MaxEntries /\ e # 0
  BY <1>2, OwnEntry
<1>4. CASE ops[c].pc = "done" /\ Mcp!isCurrent(e, ops[c].a) /\ ent[e].client = c
  <2>1. ent' = [ent EXCEPT ![e].status = "failed", ![e].client = 0] /\ Mcp!emit(ent'[e])
    BY <1>4 DEF Mcp!UnexpectedClose
  <2>2. Becomes(e, ent[e].a, "failed", 0)
    BY <1>3, <2>1, ZeroFacts, SetEntry DEF Mcp!Statuses
  <2>3. TellsEntry(e)
    BY <1>3, <2>1, <2>2, TellsEntryEffect DEF Becomes
  <2> QED
    BY <1>1, <1>3, <1>4, <2>2, <2>3 DEF Mcp!isCurrent, Overtaken
<1>5. CASE ~(ops[c].pc = "done" /\ Mcp!isCurrent(e, ops[c].a) /\ ent[e].client = c)
  BY <1>1, <1>5 DEF Mcp!UnexpectedClose, Mcp!isCurrent, Overtaken, Mcp!Silent, Quiescent
<1> QED
  BY <1>4, <1>5

LEMMA MarkNeedsAuthEffect ==
  ASSUME RecordsOK, EntriesOK, NEW o \in Mcp!Ops, Mcp!markNeedsAuth(o)
  PROVE  /\ cur # 0 /\ Starts(o, "auth", cur, ent[cur].a, "peek")
         /\ Quiescent /\ ent' = ent /\ cur' = cur /\ clients' = clients /\ joined' = joined /\ mcpOdd' = mcpOdd
<1> DEFINE x == [k |-> "auth", e |-> cur, a |-> ent[cur].a, pc |-> "peek", cfg |-> Off, on |-> tools]
<1>1. /\ Mcp!Next1(o) /\ cur # 0 /\ ops' = [ops EXCEPT ![o] = x]
      /\ Quiescent /\ ent' = ent /\ cur' = cur /\ clients' = clients /\ joined' = joined /\ mcpOdd' = mcpOdd
  BY DEF Mcp!markNeedsAuth, Mcp!Silent, Quiescent
<1>2. cur \in 1 .. MaxEntries /\ ent[cur].a \in Nat /\ tools \in 0 .. MaxOps
  BY <1>1, McpFields DEF RecordsOK, Mcp!TypeOK
<1>3. x \in Operations /\ x.k = "auth" /\ x.e = cur /\ x.a = ent[cur].a /\ x.pc = "peek"
  <2>1. cur \in 0 .. MaxEntries
    BY <1>2
  <2> QED
    BY <1>2, <2>1 DEF Operations
<1> HIDE DEF x
<1> QED
  BY <1>1, <1>3, StartsEffect DEF Mcp!Next1

LEMMA PeekedEffect ==
  ASSUME RecordsOK, EntriesOK, NEW o \in Mcp!Ops, Mcp!Peeked(o)
  PROVE  /\ ops[o].k = "auth" /\ ops[o].pc = "peek"
         /\ Quiescent /\ cur' = cur /\ joined' = joined /\ mcpOdd' = mcpOdd
         /\ \/ MovesTo(o, "done") /\ ent' = ent /\ clients' = clients
            \/ /\ ~Overtaken(o) /\ cur # 0 /\ MovesTo(o, "authClose") /\ Closes(ent[cur].client)
               /\ Becomes(cur, ent[cur].a, ent[cur].status, 0)
<1> DEFINE e == ops[o].e
<1>1. /\ ops[o].k = "auth" /\ ops[o].pc = "peek" /\ Quiescent /\ cur' = cur /\ joined' = joined /\ mcpOdd' = mcpOdd
      /\ \/ Mcp!At(o, "done") /\ ent' = ent /\ clients' = clients
         \/ /\ Mcp!isCurrent(e, ops[o].a) /\ Mcp!At(o, "authClose")
            /\ clients' = Mcp!Closed(ent[e].client) /\ ent' = [ent EXCEPT ![e].client = 0]
  BY DEF Mcp!Peeked, Mcp!Silent, Quiescent
<1>2. e \in 1 .. MaxEntries /\ e # 0 /\ ent[e].client \in 0 .. MaxOps /\ ent[e] \in EntryRecords
  BY <1>1, OwnEntry
<1>3. CASE Mcp!At(o, "done") /\ ent' = ent /\ clients' = clients
  BY <1>1, <1>3, MovesToEffect DEF McpPlaces
<1>4. CASE /\ Mcp!isCurrent(e, ops[o].a) /\ Mcp!At(o, "authClose")
           /\ clients' = Mcp!Closed(ent[e].client) /\ ent' = [ent EXCEPT ![e].client = 0]
  <2>1. Becomes(e, ent[e].a, ent[e].status, 0)
    BY <1>2, <1>4, ZeroFacts, SetEntry DEF Mcp!Statuses
  <2>2. Closes(ent[e].client)
    BY <1>2, <1>4, ClosesEffect
  <2>3. MovesTo(o, "authClose")
    BY <1>4, MovesToEffect DEF McpPlaces
  <2> QED
    BY <1>1, <1>2, <1>4, <2>1, <2>2, <2>3 DEF Mcp!isCurrent, Overtaken
<1> QED
  BY <1>1, <1>3, <1>4

LEMMA AuthClosedEffect ==
  ASSUME RecordsOK, EntriesOK, NEW o \in Mcp!Ops, Mcp!AuthClosed(o)
  PROVE  /\ ops[o].k = "auth" /\ ops[o].pc = "authClose"
         /\ Quiescent /\ cur' = cur /\ clients' = clients /\ joined' = joined /\ mcpOdd' = mcpOdd
         /\ \/ /\ ~Overtaken(o) /\ cur # 0 /\ MovesTo(o, "invalidate")
               /\ Becomes(cur, ent[cur].a, "needs-auth", ent[cur].client)
            \/ Overtaken(o) /\ MovesTo(o, "done") /\ ent' = ent
<1> DEFINE e == ops[o].e
<1>1. /\ ops[o].pc = "authClose"
      /\ Quiescent /\ cur' = cur /\ clients' = clients /\ joined' = joined /\ mcpOdd' = mcpOdd
  BY DEF Mcp!AuthClosed, Mcp!Silent, Quiescent
<1>2. ops[o].k = "auth"
  BY <1>1, McpFields DEF RecordsOK, PlaceOK, Operations
<1>3. e \in 1 .. MaxEntries /\ e # 0 /\ ent[e] \in EntryRecords
  BY <1>1, OwnEntry
<1>4. CASE Mcp!isCurrent(e, ops[o].a)
  <2>1. ent' = [ent EXCEPT ![e].status = "needs-auth"] /\ Mcp!At(o, "invalidate")
    BY <1>4 DEF Mcp!AuthClosed
  <2>2. Becomes(e, ent[e].a, "needs-auth", ent[e].client)
    BY <1>3, <2>1, ZeroFacts, SetEntry DEF Mcp!Statuses
  <2>3. MovesTo(o, "invalidate")
    BY <2>1, MovesToEffect DEF McpPlaces
  <2> QED
    BY <1>1, <1>2, <1>3, <1>4, <2>2, <2>3 DEF Mcp!isCurrent, Overtaken
<1>5. CASE ~Mcp!isCurrent(e, ops[o].a)
  <2>1. ent' = ent /\ Mcp!At(o, "done")
    BY <1>5 DEF Mcp!AuthClosed
  <2> QED
    BY <1>1, <1>2, <1>5, <2>1, MovesToEffect DEF Mcp!isCurrent, Overtaken, McpPlaces
<1> QED
  BY <1>4, <1>5

LEMMA InvalidatedEffect ==
  ASSUME RecordsOK, EntriesOK, NEW o \in Mcp!Ops, Mcp!Invalidated(o)
  PROVE  /\ ops[o].k = "auth" /\ ops[o].pc = "invalidate" /\ MovesTo(o, "done")
         /\ ent' = ent /\ cur' = cur /\ clients' = clients /\ joined' = joined /\ mcpOdd' = mcpOdd
         /\ TellsCurrent \/ (Quiescent /\ Overtaken(o))
<1>1. /\ ops[o].pc = "invalidate" /\ Mcp!At(o, "done")
      /\ ent' = ent /\ cur' = cur /\ clients' = clients /\ joined' = joined /\ mcpOdd' = mcpOdd
      /\ IF Mcp!isCurrent(ops[o].e, ops[o].a) THEN Mcp!emit(ent[ops[o].e]) ELSE Mcp!Silent
  BY DEF Mcp!Invalidated
<1>2. ops[o].e \in 1 .. MaxEntries /\ ops[o].e # 0
  BY <1>1, OwnEntry
<1>3. ops[o].k = "auth"
  BY <1>1, McpFields DEF RecordsOK, PlaceOK, Operations
<1>4. TellsCurrent \/ (Quiescent /\ Overtaken(o))
  BY <1>1, <1>2, EmitEffect DEF Mcp!isCurrent, Mcp!Silent, Overtaken, Quiescent, TellsCurrent
<1> QED
  BY <1>1, <1>3, <1>4, MovesToEffect DEF McpPlaces

\* What o may do.
McpAction(o) ==
  \/ Mcp!Step(o) \/ Mcp!markNeedsAuth(o) \/ Mcp!UnexpectedClose(o)
  \/ \E cfg \in Configs : Mcp!connect(o, cfg)
  \/ \E k \in {"remove", "markRemoved"} : Mcp!removal(o, k)
  \/ \E k \in {"reconnect", "join"} : Mcp!reconnect(o, k)

LEMMA ClosesKnown ==
  ASSUME RecordsOK, EntriesOK, cur # 0, Closes(ent[cur].client)
  PROVE  \A p \in Mcp!Ops : clients'[p] = "none" <=> clients[p] = "none"
<1>1. cur \in 1 .. MaxEntries
  BY McpFields
<1>2. ent[cur].client # 0 => clients[ent[cur].client] # "none"
  BY <1>1 DEF RecordsOK
<1> QED
  BY <1>2 DEF Closes, Mcp!Ops

LEMMA TellsTyped ==
  ASSUME RecordsOK, EntriesOK, ent' \in [1 .. MaxEntries -> EntryRecords]
  PROVE  /\ \A e \in 1 .. MaxEntries : TellsEntry(e) => shown' \in Mcp!Statuses \cup {"none"} /\ tools' \in 0 .. MaxOps
         /\ TellsCurrent => shown' \in Mcp!Statuses \cup {"none"} /\ tools' \in 0 .. MaxOps
         /\ Quiescent => shown' \in Mcp!Statuses \cup {"none"} /\ tools' \in 0 .. MaxOps
<1>1. shown \in Mcp!Statuses \cup {"none"} /\ tools \in 0 .. MaxOps /\ 0 \in 0 .. MaxOps
  BY ZeroFacts DEF RecordsOK, Mcp!TypeOK
<1>2. ASSUME NEW e \in 1 .. MaxEntries, TellsEntry(e)
      PROVE  shown' \in Mcp!Statuses \cup {"none"} /\ tools' \in 0 .. MaxOps
  <2>1. ent'[e].status \in Mcp!Statuses \cup {"none"} /\ ent'[e].client \in 0 .. MaxOps
    BY DEF EntryRecords
  <2> QED
    BY <1>1, <1>2, <2>1 DEF TellsEntry, Tells
<1>3. ASSUME TellsCurrent PROVE shown' \in Mcp!Statuses \cup {"none"} /\ tools' \in 0 .. MaxOps
  <2>1. ent[cur].status \in Mcp!Statuses \cup {"none"} /\ ent[cur].client \in 0 .. MaxOps
    BY <1>3, McpFields DEF TellsCurrent, EntryRecords
  <2> QED
    BY <1>1, <1>3, <2>1 DEF TellsCurrent, Tells
<1> QED
  BY <1>1, <1>2, <1>3 DEF Quiescent

LEMMA EntersRest ==
  ASSUME RecordsOK, EntriesOK, NEW o \in Mcp!Ops, Enters(o)
  PROVE  /\ shown' \in Mcp!Statuses \cup {"none"} /\ tools' \in 0 .. MaxOps
         /\ cur' \in 1 .. MaxEntries /\ cur' \in 0 .. MaxEntries /\ ops'[o].e = cur' /\ joined' = joined
         /\ mcpOdd' \subseteq {"clobber", "lost", "late"}
<1>1. cur' \in 1 .. MaxEntries /\ ops'[o].e = cur' /\ joined' = joined
  BY DEF Enters
<1>2. /\ ent'[cur'].status \in {"disabled", "pending"} /\ Tells(ent'[cur'].status, 0)
      /\ mcpOdd' \in {mcpOdd, mcpOdd \cup {"lost"}}
  BY DEF Enters
<1>3. tools \in 0 .. MaxOps /\ mcpOdd \subseteq {"clobber", "lost", "late"}
  BY DEF RecordsOK, Mcp!TypeOK
<1>4. shown' \in Mcp!Statuses \cup {"none"} /\ tools' \in 0 .. MaxOps
  BY <1>2, <1>3, ZeroFacts DEF Tells, Mcp!Statuses
<1> QED
  BY <1>1, <1>2, <1>3, <1>4

LEMMA OpsFrame ==
  ASSUME RecordsOK, EntriesOK, MutationsOK, NEW o \in Mcp!Ops, McpAction(o)
  PROVE  ops' \in [Mcp!Ops -> Operations] /\ Others(o)
<1>1. CASE \E cfg \in Configs : Mcp!connect(o, cfg)
  BY <1>1, ConnectEffect DEF RecordsOK, MovesTo, Starts, Others, Ends, GivesUp, Enters
<1>2. CASE Mcp!ConnectGoesOn(o)
  BY <1>2, ConnectGoesOnEffect DEF RecordsOK, MovesTo, Starts, Others, Ends, GivesUp, Enters
<1>3. CASE \E k \in {"remove", "markRemoved"} : Mcp!removal(o, k)
  BY <1>3, RemovalEffect DEF RecordsOK, MovesTo, Starts, Others, Ends, GivesUp, Enters
<1>4. CASE Mcp!remove(o)
  BY <1>4, RemoveEffect DEF RecordsOK, MovesTo, Starts, Others, Ends, GivesUp, Enters
<1>5. CASE Mcp!markRemoved(o)
  BY <1>5, MarkRemovedEffect DEF RecordsOK, MovesTo, Starts, Others, Ends, GivesUp, Enters
<1>6. CASE \E k \in {"reconnect", "join"} : Mcp!reconnect(o, k)
  BY <1>6, ReconnectEffect DEF RecordsOK, MovesTo, Starts, Others, Ends, GivesUp, Enters
<1>7. CASE Mcp!ReconnectGoesOn(o)
  BY <1>7, ReconnectGoesOnEffect DEF RecordsOK, MovesTo, Starts, Others, Ends, GivesUp, Enters
<1>8. CASE Mcp!createClient(o)
  BY <1>8, CreateClientEffect DEF RecordsOK, MovesTo, Starts, Others, Ends, GivesUp, Enters
<1>9. CASE Mcp!connected(o)
  BY <1>9, ConnectedEffect DEF RecordsOK, MovesTo, Starts, Others, Ends, GivesUp, Enters
<1>10. CASE \E s \in {"failed", "needs-auth"} : Mcp!ConnectFails(o, s)
  BY <1>10, ConnectFailsEffect DEF RecordsOK, MovesTo, Starts, Others, Ends, GivesUp, Enters
<1>11. CASE Mcp!ConnectEnds(o)
  BY <1>11, ConnectEndsEffect DEF RecordsOK, MovesTo, Starts, Others, Ends, GivesUp, Enters
<1>12. CASE Mcp!UnexpectedClose(o)
  BY <1>12, UnexpectedCloseEffect DEF RecordsOK, MovesTo, Starts, Others, Ends, GivesUp, Enters
<1>13. CASE Mcp!markNeedsAuth(o)
  BY <1>13, MarkNeedsAuthEffect DEF RecordsOK, MovesTo, Starts, Others, Ends, GivesUp, Enters
<1>14. CASE Mcp!Peeked(o)
  BY <1>14, PeekedEffect DEF RecordsOK, MovesTo, Starts, Others, Ends, GivesUp, Enters
<1>15. CASE Mcp!AuthClosed(o)
  BY <1>15, AuthClosedEffect DEF RecordsOK, MovesTo, Starts, Others, Ends, GivesUp, Enters
<1>16. CASE Mcp!Invalidated(o)
  BY <1>16, InvalidatedEffect DEF RecordsOK, MovesTo, Starts, Others, Ends, GivesUp, Enters
<1> QED
  BY <1>1, <1>2, <1>3, <1>4, <1>5, <1>6, <1>7, <1>8, <1>9, <1>10, <1>11, <1>12, <1>13, <1>14, <1>15, <1>16 DEF McpAction, Mcp!Step

LEMMA EntFrame ==
  ASSUME RecordsOK, EntriesOK, MutationsOK, NEW o \in Mcp!Ops, McpAction(o)
  PROVE  ent' \in [1 .. MaxEntries -> EntryRecords]
<1>1. CASE \E cfg \in Configs : Mcp!connect(o, cfg)
  BY <1>1, ConnectEffect DEF RecordsOK, Becomes, GivesUp, Enters
<1>2. CASE Mcp!ConnectGoesOn(o)
  BY <1>2, ConnectGoesOnEffect DEF RecordsOK, Becomes, GivesUp, Enters
<1>3. CASE \E k \in {"remove", "markRemoved"} : Mcp!removal(o, k)
  BY <1>3, RemovalEffect DEF RecordsOK, Becomes, GivesUp, Enters
<1>4. CASE Mcp!remove(o)
  BY <1>4, RemoveEffect DEF RecordsOK, Becomes, GivesUp, Enters
<1>5. CASE Mcp!markRemoved(o)
  BY <1>5, MarkRemovedEffect DEF RecordsOK, Becomes, GivesUp, Enters
<1>6. CASE \E k \in {"reconnect", "join"} : Mcp!reconnect(o, k)
  BY <1>6, ReconnectEffect DEF RecordsOK, Becomes, GivesUp, Enters
<1>7. CASE Mcp!ReconnectGoesOn(o)
  BY <1>7, ReconnectGoesOnEffect DEF RecordsOK, Becomes, GivesUp, Enters
<1>8. CASE Mcp!createClient(o)
  BY <1>8, CreateClientEffect DEF RecordsOK, Becomes, GivesUp, Enters
<1>9. CASE Mcp!connected(o)
  BY <1>9, ConnectedEffect DEF RecordsOK, Becomes, GivesUp, Enters
<1>10. CASE \E s \in {"failed", "needs-auth"} : Mcp!ConnectFails(o, s)
  BY <1>10, ConnectFailsEffect DEF RecordsOK, Becomes, GivesUp, Enters
<1>11. CASE Mcp!ConnectEnds(o)
  BY <1>11, ConnectEndsEffect DEF RecordsOK, Becomes, GivesUp, Enters
<1>12. CASE Mcp!UnexpectedClose(o)
  BY <1>12, UnexpectedCloseEffect DEF RecordsOK, Becomes, GivesUp, Enters
<1>13. CASE Mcp!markNeedsAuth(o)
  BY <1>13, MarkNeedsAuthEffect DEF RecordsOK, Becomes, GivesUp, Enters
<1>14. CASE Mcp!Peeked(o)
  BY <1>14, PeekedEffect DEF RecordsOK, Becomes, GivesUp, Enters
<1>15. CASE Mcp!AuthClosed(o)
  BY <1>15, AuthClosedEffect DEF RecordsOK, Becomes, GivesUp, Enters
<1>16. CASE Mcp!Invalidated(o)
  BY <1>16, InvalidatedEffect DEF RecordsOK, Becomes, GivesUp, Enters
<1> QED
  BY <1>1, <1>2, <1>3, <1>4, <1>5, <1>6, <1>7, <1>8, <1>9, <1>10, <1>11, <1>12, <1>13, <1>14, <1>15, <1>16 DEF McpAction, Mcp!Step

LEMMA ClientsFrame ==
  ASSUME RecordsOK, EntriesOK, MutationsOK, NEW o \in Mcp!Ops, McpAction(o)
  PROVE  /\ clients' \in [Mcp!Ops -> {"none", "open", "closed", "died"}]
         /\ \A p \in Mcp!Ops : p # o => (clients'[p] = "none" <=> clients[p] = "none")
         /\ clients'[o] = "none" => clients[o] = "none"
<1>1. CASE \E cfg \in Configs : Mcp!connect(o, cfg)
  BY <1>1, ConnectEffect, ClosesKnown DEF RecordsOK, Closes, Enters
<1>2. CASE Mcp!ConnectGoesOn(o)
  BY <1>2, ConnectGoesOnEffect, ClosesKnown DEF RecordsOK, Closes, Enters
<1>3. CASE \E k \in {"remove", "markRemoved"} : Mcp!removal(o, k)
  BY <1>3, RemovalEffect, ClosesKnown DEF RecordsOK, Closes, Enters
<1>4. CASE Mcp!remove(o)
  BY <1>4, RemoveEffect, ClosesKnown DEF RecordsOK, Closes, Enters
<1>5. CASE Mcp!markRemoved(o)
  BY <1>5, MarkRemovedEffect, ClosesKnown DEF RecordsOK, Closes, Enters
<1>6. CASE \E k \in {"reconnect", "join"} : Mcp!reconnect(o, k)
  BY <1>6, ReconnectEffect, ClosesKnown DEF RecordsOK, Closes, Enters
<1>7. CASE Mcp!ReconnectGoesOn(o)
  BY <1>7, ReconnectGoesOnEffect, ClosesKnown DEF RecordsOK, Closes, Enters
<1>8. CASE Mcp!createClient(o)
  BY <1>8, CreateClientEffect, ClosesKnown DEF RecordsOK, Closes, Enters
<1>9. CASE Mcp!connected(o)
  BY <1>9, ConnectedEffect, ClosesKnown DEF RecordsOK, Closes, Enters
<1>10. CASE \E s \in {"failed", "needs-auth"} : Mcp!ConnectFails(o, s)
  BY <1>10, ConnectFailsEffect, ClosesKnown DEF RecordsOK, Closes, Enters
<1>11. CASE Mcp!ConnectEnds(o)
  BY <1>11, ConnectEndsEffect, ClosesKnown DEF RecordsOK, Closes, Enters
<1>12. CASE Mcp!UnexpectedClose(o)
  BY <1>12, UnexpectedCloseEffect, ClosesKnown DEF RecordsOK, Closes, Enters
<1>13. CASE Mcp!markNeedsAuth(o)
  BY <1>13, MarkNeedsAuthEffect, ClosesKnown DEF RecordsOK, Closes, Enters
<1>14. CASE Mcp!Peeked(o)
  BY <1>14, PeekedEffect, ClosesKnown DEF RecordsOK, Closes, Enters
<1>15. CASE Mcp!AuthClosed(o)
  BY <1>15, AuthClosedEffect, ClosesKnown DEF RecordsOK, Closes, Enters
<1>16. CASE Mcp!Invalidated(o)
  BY <1>16, InvalidatedEffect, ClosesKnown DEF RecordsOK, Closes, Enters
<1> QED
  BY <1>1, <1>2, <1>3, <1>4, <1>5, <1>6, <1>7, <1>8, <1>9, <1>10, <1>11, <1>12, <1>13, <1>14, <1>15, <1>16 DEF McpAction, Mcp!Step

LEMMA AgentFrame ==
  ASSUME RecordsOK, EntriesOK, MutationsOK, NEW o \in Mcp!Ops, McpAction(o)
  PROVE  shown' \in Mcp!Statuses \cup {"none"} /\ tools' \in 0 .. MaxOps
<1>1. CASE \E cfg \in Configs : Mcp!connect(o, cfg)
  BY <1>1, ConnectEffect, EntFrame, TellsTyped, EntersRest, McpFields DEF Mcp!Step, McpAction, GivesUp
<1>2. CASE Mcp!ConnectGoesOn(o)
  BY <1>2, ConnectGoesOnEffect, EntFrame, TellsTyped, EntersRest, McpFields DEF Mcp!Step, McpAction, GivesUp
<1>3. CASE \E k \in {"remove", "markRemoved"} : Mcp!removal(o, k)
  BY <1>3, RemovalEffect, EntFrame, TellsTyped, EntersRest, McpFields DEF Mcp!Step, McpAction, GivesUp
<1>4. CASE Mcp!remove(o)
  BY <1>4, RemoveEffect, EntFrame, TellsTyped, EntersRest, McpFields DEF Mcp!Step, McpAction, GivesUp
<1>5. CASE Mcp!markRemoved(o)
  BY <1>5, MarkRemovedEffect, EntFrame, TellsTyped, EntersRest, McpFields DEF Mcp!Step, McpAction, GivesUp
<1>6. CASE \E k \in {"reconnect", "join"} : Mcp!reconnect(o, k)
  BY <1>6, ReconnectEffect, EntFrame, TellsTyped, EntersRest, McpFields DEF Mcp!Step, McpAction, GivesUp
<1>7. CASE Mcp!ReconnectGoesOn(o)
  BY <1>7, ReconnectGoesOnEffect, EntFrame, TellsTyped, EntersRest, McpFields DEF Mcp!Step, McpAction, GivesUp
<1>8. CASE Mcp!createClient(o)
  BY <1>8, CreateClientEffect, EntFrame, TellsTyped, EntersRest, McpFields DEF Mcp!Step, McpAction, GivesUp
<1>9. CASE Mcp!connected(o)
  BY <1>9, ConnectedEffect, EntFrame, TellsTyped, EntersRest, McpFields DEF Mcp!Step, McpAction, GivesUp
<1>10. CASE \E s \in {"failed", "needs-auth"} : Mcp!ConnectFails(o, s)
  BY <1>10, ConnectFailsEffect, EntFrame, TellsTyped, EntersRest, McpFields DEF Mcp!Step, McpAction, GivesUp
<1>11. CASE Mcp!ConnectEnds(o)
  BY <1>11, ConnectEndsEffect, EntFrame, TellsTyped, EntersRest, McpFields DEF Mcp!Step, McpAction, GivesUp
<1>12. CASE Mcp!UnexpectedClose(o)
  BY <1>12, UnexpectedCloseEffect, EntFrame, TellsTyped, EntersRest, McpFields DEF Mcp!Step, McpAction, GivesUp
<1>13. CASE Mcp!markNeedsAuth(o)
  BY <1>13, MarkNeedsAuthEffect, EntFrame, TellsTyped, EntersRest, McpFields DEF Mcp!Step, McpAction, GivesUp
<1>14. CASE Mcp!Peeked(o)
  BY <1>14, PeekedEffect, EntFrame, TellsTyped, EntersRest, McpFields DEF Mcp!Step, McpAction, GivesUp
<1>15. CASE Mcp!AuthClosed(o)
  BY <1>15, AuthClosedEffect, EntFrame, TellsTyped, EntersRest, McpFields DEF Mcp!Step, McpAction, GivesUp
<1>16. CASE Mcp!Invalidated(o)
  BY <1>16, InvalidatedEffect, EntFrame, TellsTyped, EntersRest, McpFields DEF Mcp!Step, McpAction, GivesUp
<1> QED
  BY <1>1, <1>2, <1>3, <1>4, <1>5, <1>6, <1>7, <1>8, <1>9, <1>10, <1>11, <1>12, <1>13, <1>14, <1>15, <1>16 DEF McpAction, Mcp!Step

LEMMA RestFrame ==
  ASSUME RecordsOK, EntriesOK, MutationsOK, NEW o \in Mcp!Ops, McpAction(o)
  PROVE  cur' \in 0 .. MaxEntries /\ mcpOdd' \subseteq {"clobber", "lost", "late"} /\ joined' \in {0, joined, o}
<1>0. cur \in 0 .. MaxEntries /\ mcpOdd \subseteq {"clobber", "lost", "late"} /\ 0 \in 0 .. MaxEntries
  BY ZeroFacts DEF RecordsOK, Mcp!TypeOK
<1>1. CASE \E cfg \in Configs : Mcp!connect(o, cfg)
  BY <1>1, ConnectEffect, <1>0, EntersRest DEF Ends, GivesUp
<1>2. CASE Mcp!ConnectGoesOn(o)
  BY <1>2, ConnectGoesOnEffect, <1>0, EntersRest DEF Ends, GivesUp
<1>3. CASE \E k \in {"remove", "markRemoved"} : Mcp!removal(o, k)
  BY <1>3, RemovalEffect, <1>0, EntersRest DEF Ends, GivesUp
<1>4. CASE Mcp!remove(o)
  BY <1>4, RemoveEffect, <1>0, EntersRest DEF Ends, GivesUp
<1>5. CASE Mcp!markRemoved(o)
  BY <1>5, MarkRemovedEffect, <1>0, EntersRest DEF Ends, GivesUp
<1>6. CASE \E k \in {"reconnect", "join"} : Mcp!reconnect(o, k)
  BY <1>6, ReconnectEffect, <1>0, EntersRest DEF Ends, GivesUp
<1>7. CASE Mcp!ReconnectGoesOn(o)
  BY <1>7, ReconnectGoesOnEffect, <1>0, EntersRest DEF Ends, GivesUp
<1>8. CASE Mcp!createClient(o)
  BY <1>8, CreateClientEffect, <1>0, EntersRest DEF Ends, GivesUp
<1>9. CASE Mcp!connected(o)
  BY <1>9, ConnectedEffect, <1>0, EntersRest DEF Ends, GivesUp
<1>10. CASE \E s \in {"failed", "needs-auth"} : Mcp!ConnectFails(o, s)
  BY <1>10, ConnectFailsEffect, <1>0, EntersRest DEF Ends, GivesUp
<1>11. CASE Mcp!ConnectEnds(o)
  BY <1>11, ConnectEndsEffect, <1>0, EntersRest DEF Ends, GivesUp
<1>12. CASE Mcp!UnexpectedClose(o)
  BY <1>12, UnexpectedCloseEffect, <1>0, EntersRest DEF Ends, GivesUp
<1>13. CASE Mcp!markNeedsAuth(o)
  BY <1>13, MarkNeedsAuthEffect, <1>0, EntersRest DEF Ends, GivesUp
<1>14. CASE Mcp!Peeked(o)
  BY <1>14, PeekedEffect, <1>0, EntersRest DEF Ends, GivesUp
<1>15. CASE Mcp!AuthClosed(o)
  BY <1>15, AuthClosedEffect, <1>0, EntersRest DEF Ends, GivesUp
<1>16. CASE Mcp!Invalidated(o)
  BY <1>16, InvalidatedEffect, <1>0, EntersRest DEF Ends, GivesUp
<1> QED
  BY <1>1, <1>2, <1>3, <1>4, <1>5, <1>6, <1>7, <1>8, <1>9, <1>10, <1>11, <1>12, <1>13, <1>14, <1>15, <1>16 DEF McpAction, Mcp!Step

LEMMA PlacesFrame ==
  ASSUME RecordsOK, EntriesOK, MutationsOK, NEW o \in Mcp!Ops, McpAction(o)
  PROVE  PlaceOK(o)'
<1>0. PlaceOK(o) /\ clients \in [Mcp!Ops -> {"none", "open", "closed", "died"}]
  BY DEF RecordsOK
<1>1. CASE \E cfg \in Configs : Mcp!connect(o, cfg)
  BY <1>1, ConnectEffect, <1>0, ClosesKnown DEF PlaceOK, Attempt, MovesTo, Starts, Ends, GivesUp, Enters, Closes
<1>2. CASE Mcp!ConnectGoesOn(o)
  BY <1>2, ConnectGoesOnEffect, <1>0, ClosesKnown DEF PlaceOK, Attempt, MovesTo, Starts, Ends, GivesUp, Enters, Closes
<1>3. CASE \E k \in {"remove", "markRemoved"} : Mcp!removal(o, k)
  BY <1>3, RemovalEffect, <1>0, ClosesKnown DEF PlaceOK, Attempt, MovesTo, Starts, Ends, GivesUp, Enters, Closes
<1>4. CASE Mcp!remove(o)
  BY <1>4, RemoveEffect, <1>0, ClosesKnown DEF PlaceOK, Attempt, MovesTo, Starts, Ends, GivesUp, Enters, Closes
<1>5. CASE Mcp!markRemoved(o)
  BY <1>5, MarkRemovedEffect, <1>0, ClosesKnown DEF PlaceOK, Attempt, MovesTo, Starts, Ends, GivesUp, Enters, Closes
<1>6. CASE \E k \in {"reconnect", "join"} : Mcp!reconnect(o, k)
  BY <1>6, ReconnectEffect, <1>0, ClosesKnown DEF PlaceOK, Attempt, MovesTo, Starts, Ends, GivesUp, Enters, Closes
<1>7. CASE Mcp!ReconnectGoesOn(o)
  BY <1>7, ReconnectGoesOnEffect, <1>0, ClosesKnown DEF PlaceOK, Attempt, MovesTo, Starts, Ends, GivesUp, Enters, Closes
<1>8. CASE Mcp!createClient(o)
  BY <1>8, CreateClientEffect, <1>0, ClosesKnown DEF PlaceOK, Attempt, MovesTo, Starts, Ends, GivesUp, Enters, Closes
<1>9. CASE Mcp!connected(o)
  BY <1>9, ConnectedEffect, <1>0, ClosesKnown DEF PlaceOK, Attempt, MovesTo, Starts, Ends, GivesUp, Enters, Closes
<1>10. CASE \E s \in {"failed", "needs-auth"} : Mcp!ConnectFails(o, s)
  BY <1>10, ConnectFailsEffect, <1>0, ClosesKnown DEF PlaceOK, Attempt, MovesTo, Starts, Ends, GivesUp, Enters, Closes
<1>11. CASE Mcp!ConnectEnds(o)
  BY <1>11, ConnectEndsEffect, <1>0, ClosesKnown DEF PlaceOK, Attempt, MovesTo, Starts, Ends, GivesUp, Enters, Closes
<1>12. CASE Mcp!UnexpectedClose(o)
  BY <1>12, UnexpectedCloseEffect, <1>0, ClosesKnown DEF PlaceOK, Attempt, MovesTo, Starts, Ends, GivesUp, Enters, Closes
<1>13. CASE Mcp!markNeedsAuth(o)
  BY <1>13, MarkNeedsAuthEffect, <1>0, ClosesKnown DEF PlaceOK, Attempt, MovesTo, Starts, Ends, GivesUp, Enters, Closes
<1>14. CASE Mcp!Peeked(o)
  BY <1>14, PeekedEffect, <1>0, ClosesKnown DEF PlaceOK, Attempt, MovesTo, Starts, Ends, GivesUp, Enters, Closes
<1>15. CASE Mcp!AuthClosed(o)
  BY <1>15, AuthClosedEffect, <1>0, ClosesKnown DEF PlaceOK, Attempt, MovesTo, Starts, Ends, GivesUp, Enters, Closes
<1>16. CASE Mcp!Invalidated(o)
  BY <1>16, InvalidatedEffect, <1>0, ClosesKnown DEF PlaceOK, Attempt, MovesTo, Starts, Ends, GivesUp, Enters, Closes
<1> QED
  BY <1>1, <1>2, <1>3, <1>4, <1>5, <1>6, <1>7, <1>8, <1>9, <1>10, <1>11, <1>12, <1>13, <1>14, <1>15, <1>16 DEF McpAction, Mcp!Step

LEMMA KnownFrame ==
  ASSUME RecordsOK, EntriesOK, MutationsOK, NEW o \in Mcp!Ops, McpAction(o)
  PROVE  \A e \in 1 .. MaxEntries : ent'[e].client \in {0, ent[e].client} \/ (ent'[e].client = o /\ clients'[o] = "open")
<1>0. o \in DOMAIN clients
  BY DEF RecordsOK
<1>1. CASE \E cfg \in Configs : Mcp!connect(o, cfg)
  BY <1>1, ConnectEffect, <1>0 DEF Becomes, GivesUp, Enters
<1>2. CASE Mcp!ConnectGoesOn(o)
  BY <1>2, ConnectGoesOnEffect, <1>0 DEF Becomes, GivesUp, Enters
<1>3. CASE \E k \in {"remove", "markRemoved"} : Mcp!removal(o, k)
  BY <1>3, RemovalEffect, <1>0 DEF Becomes, GivesUp, Enters
<1>4. CASE Mcp!remove(o)
  BY <1>4, RemoveEffect, <1>0 DEF Becomes, GivesUp, Enters
<1>5. CASE Mcp!markRemoved(o)
  BY <1>5, MarkRemovedEffect, <1>0 DEF Becomes, GivesUp, Enters
<1>6. CASE \E k \in {"reconnect", "join"} : Mcp!reconnect(o, k)
  BY <1>6, ReconnectEffect, <1>0 DEF Becomes, GivesUp, Enters
<1>7. CASE Mcp!ReconnectGoesOn(o)
  BY <1>7, ReconnectGoesOnEffect, <1>0 DEF Becomes, GivesUp, Enters
<1>8. CASE Mcp!createClient(o)
  BY <1>8, CreateClientEffect, <1>0 DEF Becomes, GivesUp, Enters
<1>9. CASE Mcp!connected(o)
  BY <1>9, ConnectedEffect, <1>0 DEF Becomes, GivesUp, Enters
<1>10. CASE \E s \in {"failed", "needs-auth"} : Mcp!ConnectFails(o, s)
  BY <1>10, ConnectFailsEffect, <1>0 DEF Becomes, GivesUp, Enters
<1>11. CASE Mcp!ConnectEnds(o)
  BY <1>11, ConnectEndsEffect, <1>0 DEF Becomes, GivesUp, Enters
<1>12. CASE Mcp!UnexpectedClose(o)
  BY <1>12, UnexpectedCloseEffect, <1>0 DEF Becomes, GivesUp, Enters
<1>13. CASE Mcp!markNeedsAuth(o)
  BY <1>13, MarkNeedsAuthEffect, <1>0 DEF Becomes, GivesUp, Enters
<1>14. CASE Mcp!Peeked(o)
  BY <1>14, PeekedEffect, <1>0 DEF Becomes, GivesUp, Enters
<1>15. CASE Mcp!AuthClosed(o)
  BY <1>15, AuthClosedEffect, <1>0 DEF Becomes, GivesUp, Enters
<1>16. CASE Mcp!Invalidated(o)
  BY <1>16, InvalidatedEffect, <1>0 DEF Becomes, GivesUp, Enters
<1> QED
  BY <1>1, <1>2, <1>3, <1>4, <1>5, <1>6, <1>7, <1>8, <1>9, <1>10, <1>11, <1>12, <1>13, <1>14, <1>15, <1>16 DEF McpAction, Mcp!Step

LEMMA JoinedFrame ==
  ASSUME RecordsOK, EntriesOK, MutationsOK, NEW o \in Mcp!Ops, McpAction(o)
  PROVE  joined' # 0 => ops'[joined'].k = "join" /\ ops'[joined'].pc # "done"
<1>0. /\ joined # 0 => joined \in Mcp!Ops /\ ops[joined].k = "join" /\ ops[joined].pc # "done"
      /\ ops[o].pc = "idle" => ops[o].k = "none"
  BY ConnectionBounds DEF RecordsOK, PlaceOK, Mcp!TypeOK, Mcp!Ops
<1>1. CASE \E cfg \in Configs : Mcp!connect(o, cfg)
  BY <1>1, ConnectEffect, <1>0 DEF MovesTo, Starts, Others, Ends, GivesUp, Enters
<1>2. CASE Mcp!ConnectGoesOn(o)
  BY <1>2, ConnectGoesOnEffect, <1>0 DEF MovesTo, Starts, Others, Ends, GivesUp, Enters
<1>3. CASE \E k \in {"remove", "markRemoved"} : Mcp!removal(o, k)
  BY <1>3, RemovalEffect, <1>0 DEF MovesTo, Starts, Others, Ends, GivesUp, Enters
<1>4. CASE Mcp!remove(o)
  BY <1>4, RemoveEffect, <1>0 DEF MovesTo, Starts, Others, Ends, GivesUp, Enters
<1>5. CASE Mcp!markRemoved(o)
  BY <1>5, MarkRemovedEffect, <1>0 DEF MovesTo, Starts, Others, Ends, GivesUp, Enters
<1>6. CASE \E k \in {"reconnect", "join"} : Mcp!reconnect(o, k)
  BY <1>6, ReconnectEffect, <1>0 DEF MovesTo, Starts, Others, Ends, GivesUp, Enters
<1>7. CASE Mcp!ReconnectGoesOn(o)
  BY <1>7, ReconnectGoesOnEffect, <1>0 DEF MovesTo, Starts, Others, Ends, GivesUp, Enters
<1>8. CASE Mcp!createClient(o)
  BY <1>8, CreateClientEffect, <1>0 DEF MovesTo, Starts, Others, Ends, GivesUp, Enters
<1>9. CASE Mcp!connected(o)
  BY <1>9, ConnectedEffect, <1>0 DEF MovesTo, Starts, Others, Ends, GivesUp, Enters
<1>10. CASE \E s \in {"failed", "needs-auth"} : Mcp!ConnectFails(o, s)
  BY <1>10, ConnectFailsEffect, <1>0 DEF MovesTo, Starts, Others, Ends, GivesUp, Enters
<1>11. CASE Mcp!ConnectEnds(o)
  BY <1>11, ConnectEndsEffect, <1>0 DEF MovesTo, Starts, Others, Ends, GivesUp, Enters
<1>12. CASE Mcp!UnexpectedClose(o)
  BY <1>12, UnexpectedCloseEffect, <1>0 DEF MovesTo, Starts, Others, Ends, GivesUp, Enters
<1>13. CASE Mcp!markNeedsAuth(o)
  BY <1>13, MarkNeedsAuthEffect, <1>0 DEF MovesTo, Starts, Others, Ends, GivesUp, Enters
<1>14. CASE Mcp!Peeked(o)
  BY <1>14, PeekedEffect, <1>0 DEF MovesTo, Starts, Others, Ends, GivesUp, Enters
<1>15. CASE Mcp!AuthClosed(o)
  BY <1>15, AuthClosedEffect, <1>0 DEF MovesTo, Starts, Others, Ends, GivesUp, Enters
<1>16. CASE Mcp!Invalidated(o)
  BY <1>16, InvalidatedEffect, <1>0 DEF MovesTo, Starts, Others, Ends, GivesUp, Enters
<1> QED
  BY <1>1, <1>2, <1>3, <1>4, <1>5, <1>6, <1>7, <1>8, <1>9, <1>10, <1>11, <1>12, <1>13, <1>14, <1>15, <1>16 DEF McpAction, Mcp!Step

LEMMA RecordsStep ==
  ASSUME RecordsOK, EntriesOK, MutationsOK, NEW o \in Mcp!Ops, McpAction(o)
  PROVE  RecordsOK'
<1>1. ops' \in [Mcp!Ops -> Operations] /\ Others(o) /\ ent' \in [1 .. MaxEntries -> EntryRecords]
  BY OpsFrame, EntFrame
<1>2. /\ clients' \in [Mcp!Ops -> {"none", "open", "closed", "died"}]
      /\ \A p \in Mcp!Ops : p # o => (clients'[p] = "none" <=> clients[p] = "none")
      /\ clients'[o] = "none" => clients[o] = "none"
  BY ClientsFrame
<1>3. Mcp!TypeOK'
  <2>1. \A e \in 1 .. MaxEntries : ent'[e].status \in Mcp!Statuses \cup {"none"} /\ ent'[e].client \in 0 .. MaxOps
    BY <1>1 DEF EntryRecords
  <2>2. joined' \in 0 .. MaxOps
    <3>1. joined \in 0 .. MaxOps /\ o \in 0 .. MaxOps
      BY ConnectionBounds DEF RecordsOK, Mcp!TypeOK, Mcp!Ops
    <3> QED
      BY <3>1, ZeroFacts, RestFrame
  <2>3. \A p \in Mcp!Ops : clients'[p] \in {"none", "open", "closed", "died"}
    BY <1>2
  <2>4. /\ shown' \in Mcp!Statuses \cup {"none"} /\ tools' \in 0 .. MaxOps
        /\ cur' \in 0 .. MaxEntries /\ mcpOdd' \subseteq {"clobber", "lost", "late"}
        /\ joined' # 0 => ops'[joined'].k = "join" /\ ops'[joined'].pc # "done"
    BY AgentFrame, RestFrame, JoinedFrame
  <2> QED
    BY <2>1, <2>2, <2>3, <2>4 DEF Mcp!TypeOK
<1>4. \A p \in Mcp!Ops : PlaceOK(p)'
  <2> SUFFICES ASSUME NEW p \in Mcp!Ops, p # o
               PROVE  PlaceOK(p)'
    BY PlacesFrame
  <2>1. ops'[p] = ops[p] /\ PlaceOK(p)
    BY <1>1 DEF Others, RecordsOK
  <2> QED
    BY <1>2, <2>1 DEF PlaceOK
<1>5. \A e \in 1 .. MaxEntries : ent'[e].client # 0 => clients'[ent'[e].client] # "none"
  <2> SUFFICES ASSUME NEW e \in 1 .. MaxEntries, ent'[e].client # 0
               PROVE  clients'[ent'[e].client] # "none"
    OBVIOUS
  <2>1. CASE ent'[e].client = ent[e].client
    <3>1. ent[e].client \in Mcp!Ops /\ clients[ent[e].client] # "none"
      BY <2>1, McpFields DEF RecordsOK, Mcp!Ops
    <3> QED
      BY <1>2, <2>1, <3>1
  <2>2. CASE ent'[e].client = o /\ clients'[o] = "open"
    BY <2>2
  <2> QED
    BY <2>1, <2>2, KnownFrame
<1> QED
  BY <1>1, <1>2, <1>3, <1>4, <1>5 DEF RecordsOK

\* What a step does that enters no new entry.
Entering(o) == Enters(o) /\ (Mcp!Serial \/ (ops[o].k = "connect" /\ ops[o].pc = "close"))
Remains(o) ==
  /\ cur' \in {cur, 0} /\ ops'[o].e \in {ops[o].e, 0, cur}
  /\ \A e \in 1 .. MaxEntries :
       /\ ent'[e] = ent[e] \/ (e \in 1 .. Mcp!Entries /\ ent'[e].status # "none")
       /\ ent'[e].cfg = ent[e].cfg

LEMMA EnteringOrNot ==
  ASSUME RecordsOK, EntriesOK, MutationsOK, NEW o \in Mcp!Ops, McpAction(o)
  PROVE  Entering(o) \/ Remains(o)
<1>0. /\ cur # 0 => cur \in 1 .. Mcp!Entries /\ cur \in 1 .. MaxEntries /\ ent[cur].status # "none"
      /\ ops[o].e # 0 => ops[o].e \in 1 .. Mcp!Entries /\ ops[o].e \in 1 .. MaxEntries /\ ent[ops[o].e].status # "none"
  <2>1. /\ ops[o].e \in 0 .. MaxEntries /\ ops[o].e <= Mcp!Entries
        /\ cur \in 0 .. MaxEntries /\ cur <= Mcp!Entries /\ Mcp!Entries \in 0 .. MaxEntries
    BY McpFields DEF EntriesOK, RecordsOK, Mcp!TypeOK, Operations
  <2> QED
    BY <2>1, ConnectionBounds DEF EntriesOK
<1>1. CASE \E cfg \in Configs : Mcp!connect(o, cfg)
  BY <1>1, ConnectEffect, <1>0 DEF Remains, Entering, Attempt, Becomes, Others, MovesTo, Starts, Ends, GivesUp
<1>2. CASE Mcp!ConnectGoesOn(o)
  BY <1>2, ConnectGoesOnEffect, <1>0 DEF Remains, Entering, Attempt, Becomes, Others, MovesTo, Starts, Ends, GivesUp
<1>3. CASE \E k \in {"remove", "markRemoved"} : Mcp!removal(o, k)
  BY <1>3, RemovalEffect, <1>0 DEF Remains, Entering, Attempt, Becomes, Others, MovesTo, Starts, Ends, GivesUp
<1>4. CASE Mcp!remove(o)
  BY <1>4, RemoveEffect, <1>0 DEF Remains, Entering, Attempt, Becomes, Others, MovesTo, Starts, Ends, GivesUp
<1>5. CASE Mcp!markRemoved(o)
  BY <1>5, MarkRemovedEffect, <1>0 DEF Remains, Entering, Attempt, Becomes, Others, MovesTo, Starts, Ends, GivesUp
<1>6. CASE \E k \in {"reconnect", "join"} : Mcp!reconnect(o, k)
  BY <1>6, ReconnectEffect, <1>0 DEF Remains, Entering, Attempt, Becomes, Others, MovesTo, Starts, Ends, GivesUp
<1>7. CASE Mcp!ReconnectGoesOn(o)
  BY <1>7, ReconnectGoesOnEffect, <1>0 DEF Remains, Entering, Attempt, Becomes, Others, MovesTo, Starts, Ends, GivesUp
<1>8. CASE Mcp!createClient(o)
  BY <1>8, CreateClientEffect, <1>0 DEF Remains, Entering, Attempt, Becomes, Others, MovesTo, Starts, Ends, GivesUp
<1>9. CASE Mcp!connected(o)
  BY <1>9, ConnectedEffect, <1>0 DEF Remains, Entering, Attempt, Becomes, Others, MovesTo, Starts, Ends, GivesUp
<1>10. CASE \E s \in {"failed", "needs-auth"} : Mcp!ConnectFails(o, s)
  BY <1>10, ConnectFailsEffect, <1>0 DEF Remains, Entering, Attempt, Becomes, Others, MovesTo, Starts, Ends, GivesUp
<1>11. CASE Mcp!ConnectEnds(o)
  BY <1>11, ConnectEndsEffect, <1>0 DEF Remains, Entering, Attempt, Becomes, Others, MovesTo, Starts, Ends, GivesUp
<1>12. CASE Mcp!UnexpectedClose(o)
  BY <1>12, UnexpectedCloseEffect, <1>0 DEF Remains, Entering, Attempt, Becomes, Others, MovesTo, Starts, Ends, GivesUp
<1>13. CASE Mcp!markNeedsAuth(o)
  BY <1>13, MarkNeedsAuthEffect, <1>0 DEF Remains, Entering, Attempt, Becomes, Others, MovesTo, Starts, Ends, GivesUp
<1>14. CASE Mcp!Peeked(o)
  BY <1>14, PeekedEffect, <1>0 DEF Remains, Entering, Attempt, Becomes, Others, MovesTo, Starts, Ends, GivesUp
<1>15. CASE Mcp!AuthClosed(o)
  BY <1>15, AuthClosedEffect, <1>0 DEF Remains, Entering, Attempt, Becomes, Others, MovesTo, Starts, Ends, GivesUp
<1>16. CASE Mcp!Invalidated(o)
  BY <1>16, InvalidatedEffect, <1>0 DEF Remains, Entering, Attempt, Becomes, Others, MovesTo, Starts, Ends, GivesUp
<1> QED
  BY <1>1, <1>2, <1>3, <1>4, <1>5, <1>6, <1>7, <1>8, <1>9, <1>10, <1>11, <1>12, <1>13, <1>14, <1>15, <1>16 DEF McpAction, Mcp!Step

LEMMA EntriesCount ==
  ASSUME NEW n \in Nat
  PROVE  Mcp!Cardinality(1 .. n) = n
<1>1. Cardinality(1 .. n) = n
  <2>1. Cardinality(1 .. n) = IF 1 > n THEN 0 ELSE n - 1 + 1
    BY FS_Interval
  <2> QED
    BY <2>1
<1> QED
  BY <1>1 DEF Mcp!Cardinality, Cardinality

LEMMA EntriesStep ==
  ASSUME RecordsOK, EntriesOK, MutationsOK, NEW o \in Mcp!Ops, McpAction(o)
  PROVE  EntriesOK' /\ Mcp!Entries' = IF Enters(o) THEN Mcp!Entries + 1 ELSE Mcp!Entries
<1> DEFINE used == {f \in 1 .. MaxEntries : ent[f] # Mcp!NoEntry}
           n == Mcp!Entries
<1>1. /\ n \in Nat /\ n <= MaxEntries /\ MaxEntries \in Nat /\ used = 1 .. n
      /\ \A f \in 1 .. n : f \in 1 .. MaxEntries /\ ent[f].status # "none"
      /\ cur \in Nat /\ cur <= n /\ \A p \in Mcp!Ops : ops[p].e \in Nat /\ ops[p].e <= n
  BY ConnectionBounds, McpFields DEF EntriesOK, RecordsOK, Mcp!TypeOK, Operations
<1>2. Others(o) /\ ent' \in [1 .. MaxEntries -> EntryRecords]
  BY OpsFrame, EntFrame
<1>3. \A m \in Nat : used' = 1 .. m => Mcp!Entries' = m
  BY EntriesCount DEF Mcp!Entries
<1> HIDE DEF n
<1>4. CASE Enters(o)
  <2>1. /\ n + 1 \in 1 .. MaxEntries /\ cur' = n + 1 /\ ops'[o].e = n + 1
        /\ \A f \in 1 .. MaxEntries \ {n + 1} : ent'[f] = ent[f]
        /\ ent'[n + 1].status \in {"pending", "disabled"}
    BY <1>4 DEF Enters, n
  <2>2. ent'[n + 1] # Mcp!NoEntry
    BY <2>1 DEF Mcp!NoEntry
  <2>3. used' = 1 .. n + 1
    BY <1>1, <2>1, <2>2
  <2>4. Mcp!Entries' = n + 1
    BY <1>1, <1>3, <2>3
  <2>5. \A f \in 1 .. n + 1 : ent'[f].status # "none"
    BY <1>1, <2>1
  <2>6. \A p \in Mcp!Ops : ops'[p].e <= n + 1
    BY <1>1, <1>2, <2>1 DEF Others
  <2>7. n + 1 \in 0 .. MaxEntries /\ cur' <= n + 1
    BY <1>1, <2>1
  <2> QED
    BY <1>4, <2>3, <2>4, <2>5, <2>6, <2>7 DEF EntriesOK, n
<1>5. CASE ~Enters(o)
  <2>1. Remains(o)
    BY <1>5, EnteringOrNot DEF Entering
  <2>2. \A f \in 1 .. MaxEntries : ent'[f] = ent[f] \/ (f \in 1 .. n /\ ent'[f].status # "none")
    BY <2>1 DEF Remains, n
  <2>3. \A f \in 1 .. MaxEntries : f \in 1 .. n => ent[f] # Mcp!NoEntry
    BY <1>1
  <2>4. used' = used
    BY <2>2, <2>3 DEF Mcp!NoEntry
  <2>5. Mcp!Entries' = n
    BY <1>1, <1>3, <2>4
  <2>6. \A f \in 1 .. n : ent'[f].status # "none"
    BY <1>1, <2>2
  <2>7. \A p \in Mcp!Ops : ops'[p].e <= n
    BY <1>1, <1>2, <2>1 DEF Others, Remains
  <2>8. cur' <= n /\ n \in 0 .. MaxEntries
    BY <1>1, <2>1 DEF Remains
  <2> QED
    BY <1>1, <1>5, <2>4, <2>5, <2>6, <2>7, <2>8 DEF EntriesOK, n
<1> QED
  BY <1>4, <1>5

LEMMA NotEntered ==
  ASSUME RecordsOK, EntriesOK, NEW o \in Mcp!Ops, Remains(o)
  PROVE  ~Enters(o)
<1>1. cur \in Nat /\ Mcp!Entries \in Nat /\ cur <= Mcp!Entries
  BY DEF EntriesOK, RecordsOK, Mcp!TypeOK
<1>2. cur' \in {cur, 0}
  BY DEF Remains
<1>3. ASSUME Enters(o) PROVE FALSE
  <2>1. cur' = Mcp!Entries + 1
    BY <1>3 DEF Enters
  <2> QED
    BY <1>1, <1>2, <2>1
<1> QED
  BY <1>3

\* o is a mutation from now on, and the only one.
BecomesMutating(o) ==
  /\ Mcp!Serial /\ ops'[o].pc = "close" /\ cur' = cur
  /\ ops'[o].k = "connect" => Mcp!Entries < MaxEntries
  /\ ops'[o].k # "connect" => ops'[o].e = cur

LEMMA MutationFrame ==
  ASSUME RecordsOK, EntriesOK, MutationsOK, NEW o \in Mcp!Ops, McpAction(o)
  PROVE  \/ Entering(o)
         \/ /\ Mutating(o)' => Mutating(o) \/ BecomesMutating(o)
            /\ cur' # cur => Mutating(o)
            /\ ops'[o].pc = "close" => ~Mutating(o)
<1>0. PlaceOK(o) /\ (ops[o].pc = "idle" => ops[o].k = "none") /\ (ops[o].pc = "close" => clients[o] = "none")
  BY DEF RecordsOK, PlaceOK
<1>1. CASE \E cfg \in Configs : Mcp!connect(o, cfg)
  BY <1>1, ConnectEffect, <1>0 DEF Entering, BecomesMutating, Mutating, Mcp!Live, Mcp!Mutations, Attempt, Others, MovesTo,
     Starts, Ends, GivesUp
<1>2. CASE Mcp!ConnectGoesOn(o)
  BY <1>2, ConnectGoesOnEffect, <1>0 DEF Entering, BecomesMutating, Mutating, Mcp!Live, Mcp!Mutations, Attempt, Others,
     MovesTo, Starts, Ends, GivesUp
<1>3. CASE \E k \in {"remove", "markRemoved"} : Mcp!removal(o, k)
  BY <1>3, RemovalEffect, <1>0 DEF Entering, BecomesMutating, Mutating, Mcp!Live, Mcp!Mutations, Attempt, Others, MovesTo,
     Starts, Ends, GivesUp
<1>4. CASE Mcp!remove(o)
  BY <1>4, RemoveEffect, <1>0 DEF Entering, BecomesMutating, Mutating, Mcp!Live, Mcp!Mutations, Attempt, Others, MovesTo,
     Starts, Ends, GivesUp
<1>5. CASE Mcp!markRemoved(o)
  BY <1>5, MarkRemovedEffect, <1>0 DEF Entering, BecomesMutating, Mutating, Mcp!Live, Mcp!Mutations, Attempt, Others,
     MovesTo, Starts, Ends, GivesUp
<1>6. CASE \E k \in {"reconnect", "join"} : Mcp!reconnect(o, k)
  BY <1>6, ReconnectEffect, <1>0 DEF Entering, BecomesMutating, Mutating, Mcp!Live, Mcp!Mutations, Attempt, Others,
     MovesTo, Starts, Ends, GivesUp
<1>7. CASE Mcp!ReconnectGoesOn(o)
  BY <1>7, ReconnectGoesOnEffect, <1>0 DEF Entering, BecomesMutating, Mutating, Mcp!Live, Mcp!Mutations, Attempt, Others,
     MovesTo, Starts, Ends, GivesUp
<1>8. CASE Mcp!createClient(o)
  BY <1>8, CreateClientEffect, <1>0 DEF Entering, BecomesMutating, Mutating, Mcp!Live, Mcp!Mutations, Attempt, Others,
     MovesTo, Starts, Ends, GivesUp
<1>9. CASE Mcp!connected(o)
  BY <1>9, ConnectedEffect, <1>0 DEF Entering, BecomesMutating, Mutating, Mcp!Live, Mcp!Mutations, Attempt, Others,
     MovesTo, Starts, Ends, GivesUp
<1>10. CASE \E s \in {"failed", "needs-auth"} : Mcp!ConnectFails(o, s)
  BY <1>10, ConnectFailsEffect, <1>0 DEF Entering, BecomesMutating, Mutating, Mcp!Live, Mcp!Mutations, Attempt, Others,
     MovesTo, Starts, Ends, GivesUp
<1>11. CASE Mcp!ConnectEnds(o)
  BY <1>11, ConnectEndsEffect, <1>0 DEF Entering, BecomesMutating, Mutating, Mcp!Live, Mcp!Mutations, Attempt, Others,
     MovesTo, Starts, Ends, GivesUp
<1>12. CASE Mcp!UnexpectedClose(o)
  BY <1>12, UnexpectedCloseEffect, <1>0 DEF Entering, BecomesMutating, Mutating, Mcp!Live, Mcp!Mutations, Attempt, Others,
     MovesTo, Starts, Ends, GivesUp
<1>13. CASE Mcp!markNeedsAuth(o)
  BY <1>13, MarkNeedsAuthEffect, <1>0 DEF Entering, BecomesMutating, Mutating, Mcp!Live, Mcp!Mutations, Attempt, Others,
     MovesTo, Starts, Ends, GivesUp
<1>14. CASE Mcp!Peeked(o)
  BY <1>14, PeekedEffect, <1>0 DEF Entering, BecomesMutating, Mutating, Mcp!Live, Mcp!Mutations, Attempt, Others, MovesTo,
     Starts, Ends, GivesUp
<1>15. CASE Mcp!AuthClosed(o)
  BY <1>15, AuthClosedEffect, <1>0 DEF Entering, BecomesMutating, Mutating, Mcp!Live, Mcp!Mutations, Attempt, Others,
     MovesTo, Starts, Ends, GivesUp
<1>16. CASE Mcp!Invalidated(o)
  BY <1>16, InvalidatedEffect, <1>0 DEF Entering, BecomesMutating, Mutating, Mcp!Live, Mcp!Mutations, Attempt, Others,
     MovesTo, Starts, Ends, GivesUp
<1> QED
  BY <1>1, <1>2, <1>3, <1>4, <1>5, <1>6, <1>7, <1>8, <1>9, <1>10, <1>11, <1>12, <1>13, <1>14, <1>15, <1>16 DEF McpAction, Mcp!Step

LEMMA MutationsStep ==
  ASSUME RecordsOK, EntriesOK, MutationsOK, NEW o \in Mcp!Ops, McpAction(o)
  PROVE  MutationsOK'
<1>1. Others(o) /\ \A p \in Mcp!Ops : PlaceOK(p)
  BY OpsFrame DEF RecordsOK
<1>2. \A p \in Mcp!Ops \ {o} : Mutating(p)' <=> Mutating(p)
  BY <1>1 DEF Others, Mutating, Mcp!Live
<1>3. \A p \in Mcp!Ops : Mcp!Serial => ~Mutating(p)
  BY DEF Mcp!Serial, Mutating
<1>4. \A p \in Mcp!Ops : ops[p].pc = "close" /\ ops[p].k \in {"connect", "remove", "markRemoved"} => Mutating(p)
  BY DEF Mutating, Mcp!Live, Mcp!Mutations
<1>5. CASE Entering(o)
  <2>1. \A p \in Mcp!Ops \ {o} : ~Mutating(p)
    BY <1>3, <1>4, <1>5 DEF Entering, MutationsOK
  <2>2. ops'[o].pc \in {"create", "done"}
    BY <1>5 DEF Entering, Enters
  <2>3. \A p \in Mcp!Ops \ {o} : ops'[p] = ops[p]
    BY <1>1 DEF Others
  <2> QED
    BY <1>2, <1>4, <2>1, <2>2, <2>3 DEF MutationsOK
<1>6. CASE ~Entering(o)
  <2>1. /\ Mutating(o)' => Mutating(o) \/ BecomesMutating(o)
        /\ cur' # cur => Mutating(o)
        /\ ops'[o].pc = "close" => ~Mutating(o)
    BY <1>6, MutationFrame
  <2>2. \A p, q \in Mcp!Ops : Mutating(p)' /\ Mutating(q)' => p = q
    <3>1. \A p \in Mcp!Ops \ {o} : Mutating(o)' /\ Mutating(p)' => FALSE
      <4>1. ASSUME NEW p \in Mcp!Ops \ {o}, Mutating(o)', Mutating(p)' PROVE FALSE
        <5>1. Mutating(p)
          BY <1>2, <4>1
        <5>2. ~Mutating(o) /\ ~Mcp!Serial
          BY <1>3, <5>1 DEF MutationsOK
        <5> QED
          BY <2>1, <4>1, <5>2 DEF BecomesMutating
      <4> QED
        BY <4>1
    <3>2. \A p, q \in Mcp!Ops \ {o} : Mutating(p)' /\ Mutating(q)' => p = q
      BY <1>2 DEF MutationsOK
    <3> QED
      BY <3>1, <3>2
  <2>3. Mcp!Entries' = Mcp!Entries
    BY <1>6, EntriesStep, EnteringOrNot, NotEntered
  <2>4. ASSUME NEW p \in Mcp!Ops, ops'[p].pc = "close"
        PROVE  /\ ops'[p].k \in {"remove", "markRemoved"} => ops'[p].e = cur'
               /\ ops'[p].k = "connect" => Mcp!Entries' < MaxEntries
    <3>1. CASE p = o
      <4>1. ops'[o].k \in {"connect", "remove", "markRemoved"} => Mutating(o)'
        BY <2>4, <3>1 DEF Mutating, Mcp!Live, Mcp!Mutations
      <4> QED
        <5>1. ops'[o].k \in {"connect", "remove", "markRemoved"} =>
                /\ cur' = cur
                /\ ops'[o].k = "connect" => Mcp!Entries < MaxEntries
                /\ ops'[o].k # "connect" => ops'[o].e = cur
          BY <2>1, <2>4, <3>1, <4>1 DEF BecomesMutating
        <5> QED
          BY <2>3, <3>1, <5>1
    <3>2. CASE p # o
      <4>1. ops'[p] = ops[p]
        BY <1>1, <3>2 DEF Others
      <4>2. ops[p].k \in {"connect", "remove", "markRemoved"} => cur' = cur
        BY <1>4, <2>1, <2>4, <3>2, <4>1 DEF MutationsOK
      <4> QED
        BY <2>3, <2>4, <4>1, <4>2 DEF MutationsOK
    <3> QED
      BY <3>1, <3>2
  <2> QED
    BY <2>2, <2>4 DEF MutationsOK
<1> QED
  BY <1>5, <1>6

\* o is the next attempt to connect the current entry, or whatever attempt it was.
Renews(o) ==
  /\ cur \in 1 .. MaxEntries /\ ent[cur].cfg # Off /\ ent'[cur].a = ent[cur].a + 1 /\ cur' = cur
  /\ \A f \in 1 .. MaxEntries : ent'[f].cfg = ent[f].cfg /\ (f # cur => ent'[f].a = ent[f].a)
  /\ Starts(o, "reconnect", cur, ent[cur].a + 1, "close") \/ Starts(o, "join", cur, ent[cur].a + 1, "close")
GoesOn(o) ==
  /\ \A f \in 1 .. MaxEntries : ent'[f].cfg = ent[f].cfg /\ ent'[f].a = ent[f].a
  /\ Attempt(o)' => /\ Attempt(o) /\ ops'[o].e = ops[o].e /\ ops'[o].a = ops[o].a
                    /\ ops[o].pc = "done" => ops'[o].pc = "done"

LEMMA AttemptFrame ==
  ASSUME RecordsOK, EntriesOK, MutationsOK, NEW o \in Mcp!Ops, McpAction(o)
  PROVE  Entering(o) \/ Renews(o) \/ GoesOn(o)
<1>0. cur # 0 => cur \in 1 .. MaxEntries
  BY McpFields
<1>1. CASE \E cfg \in Configs : Mcp!connect(o, cfg)
  BY <1>1, ConnectEffect, <1>0 DEF Renews, GoesOn, Becomes, Entering, Attempt, Others, MovesTo, Ends, GivesUp, Starts
<1>2. CASE Mcp!ConnectGoesOn(o)
  BY <1>2, ConnectGoesOnEffect, <1>0 DEF Renews, GoesOn, Becomes, Entering, Attempt, Others, MovesTo, Ends, GivesUp, Starts
<1>3. CASE \E k \in {"remove", "markRemoved"} : Mcp!removal(o, k)
  BY <1>3, RemovalEffect, <1>0 DEF Renews, GoesOn, Becomes, Entering, Attempt, Others, MovesTo, Ends, GivesUp, Starts
<1>4. CASE Mcp!remove(o)
  BY <1>4, RemoveEffect, <1>0 DEF Renews, GoesOn, Becomes, Entering, Attempt, Others, MovesTo, Ends, GivesUp, Starts
<1>5. CASE Mcp!markRemoved(o)
  BY <1>5, MarkRemovedEffect, <1>0 DEF Renews, GoesOn, Becomes, Entering, Attempt, Others, MovesTo, Ends, GivesUp, Starts
<1>6. CASE \E k \in {"reconnect", "join"} : Mcp!reconnect(o, k)
  BY <1>6, ReconnectEffect, <1>0 DEF Renews, GoesOn, Becomes, Entering, Attempt, Others, MovesTo, Ends, GivesUp, Starts
<1>7. CASE Mcp!ReconnectGoesOn(o)
  BY <1>7, ReconnectGoesOnEffect, <1>0 DEF Renews, GoesOn, Becomes, Entering, Attempt, Others, MovesTo, Ends, GivesUp, Starts
<1>8. CASE Mcp!createClient(o)
  BY <1>8, CreateClientEffect, <1>0 DEF Renews, GoesOn, Becomes, Entering, Attempt, Others, MovesTo, Ends, GivesUp, Starts
<1>9. CASE Mcp!connected(o)
  BY <1>9, ConnectedEffect, <1>0 DEF Renews, GoesOn, Becomes, Entering, Attempt, Others, MovesTo, Ends, GivesUp, Starts
<1>10. CASE \E s \in {"failed", "needs-auth"} : Mcp!ConnectFails(o, s)
  BY <1>10, ConnectFailsEffect, <1>0 DEF Renews, GoesOn, Becomes, Entering, Attempt, Others, MovesTo, Ends, GivesUp, Starts
<1>11. CASE Mcp!ConnectEnds(o)
  BY <1>11, ConnectEndsEffect, <1>0 DEF Renews, GoesOn, Becomes, Entering, Attempt, Others, MovesTo, Ends, GivesUp, Starts
<1>12. CASE Mcp!UnexpectedClose(o)
  BY <1>12, UnexpectedCloseEffect, <1>0 DEF Renews, GoesOn, Becomes, Entering, Attempt, Others, MovesTo, Ends, GivesUp, Starts
<1>13. CASE Mcp!markNeedsAuth(o)
  BY <1>13, MarkNeedsAuthEffect, <1>0 DEF Renews, GoesOn, Becomes, Entering, Attempt, Others, MovesTo, Ends, GivesUp, Starts
<1>14. CASE Mcp!Peeked(o)
  BY <1>14, PeekedEffect, <1>0 DEF Renews, GoesOn, Becomes, Entering, Attempt, Others, MovesTo, Ends, GivesUp, Starts
<1>15. CASE Mcp!AuthClosed(o)
  BY <1>15, AuthClosedEffect, <1>0 DEF Renews, GoesOn, Becomes, Entering, Attempt, Others, MovesTo, Ends, GivesUp, Starts
<1>16. CASE Mcp!Invalidated(o)
  BY <1>16, InvalidatedEffect, <1>0 DEF Renews, GoesOn, Becomes, Entering, Attempt, Others, MovesTo, Ends, GivesUp, Starts
<1> QED
  BY <1>1, <1>2, <1>3, <1>4, <1>5, <1>6, <1>7, <1>8, <1>9, <1>10, <1>11, <1>12, <1>13, <1>14, <1>15, <1>16 DEF McpAction, Mcp!Step

LEMMA AttemptsStep ==
  ASSUME RecordsOK, EntriesOK, MutationsOK, AttemptsOK, NEW o \in Mcp!Ops, McpAction(o)
  PROVE  AttemptsOK'
<1>1. \A p \in Mcp!Ops \ {o} : ops'[p] = ops[p]
  BY OpsFrame DEF Others
<1>2. \A p \in Mcp!Ops \ {o} : Attempt(p)' <=> Attempt(p)
  BY <1>1 DEF Attempt
<1>3. \A p \in Mcp!Ops : /\ ops[p].a \in Nat /\ ops[p].e <= Mcp!Entries /\ ops[p].e \in Nat
                         /\ Attempt(p) => ops[p].e \in 1 .. MaxEntries /\ ent[ops[p].e].a \in Nat
  BY McpFields DEF Attempt, EntriesOK
<1>4. CASE Entering(o)
  <2> DEFINE e == Mcp!Entries + 1
  <2>1. /\ ops'[o].e = e /\ ops'[o].a = 1 /\ \A f \in 1 .. MaxEntries \ {e} : ent'[f] = ent[f]
        /\ ent'[e].a = 1 \/ (ent'[e].cfg = Off /\ ops'[o].pc = "done")
    BY <1>4 DEF Entering, Enters
  <2>2. \A p \in Mcp!Ops \ {o} : ops[p].e # e
    BY <1>3, McpFields
  <2> HIDE DEF e
  <2>3. ASSUME NEW p \in Mcp!Ops, Attempt(p)'
        PROVE  /\ ops'[p].a <= ent'[ops'[p].e].a \/ (ent'[ops'[p].e].cfg = Off /\ ops'[p].pc = "done")
               /\ \A q \in Mcp!Ops : Attempt(q)' /\ ops'[q].e = ops'[p].e /\ ops'[q].a = ops'[p].a => q = p
    <3>1. CASE p = o
      BY <1>1, <2>1, <2>2, <3>1
    <3>2. CASE p # o
      <4>1. ops'[p] = ops[p] /\ Attempt(p) /\ ent'[ops[p].e] = ent[ops[p].e]
        BY <1>1, <1>2, <1>3, <2>1, <2>2, <2>3, <3>2
      <4>2. \A q \in Mcp!Ops : Attempt(q)' /\ ops'[q].e = ops[p].e /\ ops'[q].a = ops[p].a => q = p
        BY <1>1, <1>2, <2>1, <2>2, <3>2, <4>1 DEF AttemptsOK
      <4> QED
        BY <4>1, <4>2 DEF AttemptsOK
    <3> QED
      BY <3>1, <3>2
  <2> QED
    BY <2>3 DEF AttemptsOK
<1>5. CASE Renews(o)
  <2>1. /\ ops'[o].e = cur /\ ops'[o].a = ent[cur].a + 1 /\ ent'[cur].a = ent[cur].a + 1 /\ ent[cur].cfg # Off
        /\ ent[cur].a \in Nat
        /\ \A f \in 1 .. MaxEntries : ent'[f].cfg = ent[f].cfg /\ (f # cur => ent'[f].a = ent[f].a)
    BY <1>5, McpFields DEF Renews, Starts
  <2>2. \A p \in Mcp!Ops \ {o} : Attempt(p) /\ ops[p].e = cur => ops[p].a <= ent[cur].a
    BY <2>1 DEF AttemptsOK
  <2>3. ASSUME NEW p \in Mcp!Ops, Attempt(p)'
        PROVE  /\ ops'[p].a <= ent'[ops'[p].e].a \/ (ent'[ops'[p].e].cfg = Off /\ ops'[p].pc = "done")
               /\ \A q \in Mcp!Ops : Attempt(q)' /\ ops'[q].e = ops'[p].e /\ ops'[q].a = ops'[p].a => q = p
    <3>1. CASE p = o
      BY <1>1, <1>2, <1>3, <2>1, <2>2, <3>1
    <3>2. CASE p # o
      <4>1. ops'[p] = ops[p] /\ Attempt(p)
        BY <1>1, <1>2, <2>3, <3>2
      <4>2. \A q \in Mcp!Ops : Attempt(q)' /\ ops'[q].e = ops[p].e /\ ops'[q].a = ops[p].a => q = p
        BY <1>1, <1>2, <1>3, <2>1, <2>2, <3>2, <4>1 DEF AttemptsOK
      <4>3. ops[p].a <= ent'[ops[p].e].a \/ (ent'[ops[p].e].cfg = Off /\ ops[p].pc = "done")
        BY <1>3, <2>1, <4>1 DEF AttemptsOK
      <4> QED
        BY <4>1, <4>2, <4>3
    <3> QED
      BY <3>1, <3>2
  <2> QED
    BY <2>3 DEF AttemptsOK
<1>6. CASE GoesOn(o)
  <2>1. \A f \in 1 .. MaxEntries : ent'[f].cfg = ent[f].cfg /\ ent'[f].a = ent[f].a
    BY <1>6 DEF GoesOn
  <2>2. \A p \in Mcp!Ops : Attempt(p)' => /\ Attempt(p) /\ ops'[p].e = ops[p].e /\ ops'[p].a = ops[p].a
                                          /\ ops[p].pc = "done" => ops'[p].pc = "done"
    BY <1>1, <1>2, <1>6 DEF GoesOn
  <2>3. ASSUME NEW p \in Mcp!Ops, Attempt(p)'
        PROVE  /\ ops'[p].a <= ent'[ops'[p].e].a \/ (ent'[ops'[p].e].cfg = Off /\ ops'[p].pc = "done")
               /\ \A q \in Mcp!Ops : Attempt(q)' /\ ops'[q].e = ops'[p].e /\ ops'[q].a = ops'[p].a => q = p
    <3>1. Attempt(p) /\ ops[p].e \in 1 .. MaxEntries
      BY <1>3, <2>2, <2>3
    <3> QED
      BY <2>1, <2>2, <2>3, <3>1 DEF AttemptsOK
  <2> QED
    BY <2>3 DEF AttemptsOK
<1> QED
  BY <1>4, <1>5, <1>6, AttemptFrame

\* What a step does to the clients of entries and to those that are open.
SameClient(f) == ent'[f].a = ent[f].a /\ ent'[f].client = ent[f].client
KeepsClients ==
  /\ \A f \in 1 .. MaxEntries : f <= Mcp!Entries => SameClient(f)
  /\ \A c \in Mcp!Ops : clients'[c] = "open" => clients[c] = "open"
ClosesClient ==
  /\ cur \in 1 .. MaxEntries /\ \A f \in 1 .. MaxEntries \ {cur} : SameClient(f)
  /\ ent'[cur].a \in {ent[cur].a, ent[cur].a + 1} /\ Closes(ent[cur].client)
LosesClient(o) ==
  /\ cur \in 1 .. MaxEntries /\ \A f \in 1 .. MaxEntries \ {cur} : SameClient(f)
  /\ ent'[cur].a = ent[cur].a /\ ent[cur].client = o /\ clients' = [clients EXCEPT ![o] = "died"]
PutsClient(o) ==
  /\ Attempt(o) /\ ops[o].pc = "create" /\ ops'[o].pc = "discover" /\ Attempt(o)'
  /\ ops[o].e \in 1 .. MaxEntries /\ clients' = [clients EXCEPT ![o] = "open"]
  /\ ops'[o].e = ops[o].e /\ ops'[o].a = ops[o].a
  /\ \A f \in 1 .. MaxEntries \ {ops[o].e} : SameClient(f)
  /\ ent'[ops[o].e].a = ent[ops[o].e].a /\ ent'[ops[o].e].client = o
  /\ Unclobbered' => \A p \in Mcp!Ops : p # o /\ ops[p].e = ops[o].e /\ clients[p] # "none" =>
                         ~(ops[o].a < ent[ops[o].e].a /\ ops[p].a > ops[o].a)

LEMMA KeptBy ==
  ASSUME RecordsOK, EntriesOK, NEW o \in Mcp!Ops
  PROVE  /\ Enters(o) => KeepsClients
         /\ ent' = ent /\ clients' = clients => KeepsClients
         /\ ent' = ent /\ Closes(o) => KeepsClients
         /\ ent' = ent /\ clients' = [clients EXCEPT ![o] = "died"] => KeepsClients
<1>0. clients \in [Mcp!Ops -> {"none", "open", "closed", "died"}]
  BY DEF RecordsOK
<1>1. ASSUME Enters(o) PROVE KeepsClients
  <2>1. Mcp!Entries \in Nat /\ clients' = clients /\ \A f \in 1 .. MaxEntries \ {Mcp!Entries + 1} : ent'[f] = ent[f]
    BY <1>1, McpFields DEF Enters
  <2>2. \A f \in 1 .. MaxEntries : f <= Mcp!Entries => f # Mcp!Entries + 1
    BY <2>1, ConnectionBounds
  <2> QED
    BY <2>1, <2>2 DEF KeepsClients, SameClient
<1> QED
  BY <1>0, <1>1 DEF KeepsClients, SameClient, Becomes, Closes

LEMMA KeptCurrent ==
  ASSUME RecordsOK, EntriesOK, cur # 0, clients' = clients, NEW s, Becomes(cur, ent[cur].a, s, ent[cur].client)
  PROVE  KeepsClients
BY McpFields DEF KeepsClients, Becomes, SameClient

LEMMA LostBy ==
  ASSUME RecordsOK, EntriesOK, cur # 0, NEW o \in Mcp!Ops, clients' = [clients EXCEPT ![o] = "died"], ent[cur].client = o,
         NEW s, Becomes(cur, ent[cur].a, s, 0)
  PROVE  LosesClient(o)
BY McpFields DEF LosesClient, Becomes, SameClient

LEMMA ClosedBy ==
  ASSUME RecordsOK, EntriesOK, cur # 0, Closes(ent[cur].client), NEW s, NEW n \in {ent[cur].a, ent[cur].a + 1},
     Becomes(cur, n, s, 0)
  PROVE  ClosesClient
BY McpFields DEF ClosesClient, Becomes, SameClient

LEMMA ClientChange ==
  ASSUME RecordsOK, EntriesOK, MutationsOK, NEW o \in Mcp!Ops, McpAction(o)
  PROVE  KeepsClients \/ ClosesClient \/ LosesClient(o) \/ PutsClient(o)
<1>1. CASE \E cfg \in Configs : Mcp!connect(o, cfg)
  BY <1>1, ConnectEffect, KeptBy, KeptCurrent, LostBy, ClosedBy DEF GivesUp, Overtaken
<1>2. CASE Mcp!ConnectGoesOn(o)
  BY <1>2, ConnectGoesOnEffect, KeptBy, KeptCurrent, LostBy, ClosedBy DEF GivesUp, Overtaken
<1>3. CASE \E k \in {"remove", "markRemoved"} : Mcp!removal(o, k)
  BY <1>3, RemovalEffect, KeptBy, KeptCurrent, LostBy, ClosedBy DEF GivesUp, Overtaken
<1>4. CASE Mcp!remove(o)
  BY <1>4, RemoveEffect, KeptBy, KeptCurrent, LostBy, ClosedBy DEF GivesUp, Overtaken
<1>5. CASE Mcp!markRemoved(o)
  BY <1>5, MarkRemovedEffect, KeptBy, KeptCurrent, LostBy, ClosedBy DEF GivesUp, Overtaken
<1>6. CASE \E k \in {"reconnect", "join"} : Mcp!reconnect(o, k)
  BY <1>6, ReconnectEffect, KeptBy, KeptCurrent, LostBy, ClosedBy DEF GivesUp, Overtaken
<1>7. CASE Mcp!ReconnectGoesOn(o)
  BY <1>7, ReconnectGoesOnEffect, KeptBy, KeptCurrent, LostBy, ClosedBy DEF GivesUp, Overtaken
<1>8. CASE Mcp!createClient(o)
  BY <1>8, CreateClientEffect DEF PutsClient, SameClient, Becomes, MovesTo, Attempt
<1>9. CASE Mcp!connected(o)
  BY <1>9, ConnectedEffect, KeptBy, KeptCurrent, LostBy, ClosedBy DEF GivesUp, Overtaken
<1>10. CASE \E s \in {"failed", "needs-auth"} : Mcp!ConnectFails(o, s)
  BY <1>10, ConnectFailsEffect, KeptBy, KeptCurrent, LostBy, ClosedBy DEF GivesUp, Overtaken
<1>11. CASE Mcp!ConnectEnds(o)
  BY <1>11, ConnectEndsEffect, KeptBy, KeptCurrent, LostBy, ClosedBy DEF GivesUp, Overtaken
<1>12. CASE Mcp!UnexpectedClose(o)
  BY <1>12, UnexpectedCloseEffect, KeptBy, KeptCurrent, LostBy, ClosedBy DEF GivesUp, Overtaken
<1>13. CASE Mcp!markNeedsAuth(o)
  BY <1>13, MarkNeedsAuthEffect, KeptBy, KeptCurrent, LostBy, ClosedBy DEF GivesUp, Overtaken
<1>14. CASE Mcp!Peeked(o)
  BY <1>14, PeekedEffect, KeptBy, KeptCurrent, LostBy, ClosedBy DEF GivesUp, Overtaken
<1>15. CASE Mcp!AuthClosed(o)
  BY <1>15, AuthClosedEffect, KeptBy, KeptCurrent, LostBy, ClosedBy DEF GivesUp, Overtaken
<1>16. CASE Mcp!Invalidated(o)
  BY <1>16, InvalidatedEffect, KeptBy, KeptCurrent, LostBy, ClosedBy DEF GivesUp, Overtaken
<1> QED
  BY <1>1, <1>2, <1>3, <1>4, <1>5, <1>6, <1>7, <1>8, <1>9, <1>10, <1>11, <1>12, <1>13, <1>14, <1>15, <1>16 DEF McpAction, Mcp!Step

LEMMA CurrentChange ==
  ASSUME RecordsOK, EntriesOK, MutationsOK, NEW o \in Mcp!Ops, McpAction(o)
  PROVE  /\ cur' = cur \/ cur = 0 \/ ent[cur].client = 0 \/ "lost" \in mcpOdd'
         /\ mcpOdd \subseteq mcpOdd'
<1>1. CASE \E cfg \in Configs : Mcp!connect(o, cfg)
  BY <1>1, ConnectEffect DEF Enters
<1>2. CASE Mcp!ConnectGoesOn(o)
  BY <1>2, ConnectGoesOnEffect DEF Enters
<1>3. CASE \E k \in {"remove", "markRemoved"} : Mcp!removal(o, k)
  BY <1>3, RemovalEffect DEF Enters
<1>4. CASE Mcp!remove(o)
  BY <1>4, RemoveEffect DEF Enters
<1>5. CASE Mcp!markRemoved(o)
  BY <1>5, MarkRemovedEffect DEF Enters
<1>6. CASE \E k \in {"reconnect", "join"} : Mcp!reconnect(o, k)
  BY <1>6, ReconnectEffect DEF Enters
<1>7. CASE Mcp!ReconnectGoesOn(o)
  BY <1>7, ReconnectGoesOnEffect DEF Enters
<1>8. CASE Mcp!createClient(o)
  BY <1>8, CreateClientEffect DEF Enters
<1>9. CASE Mcp!connected(o)
  BY <1>9, ConnectedEffect DEF Enters
<1>10. CASE \E s \in {"failed", "needs-auth"} : Mcp!ConnectFails(o, s)
  BY <1>10, ConnectFailsEffect DEF Enters
<1>11. CASE Mcp!ConnectEnds(o)
  BY <1>11, ConnectEndsEffect DEF Enters
<1>12. CASE Mcp!UnexpectedClose(o)
  BY <1>12, UnexpectedCloseEffect DEF Enters
<1>13. CASE Mcp!markNeedsAuth(o)
  BY <1>13, MarkNeedsAuthEffect DEF Enters
<1>14. CASE Mcp!Peeked(o)
  BY <1>14, PeekedEffect DEF Enters
<1>15. CASE Mcp!AuthClosed(o)
  BY <1>15, AuthClosedEffect DEF Enters
<1>16. CASE Mcp!Invalidated(o)
  BY <1>16, InvalidatedEffect DEF Enters
<1> QED
  BY <1>1, <1>2, <1>3, <1>4, <1>5, <1>6, <1>7, <1>8, <1>9, <1>10, <1>11, <1>12, <1>13, <1>14, <1>15, <1>16 DEF McpAction, Mcp!Step

LEMMA OwnClient ==
  ASSUME NEW o \in Mcp!Ops, RecordsOK, EntriesOK, MutationsOK, ClientOK(o), Unclobbered', McpAction(o)
  PROVE  ClientOK(o)'
<1>0. /\ clients \in [Mcp!Ops -> {"none", "open", "closed", "died"}]
      /\ ops[o].pc \in {"idle", "close"} => clients[o] = "none"
      /\ cur # 0 /\ ent[cur].client # 0 => clients[ent[cur].client] # "none"
      /\ "open" \notin {"none", "closed", "died"} /\ o # 0
  BY McpFields DEF RecordsOK, PlaceOK
<1>1. CASE \E cfg \in Configs : Mcp!connect(o, cfg)
  BY <1>1, ConnectEffect, <1>0 DEF ClientOK, Attempt, MovesTo, Starts, Ends, GivesUp, Becomes, Closes, Overtaken, Enters
<1>2. CASE Mcp!ConnectGoesOn(o)
  BY <1>2, ConnectGoesOnEffect, <1>0 DEF ClientOK, Attempt, MovesTo, Starts, Ends, GivesUp, Becomes, Closes, Overtaken, Enters
<1>3. CASE \E k \in {"remove", "markRemoved"} : Mcp!removal(o, k)
  BY <1>3, RemovalEffect, <1>0 DEF ClientOK, Attempt, MovesTo, Starts, Ends, GivesUp, Becomes, Closes, Overtaken, Enters
<1>4. CASE Mcp!remove(o)
  BY <1>4, RemoveEffect, <1>0 DEF ClientOK, Attempt, MovesTo, Starts, Ends, GivesUp, Becomes, Closes, Overtaken, Enters
<1>5. CASE Mcp!markRemoved(o)
  BY <1>5, MarkRemovedEffect, <1>0 DEF ClientOK, Attempt, MovesTo, Starts, Ends, GivesUp, Becomes, Closes, Overtaken, Enters
<1>6. CASE \E k \in {"reconnect", "join"} : Mcp!reconnect(o, k)
  BY <1>6, ReconnectEffect, <1>0 DEF ClientOK, Attempt, MovesTo, Starts, Ends, GivesUp, Becomes, Closes, Overtaken, Enters
<1>7. CASE Mcp!ReconnectGoesOn(o)
  BY <1>7, ReconnectGoesOnEffect, <1>0 DEF ClientOK, Attempt, MovesTo, Starts, Ends, GivesUp, Becomes, Closes, Overtaken, Enters
<1>8. CASE Mcp!createClient(o)
  BY <1>8, CreateClientEffect, <1>0 DEF ClientOK, Attempt, MovesTo, Starts, Ends, GivesUp, Becomes, Closes, Overtaken, Enters
<1>9. CASE Mcp!connected(o)
  BY <1>9, ConnectedEffect, <1>0 DEF ClientOK, Attempt, MovesTo, Starts, Ends, GivesUp, Becomes, Closes, Overtaken, Enters
<1>10. CASE \E s \in {"failed", "needs-auth"} : Mcp!ConnectFails(o, s)
  BY <1>10, ConnectFailsEffect, <1>0 DEF ClientOK, Attempt, MovesTo, Starts, Ends, GivesUp, Becomes, Closes, Overtaken, Enters
<1>11. CASE Mcp!ConnectEnds(o)
  BY <1>11, ConnectEndsEffect, <1>0 DEF ClientOK, Attempt, MovesTo, Starts, Ends, GivesUp, Becomes, Closes, Overtaken, Enters
<1>12. CASE Mcp!UnexpectedClose(o)
  BY <1>12, UnexpectedCloseEffect, <1>0 DEF ClientOK, Attempt, MovesTo, Starts, Ends, GivesUp, Becomes, Closes, Overtaken, Enters
<1>13. CASE Mcp!markNeedsAuth(o)
  BY <1>13, MarkNeedsAuthEffect, <1>0 DEF ClientOK, Attempt, MovesTo, Starts, Ends, GivesUp, Becomes, Closes, Overtaken, Enters
<1>14. CASE Mcp!Peeked(o)
  BY <1>14, PeekedEffect, <1>0 DEF ClientOK, Attempt, MovesTo, Starts, Ends, GivesUp, Becomes, Closes, Overtaken, Enters
<1>15. CASE Mcp!AuthClosed(o)
  BY <1>15, AuthClosedEffect, <1>0 DEF ClientOK, Attempt, MovesTo, Starts, Ends, GivesUp, Becomes, Closes, Overtaken, Enters
<1>16. CASE Mcp!Invalidated(o)
  BY <1>16, InvalidatedEffect, <1>0 DEF ClientOK, Attempt, MovesTo, Starts, Ends, GivesUp, Becomes, Closes, Overtaken, Enters
<1> QED
  BY <1>1, <1>2, <1>3, <1>4, <1>5, <1>6, <1>7, <1>8, <1>9, <1>10, <1>11, <1>12, <1>13, <1>14, <1>15, <1>16 DEF McpAction, Mcp!Step

LEMMA ClientsStep ==
  ASSUME RecordsOK, EntriesOK, MutationsOK, AttemptsOK, ClientsOK, NEW o \in Mcp!Ops, McpAction(o)
  PROVE  ClientsOK'
<1> SUFFICES ASSUME Unclobbered', NEW c \in Mcp!Ops, clients'[c] = "open", c # o
             PROVE  ClientOK(c)'
  <2>1. Unclobbered' => Unclobbered
    BY CurrentChange DEF Unclobbered
  <2>2. Unclobbered' => ClientOK(o)'
    BY <2>1, OwnClient DEF ClientsOK
  <2> QED
    BY <2>2 DEF ClientsOK, ClientOK
<1>1. Unclobbered /\ ClientOK(c) /\ ops'[c] = ops[c]
  BY CurrentChange, OpsFrame DEF Unclobbered, ClientsOK, Others
<1>2. clients[c] = "open"
  <2>1. clients \in [Mcp!Ops -> {"none", "open", "closed", "died"}]
    BY DEF RecordsOK
  <2> QED
    BY <2>1, ClientChange DEF KeepsClients, ClosesClient, Closes, LosesClient, PutsClient
<1> DEFINE e == ops[c].e
<1>3. /\ Attempt(c) /\ e \in 1 .. MaxEntries /\ e <= Mcp!Entries /\ ops[c].pc \in {"discover", "done"}
      /\ ops[c].a \in Nat /\ ent[e].a \in Nat /\ Attempt(c)'
  BY <1>1, <1>2, McpFields DEF ClientOK, Attempt, EntriesOK
<1>4. /\ ops[c].a = ent[e].a => ent[e].client = c
      /\ ops[c].pc = "done" => ops[c].a = ent[e].a /\ ("lost" \in mcpOdd \/ cur = e)
  BY <1>1, <1>2 DEF ClientOK
<1>5. /\ ops[c].a = ent'[e].a => ent'[e].client = c
      /\ ops[c].pc = "done" => ops[c].a = ent'[e].a
  <2>1. CASE SameClient(e)
    BY <1>4, <2>1 DEF SameClient
  <2>2. CASE ClosesClient
    <3>1. CASE e = cur
      <4>1. ent[e].client # c
        BY <2>2, <3>1 DEF ClosesClient, Closes
      <4>2. ops[c].a # ent[e].a /\ ops[c].pc = "discover"
        BY <1>3, <1>4, <4>1
      <4>3. ops[c].a < ent[e].a
        BY <1>3, <4>2 DEF AttemptsOK
      <4> QED
        BY <1>3, <2>2, <3>1, <4>2, <4>3 DEF ClosesClient
    <3> QED
      BY <1>3, <2>1, <2>2, <3>1 DEF ClosesClient
  <2>3. CASE LosesClient(o)
    <3>1. CASE e = cur
      <4>1. ent[e].client # c
        BY <2>3, <3>1 DEF LosesClient
      <4> QED
        BY <1>4, <2>3, <3>1, <4>1 DEF LosesClient
    <3> QED
      BY <1>3, <2>1, <2>3, <3>1 DEF LosesClient
  <2>4. CASE PutsClient(o)
    <3>1. CASE e = ops[o].e
      <4>1. ops[o].a \in Nat /\ Attempt(o) /\ ops[o].pc = "create"
        BY <2>4, McpFields DEF PutsClient
      <4>2. ops[o].a <= ent[e].a /\ ops[o].a # ops[c].a
        BY <1>3, <3>1, <4>1 DEF AttemptsOK
      <4>3. ops[c].a # ent[e].a
        BY <1>2, <1>3, <2>4, <3>1, <4>1, <4>2 DEF PutsClient
      <4> QED
        BY <1>4, <2>4, <3>1, <4>3 DEF PutsClient
    <3> QED
      BY <1>3, <2>1, <2>4, <3>1 DEF PutsClient
  <2> QED
    BY <1>3, <2>1, <2>2, <2>3, <2>4, ClientChange DEF KeepsClients
<1>6. ops[c].pc = "done" => "lost" \in mcpOdd' \/ cur' = e
  <2> SUFFICES ASSUME ops[c].pc = "done", "lost" \notin mcpOdd'
               PROVE  cur' = e
    OBVIOUS
  <2>1. "lost" \notin mcpOdd
    BY CurrentChange
  <2>2. cur = e /\ ent[cur].client = c /\ c # 0 /\ cur # 0
    BY <1>3, <1>4, <2>1, McpFields
  <2> QED
    BY <2>2, CurrentChange
<1> QED
  BY <1>1, <1>3, <1>5, <1>6 DEF ClientOK

\* The current entry stays as it is known.
StaysCurrent ==
  /\ cur' = cur /\ cur # 0 /\ ent'[cur].a = ent[cur].a /\ ent'[cur].status = ent[cur].status

LEMMA PendingChange ==
  ASSUME RecordsOK, EntriesOK, MutationsOK, NEW o \in Mcp!Ops, McpAction(o)
  PROVE  \/ cur' = 0 \/ ent'[cur'].status # "pending" \/ Connects(o)'
         \/ StaysCurrent /\ ~Connects(o)
<1>0. /\ cur # 0 => cur \in 1 .. MaxEntries
      /\ PlaceOK(o) /\ (ops[o].pc = "idle" => ops[o].k = "none") /\ o \in DOMAIN clients
      /\ clients[o] = "open" => ops[o].pc \notin {"close", "create"}
  BY McpFields DEF RecordsOK, PlaceOK
<1>1. CASE \E cfg \in Configs : Mcp!connect(o, cfg)
  BY <1>1, ConnectEffect, <1>0 DEF StaysCurrent, Connects, Serves, Attempt, Becomes, MovesTo, Starts, Ends, GivesUp,
     Overtaken, Enters
<1>2. CASE Mcp!ConnectGoesOn(o)
  BY <1>2, ConnectGoesOnEffect, <1>0 DEF StaysCurrent, Connects, Serves, Attempt, Becomes, MovesTo, Starts, Ends, GivesUp,
     Overtaken, Enters
<1>3. CASE \E k \in {"remove", "markRemoved"} : Mcp!removal(o, k)
  BY <1>3, RemovalEffect, <1>0 DEF StaysCurrent, Connects, Serves, Attempt, Becomes, MovesTo, Starts, Ends, GivesUp,
     Overtaken, Enters
<1>4. CASE Mcp!remove(o)
  BY <1>4, RemoveEffect, <1>0 DEF StaysCurrent, Connects, Serves, Attempt, Becomes, MovesTo, Starts, Ends, GivesUp,
     Overtaken, Enters
<1>5. CASE Mcp!markRemoved(o)
  BY <1>5, MarkRemovedEffect, <1>0 DEF StaysCurrent, Connects, Serves, Attempt, Becomes, MovesTo, Starts, Ends, GivesUp,
     Overtaken, Enters
<1>6. CASE \E k \in {"reconnect", "join"} : Mcp!reconnect(o, k)
  BY <1>6, ReconnectEffect, <1>0 DEF StaysCurrent, Connects, Serves, Attempt, Becomes, MovesTo, Starts, Ends, GivesUp,
     Overtaken, Enters
<1>7. CASE Mcp!ReconnectGoesOn(o)
  BY <1>7, ReconnectGoesOnEffect, <1>0 DEF StaysCurrent, Connects, Serves, Attempt, Becomes, MovesTo, Starts, Ends,
     GivesUp, Overtaken, Enters
<1>8. CASE Mcp!createClient(o)
  BY <1>8, CreateClientEffect, <1>0 DEF StaysCurrent, Connects, Serves, Attempt, Becomes, MovesTo, Starts, Ends, GivesUp,
     Overtaken, Enters
<1>9. CASE Mcp!connected(o)
  BY <1>9, ConnectedEffect, <1>0 DEF StaysCurrent, Connects, Serves, Attempt, Becomes, MovesTo, Starts, Ends, GivesUp,
     Overtaken, Enters
<1>10. CASE \E s \in {"failed", "needs-auth"} : Mcp!ConnectFails(o, s)
  BY <1>10, ConnectFailsEffect, <1>0 DEF StaysCurrent, Connects, Serves, Attempt, Becomes, MovesTo, Starts, Ends, GivesUp,
     Overtaken, Enters
<1>11. CASE Mcp!ConnectEnds(o)
  BY <1>11, ConnectEndsEffect, <1>0 DEF StaysCurrent, Connects, Serves, Attempt, Becomes, MovesTo, Starts, Ends, GivesUp,
     Overtaken, Enters
<1>12. CASE Mcp!UnexpectedClose(o)
  BY <1>12, UnexpectedCloseEffect, <1>0 DEF StaysCurrent, Connects, Serves, Attempt, Becomes, MovesTo, Starts, Ends,
     GivesUp, Overtaken, Enters
<1>13. CASE Mcp!markNeedsAuth(o)
  BY <1>13, MarkNeedsAuthEffect, <1>0 DEF StaysCurrent, Connects, Serves, Attempt, Becomes, MovesTo, Starts, Ends, GivesUp,
     Overtaken, Enters
<1>14. CASE Mcp!Peeked(o)
  BY <1>14, PeekedEffect, <1>0 DEF StaysCurrent, Connects, Serves, Attempt, Becomes, MovesTo, Starts, Ends, GivesUp,
     Overtaken, Enters
<1>15. CASE Mcp!AuthClosed(o)
  BY <1>15, AuthClosedEffect, <1>0 DEF StaysCurrent, Connects, Serves, Attempt, Becomes, MovesTo, Starts, Ends, GivesUp,
     Overtaken, Enters
<1>16. CASE Mcp!Invalidated(o)
  BY <1>16, InvalidatedEffect, <1>0 DEF StaysCurrent, Connects, Serves, Attempt, Becomes, MovesTo, Starts, Ends, GivesUp,
     Overtaken, Enters
<1> QED
  BY <1>1, <1>2, <1>3, <1>4, <1>5, <1>6, <1>7, <1>8, <1>9, <1>10, <1>11, <1>12, <1>13, <1>14, <1>15, <1>16 DEF McpAction, Mcp!Step

LEMMA PendingStep ==
  ASSUME RecordsOK, EntriesOK, MutationsOK, PendingOK, NEW o \in Mcp!Ops, McpAction(o)
  PROVE  PendingOK'
<1>1. \A p \in Mcp!Ops \ {o} : ops'[p] = ops[p]
  BY OpsFrame DEF Others
<1>2. CASE StaysCurrent /\ ~Connects(o)
  <2>1. ASSUME NEW p \in Mcp!Ops, Connects(p) PROVE Connects(p)'
    <3>1. p # o
      BY <1>2, <2>1
    <3> QED
      BY <1>1, <1>2, <2>1, <3>1 DEF StaysCurrent, Connects, Serves, Attempt
  <2> QED
    BY <1>2, <2>1 DEF StaysCurrent, PendingOK
<1> QED
  BY <1>2, PendingChange DEF PendingOK

LEMMA ToldChange ==
  ASSUME RecordsOK, EntriesOK, MutationsOK, NEW o \in Mcp!Ops, McpAction(o)
  PROVE  \/ cur' = 0 \/ shown' = ent'[cur'].status \/ Reports(o)'
         \/ StaysCurrent /\ shown' = shown /\ ~Reports(o)
         \/ ops' = ops /\ StaysCurrent /\ shown' = shown
<1>0. /\ cur # 0 => cur \in 1 .. MaxEntries
      /\ PlaceOK(o) /\ (ops[o].pc = "idle" => ops[o].k = "none") /\ o \in DOMAIN clients
  BY McpFields DEF RecordsOK, PlaceOK
<1>1. CASE \E cfg \in Configs : Mcp!connect(o, cfg)
  BY <1>1, ConnectEffect, <1>0 DEF StaysCurrent, Reports, Attempt, Becomes, MovesTo, Starts, Ends, GivesUp, Overtaken,
     Enters, Tells, TellsEntry, TellsCurrent, Quiescent
<1>2. CASE Mcp!ConnectGoesOn(o)
  BY <1>2, ConnectGoesOnEffect, <1>0 DEF StaysCurrent, Reports, Attempt, Becomes, MovesTo, Starts, Ends, GivesUp,
     Overtaken, Enters, Tells, TellsEntry, TellsCurrent, Quiescent
<1>3. CASE \E k \in {"remove", "markRemoved"} : Mcp!removal(o, k)
  BY <1>3, RemovalEffect, <1>0 DEF StaysCurrent, Reports, Attempt, Becomes, MovesTo, Starts, Ends, GivesUp, Overtaken,
     Enters, Tells, TellsEntry, TellsCurrent, Quiescent
<1>4. CASE Mcp!remove(o)
  BY <1>4, RemoveEffect, <1>0 DEF StaysCurrent, Reports, Attempt, Becomes, MovesTo, Starts, Ends, GivesUp, Overtaken,
     Enters, Tells, TellsEntry, TellsCurrent, Quiescent
<1>5. CASE Mcp!markRemoved(o)
  BY <1>5, MarkRemovedEffect, <1>0 DEF StaysCurrent, Reports, Attempt, Becomes, MovesTo, Starts, Ends, GivesUp, Overtaken,
     Enters, Tells, TellsEntry, TellsCurrent, Quiescent
<1>6. CASE \E k \in {"reconnect", "join"} : Mcp!reconnect(o, k)
  BY <1>6, ReconnectEffect, <1>0 DEF StaysCurrent, Reports, Attempt, Becomes, MovesTo, Starts, Ends, GivesUp, Overtaken,
     Enters, Tells, TellsEntry, TellsCurrent, Quiescent
<1>7. CASE Mcp!ReconnectGoesOn(o)
  BY <1>7, ReconnectGoesOnEffect, <1>0 DEF StaysCurrent, Reports, Attempt, Becomes, MovesTo, Starts, Ends, GivesUp,
     Overtaken, Enters, Tells, TellsEntry, TellsCurrent, Quiescent
<1>8. CASE Mcp!createClient(o)
  BY <1>8, CreateClientEffect, <1>0 DEF StaysCurrent, Reports, Attempt, Becomes, MovesTo, Starts, Ends, GivesUp, Overtaken,
     Enters, Tells, TellsEntry, TellsCurrent, Quiescent
<1>9. CASE Mcp!connected(o)
  BY <1>9, ConnectedEffect, <1>0 DEF StaysCurrent, Reports, Attempt, Becomes, MovesTo, Starts, Ends, GivesUp, Overtaken,
     Enters, Tells, TellsEntry, TellsCurrent, Quiescent
<1>10. CASE \E s \in {"failed", "needs-auth"} : Mcp!ConnectFails(o, s)
  BY <1>10, ConnectFailsEffect, <1>0 DEF StaysCurrent, Reports, Attempt, Becomes, MovesTo, Starts, Ends, GivesUp,
     Overtaken, Enters, Tells, TellsEntry, TellsCurrent, Quiescent
<1>11. CASE Mcp!ConnectEnds(o)
  BY <1>11, ConnectEndsEffect, <1>0 DEF StaysCurrent, Reports, Attempt, Becomes, MovesTo, Starts, Ends, GivesUp, Overtaken,
     Enters, Tells, TellsEntry, TellsCurrent, Quiescent
<1>12. CASE Mcp!UnexpectedClose(o)
  BY <1>12, UnexpectedCloseEffect, <1>0 DEF StaysCurrent, Reports, Attempt, Becomes, MovesTo, Starts, Ends, GivesUp,
     Overtaken, Enters, Tells, TellsEntry, TellsCurrent, Quiescent
<1>13. CASE Mcp!markNeedsAuth(o)
  BY <1>13, MarkNeedsAuthEffect, <1>0 DEF StaysCurrent, Reports, Attempt, Becomes, MovesTo, Starts, Ends, GivesUp,
     Overtaken, Enters, Tells, TellsEntry, TellsCurrent, Quiescent
<1>14. CASE Mcp!Peeked(o)
  BY <1>14, PeekedEffect, <1>0 DEF StaysCurrent, Reports, Attempt, Becomes, MovesTo, Starts, Ends, GivesUp, Overtaken,
     Enters, Tells, TellsEntry, TellsCurrent, Quiescent
<1>15. CASE Mcp!AuthClosed(o)
  BY <1>15, AuthClosedEffect, <1>0 DEF StaysCurrent, Reports, Attempt, Becomes, MovesTo, Starts, Ends, GivesUp, Overtaken,
     Enters, Tells, TellsEntry, TellsCurrent, Quiescent
<1>16. CASE Mcp!Invalidated(o)
  BY <1>16, InvalidatedEffect, <1>0 DEF StaysCurrent, Reports, Attempt, Becomes, MovesTo, Starts, Ends, GivesUp, Overtaken,
     Enters, Tells, TellsEntry, TellsCurrent, Quiescent
<1> QED
  BY <1>1, <1>2, <1>3, <1>4, <1>5, <1>6, <1>7, <1>8, <1>9, <1>10, <1>11, <1>12, <1>13, <1>14, <1>15, <1>16 DEF McpAction, Mcp!Step

LEMMA AgentChange ==
  ASSUME RecordsOK, EntriesOK, MutationsOK, NEW o \in Mcp!Ops, McpAction(o)
  PROVE  Quiescent \/ \E s, c : Tells(s, c)
<1>1. CASE \E cfg \in Configs : Mcp!connect(o, cfg)
  BY <1>1, ConnectEffect DEF TellsEntry, TellsCurrent, GivesUp, Enters
<1>2. CASE Mcp!ConnectGoesOn(o)
  BY <1>2, ConnectGoesOnEffect DEF TellsEntry, TellsCurrent, GivesUp, Enters
<1>3. CASE \E k \in {"remove", "markRemoved"} : Mcp!removal(o, k)
  BY <1>3, RemovalEffect DEF TellsEntry, TellsCurrent, GivesUp, Enters
<1>4. CASE Mcp!remove(o)
  BY <1>4, RemoveEffect DEF TellsEntry, TellsCurrent, GivesUp, Enters
<1>5. CASE Mcp!markRemoved(o)
  BY <1>5, MarkRemovedEffect DEF TellsEntry, TellsCurrent, GivesUp, Enters
<1>6. CASE \E k \in {"reconnect", "join"} : Mcp!reconnect(o, k)
  BY <1>6, ReconnectEffect DEF TellsEntry, TellsCurrent, GivesUp, Enters
<1>7. CASE Mcp!ReconnectGoesOn(o)
  BY <1>7, ReconnectGoesOnEffect DEF TellsEntry, TellsCurrent, GivesUp, Enters
<1>8. CASE Mcp!createClient(o)
  BY <1>8, CreateClientEffect DEF TellsEntry, TellsCurrent, GivesUp, Enters
<1>9. CASE Mcp!connected(o)
  BY <1>9, ConnectedEffect DEF TellsEntry, TellsCurrent, GivesUp, Enters
<1>10. CASE \E s \in {"failed", "needs-auth"} : Mcp!ConnectFails(o, s)
  BY <1>10, ConnectFailsEffect DEF TellsEntry, TellsCurrent, GivesUp, Enters
<1>11. CASE Mcp!ConnectEnds(o)
  BY <1>11, ConnectEndsEffect DEF TellsEntry, TellsCurrent, GivesUp, Enters
<1>12. CASE Mcp!UnexpectedClose(o)
  BY <1>12, UnexpectedCloseEffect DEF TellsEntry, TellsCurrent, GivesUp, Enters
<1>13. CASE Mcp!markNeedsAuth(o)
  BY <1>13, MarkNeedsAuthEffect DEF TellsEntry, TellsCurrent, GivesUp, Enters
<1>14. CASE Mcp!Peeked(o)
  BY <1>14, PeekedEffect DEF TellsEntry, TellsCurrent, GivesUp, Enters
<1>15. CASE Mcp!AuthClosed(o)
  BY <1>15, AuthClosedEffect DEF TellsEntry, TellsCurrent, GivesUp, Enters
<1>16. CASE Mcp!Invalidated(o)
  BY <1>16, InvalidatedEffect DEF TellsEntry, TellsCurrent, GivesUp, Enters
<1> QED
  BY <1>1, <1>2, <1>3, <1>4, <1>5, <1>6, <1>7, <1>8, <1>9, <1>10, <1>11, <1>12, <1>13, <1>14, <1>15, <1>16 DEF McpAction, Mcp!Step

LEMMA ToldStep ==
  ASSUME RecordsOK, EntriesOK, MutationsOK, ToldOK, NEW o \in Mcp!Ops, McpAction(o)
  PROVE  ToldOK'
<1>1. \A p \in Mcp!Ops \ {o} : ops'[p] = ops[p]
  BY OpsFrame DEF Others
<1>2. shown' \in {"needs-auth", "disabled", "removed"} => tools' = 0
  BY AgentChange DEF Quiescent, Tells, ToldOK
<1>3. cur' # 0 => shown' = ent'[cur'].status \/ \E p \in Mcp!Ops : Reports(p)'
  <2>1. CASE StaysCurrent /\ shown' = shown /\ (ops' = ops \/ ~Reports(o))
    <3>1. ASSUME NEW p \in Mcp!Ops, Reports(p) PROVE Reports(p)'
      <4>1. ops'[p] = ops[p]
        BY <1>1, <2>1, <3>1
      <4> QED
        BY <2>1, <3>1, <4>1 DEF StaysCurrent, Reports, Attempt
    <3> QED
      BY <2>1, <3>1 DEF StaysCurrent, ToldOK
  <2> QED
    BY <2>1, ToldChange
<1> QED
  BY <1>2, <1>3 DEF ToldOK

\* The client of the current entry goes on being used.
StaysInUse ==
  InUse(ent[cur].client) => ent'[cur].client = ent[cur].client /\ InUse(ent[cur].client)'

LEMMA InUseFacts ==
  ASSUME RecordsOK, EntriesOK, AttemptsOK, cur # 0, InUse(ent[cur].client), NEW o \in Mcp!Ops, Attempt(o), ops[o].pc # "done"
  PROVE  /\ o # ent[cur].client
         /\ ops[o].e = cur => ops[o].a < ent[cur].a /\ ops[ent[cur].client].a = ent[cur].a
<1> DEFINE c == ent[cur].client
<1>1. c \in Mcp!Ops /\ Attempt(c) /\ ops[c].e = cur /\ ops[c].a = ent[cur].a /\ ops[c].pc = "done" /\ cur \in 1 .. MaxEntries
  BY McpFields DEF InUse, Serves, Mcp!Ops
<1> HIDE DEF c
<1>2. o # c
  BY <1>1
<1>3. ASSUME ops[o].e = cur PROVE ops[o].a < ent[cur].a
  <2>1. ops[o].a # ops[c].a /\ ops[o].a <= ent[cur].a
    BY <1>1, <1>2, <1>3 DEF AttemptsOK
  <2>2. ops[o].a \in Nat /\ ent[cur].a \in Nat
    BY <1>1, McpFields
  <2> QED
    BY <1>1, <2>1, <2>2
<1> QED
  BY <1>1, <1>2, <1>3 DEF c

\* A client in use stays in use when its attempt, its entry and the agent rest.
LEMMA InUseRests ==
  ASSUME InUse(ent[cur].client), cur' = cur, ent'[cur].a = ent[cur].a, ent'[cur].client = ent[cur].client,
         ops'[ent[cur].client] = ops[ent[cur].client], clients'[ent[cur].client] = "open", tools' = tools
  PROVE  InUse(ent[cur].client)'
BY DEF InUse, Serves, Attempt

LEMMA InUseFinishes ==
  ASSUME RecordsOK, EntriesOK, AttemptsOK, ClientsOK, Unclobbered, NEW o \in Mcp!Ops, Mcp!connected(o)
  PROVE  \/ cur' = cur /\ ent'[cur].client = o /\ InUse(o)'
         \/ Overtaken(o)
<1>1. Attempt(o) /\ ops[o].e \in 1 .. MaxEntries /\ clients[o] = "open" /\ cur' = cur /\ o # 0
  BY ConnectedEffect, McpFields
<1>2. CASE ~Overtaken(o)
  <2>1. /\ cur = ops[o].e /\ ent[cur].a = ops[o].a /\ MovesTo(o, "done") /\ clients' = clients
        /\ Becomes(cur, ent[cur].a, "connected", ent[cur].client) /\ TellsEntry(cur)
    BY <1>2, ConnectedEffect DEF Overtaken, GivesUp, Ends
  <2>2. ent[cur].client = o
    BY <1>1, <2>1 DEF ClientsOK, ClientOK
  <2>3. ent'[cur].client = o /\ ent'[cur].a = ent[cur].a /\ ent'[cur].status = "connected"
    BY <2>1, <2>2 DEF Becomes
  <2>4. tools' = o
    BY <1>1, <2>1, <2>3 DEF TellsEntry, Tells
  <2> QED
    BY <1>1, <2>1, <2>3, <2>4 DEF InUse, Serves, Attempt, MovesTo
<1> QED
  BY <1>2

\* The current entry keeps its client, unless that is not in use.
LEMMA InUseStays ==
  ASSUME RecordsOK, EntriesOK, Unclobbered', AttemptsOK, ClientsOK, MutationsOK, NEW o \in Mcp!Ops, McpAction(o),
         cur' = cur, cur # 0, ent'[cur].a = ent[cur].a, tools' = tools \/ TellsCurrent,
         ent[cur].status = "connected", ops[o].pc # "done" \/ ops' = ops,
         \/ ent'[cur].client = ent[cur].client /\ clients' = clients
         \/ Closes(o) /\ ent'[cur].client = ent[cur].client /\ Attempt(o) /\ ops[o].pc # "done"
         \/ Mcp!createClient(o)
         \/ Mcp!UnexpectedClose(o) /\ ent' = ent
  PROVE  StaysInUse
<1> SUFFICES ASSUME InUse(ent[cur].client)
             PROVE  ent'[cur].client = ent[cur].client /\ InUse(ent[cur].client)'
  BY DEF StaysInUse
<1> DEFINE c == ent[cur].client
<1>1. c \in Mcp!Ops /\ c # 0 /\ clients[c] = "open" /\ ops[c].pc = "done" /\ Serves(c,
   cur) /\ tools = c /\ cur \in 1 .. MaxEntries
  BY McpFields DEF InUse, Mcp!Ops
<1>2. ops'[c] = ops[c]
  BY <1>1, OpsFrame DEF Others
<1>3. tools' = tools
  BY <1>1 DEF TellsCurrent, Tells
<1>4. ent'[cur].client = c /\ clients'[c] = "open"
  <2>1. CASE ent'[cur].client = ent[cur].client /\ clients' = clients
    BY <1>1, <2>1
  <2>2. CASE Closes(o) /\ ent'[cur].client = ent[cur].client /\ Attempt(o) /\ ops[o].pc # "done"
    BY <1>1, <2>2 DEF Closes
  <2>3. CASE Mcp!createClient(o)
    <3>1. /\ Attempt(o) /\ ops[o].pc = "create" /\ clients' = [clients EXCEPT ![o] = "open"]
          /\ Becomes(ops[o].e, ent[ops[o].e].a, ent[ops[o].e].status, o)
          /\ c # o /\ ops[c].e = ops[o].e /\ clients[c] # "none" => ~(ops[o].a < ent[ops[o].e].a /\ ops[c].a > ops[o].a)
      BY <1>1, <2>3, CreateClientEffect
    <3>2. c # o /\ (ops[o].e = cur => ops[o].a < ent[cur].a /\ ops[c].a = ent[cur].a)
      BY <3>1, InUseFacts
    <3>3. ops[o].e # cur
      <4>1. ops[o].a \in Nat /\ ent[cur].a \in Nat /\ ops[c].e = cur
        BY <1>1, McpFields DEF Serves
      <4> QED
        BY <1>1, <3>1, <3>2, <4>1
    <3>4. clients \in [Mcp!Ops -> {"none", "open", "closed", "died"}]
      BY DEF RecordsOK
    <3> QED
      BY <1>1, <3>1, <3>2, <3>3, <3>4 DEF Becomes
  <2>4. CASE Mcp!UnexpectedClose(o) /\ ent' = ent
    <3>1. /\ clients' = [clients EXCEPT ![o] = "died"]
          /\ (~Overtaken(o) /\ cur # 0 /\ Becomes(cur, ent[cur].a, "failed", 0))
             \/ ~(ops[o].pc = "done" /\ ~Overtaken(o) /\ ent[cur].client = o)
      BY <2>4, UnexpectedCloseEffect
    <3>2. c # o
      BY <1>1, <2>4, <3>1 DEF Becomes, Serves, Overtaken
    <3>3. clients \in [Mcp!Ops -> {"none", "open", "closed", "died"}]
      BY DEF RecordsOK
    <3> QED
      BY <1>1, <2>4, <3>1, <3>2, <3>3
  <2> QED
    BY <2>1, <2>2, <2>3, <2>4
<1> QED
  BY <1>2, <1>3, <1>4, InUseRests DEF c

LEMMA ConnectedChange ==
  ASSUME NEW o \in Mcp!Ops, RecordsOK, EntriesOK, MutationsOK, AttemptsOK, ClientsOK, Unclobbered', McpAction(o)
  PROVE  \/ cur' = 0 \/ ent'[cur'].status # "connected" \/ Overruled(o)'
         \/ InUse(ent[cur].client)'
         \/ StaysCurrent /\ (ops' = ops \/ ~Overruled(o)) /\ StaysInUse
<1>0. /\ cur # 0 => cur \in 1 .. MaxEntries
      /\ PlaceOK(o) /\ (ops[o].pc = "idle" => ops[o].k = "none") /\ o \in DOMAIN clients
  BY McpFields DEF RecordsOK, PlaceOK
<1>1. CASE \E cfg \in Configs : Mcp!connect(o, cfg)
  BY <1>1, ConnectEffect, <1>0, InUseStays DEF StaysCurrent, Overruled, Mutating, Mcp!Live, Mcp!Mutations, Serves, Attempt,
     Becomes, MovesTo, Starts, Ends, GivesUp, Overtaken, Enters, Quiescent
<1>2. CASE Mcp!ConnectGoesOn(o)
  BY <1>2, ConnectGoesOnEffect, <1>0, InUseStays DEF StaysCurrent, Overruled, Mutating, Mcp!Live, Mcp!Mutations, Serves,
     Attempt, Becomes, MovesTo, Starts, Ends, GivesUp, Overtaken, Enters, Quiescent
<1>3. CASE \E k \in {"remove", "markRemoved"} : Mcp!removal(o, k)
  BY <1>3, RemovalEffect, <1>0, InUseStays DEF StaysCurrent, Overruled, Mutating, Mcp!Live, Mcp!Mutations, Serves, Attempt,
     Becomes, MovesTo, Starts, Ends, GivesUp, Overtaken, Enters, Quiescent
<1>4. CASE Mcp!remove(o)
  BY <1>4, RemoveEffect, <1>0, InUseStays DEF StaysCurrent, Overruled, Mutating, Mcp!Live, Mcp!Mutations, Serves, Attempt,
     Becomes, MovesTo, Starts, Ends, GivesUp, Overtaken, Enters, Quiescent
<1>5. CASE Mcp!markRemoved(o)
  BY <1>5, MarkRemovedEffect, <1>0, InUseStays DEF StaysCurrent, Overruled, Mutating, Mcp!Live, Mcp!Mutations, Serves,
     Attempt, Becomes, MovesTo, Starts, Ends, GivesUp, Overtaken, Enters, Quiescent
<1>6. CASE \E k \in {"reconnect", "join"} : Mcp!reconnect(o, k)
  BY <1>6, ReconnectEffect, <1>0, InUseStays DEF StaysCurrent, Overruled, Mutating, Mcp!Live, Mcp!Mutations, Serves,
     Attempt, Becomes, MovesTo, Starts, Ends, GivesUp, Overtaken, Enters, Quiescent
<1>7. CASE Mcp!ReconnectGoesOn(o)
  BY <1>7, ReconnectGoesOnEffect, <1>0, InUseStays DEF StaysCurrent, Overruled, Mutating, Mcp!Live, Mcp!Mutations, Serves,
     Attempt, Becomes, MovesTo, Starts, Ends, GivesUp, Overtaken, Enters, Quiescent
<1>8. CASE Mcp!createClient(o)
  BY <1>8, CreateClientEffect, <1>0, InUseStays DEF StaysCurrent, Overruled, Mutating, Mcp!Live, Mcp!Mutations, Serves,
     Attempt, Becomes, MovesTo, Starts, Ends, GivesUp, Overtaken, Enters, Quiescent
<1>9. CASE Mcp!connected(o)
  <2>1. /\ Attempt(o) /\ ops[o].pc = "discover" /\ cur' = cur /\ mcpOdd' = mcpOdd
        /\ \/ ~Overtaken(o) /\ cur # 0 /\ Becomes(cur, ent[cur].a, "connected", ent[cur].client)
           \/ GivesUp(o) /\ Closes(o)
    BY <1>9, ConnectedEffect
  <2>2. CASE ~Overtaken(o)
    <3>1. Unclobbered
      BY <2>1 DEF Unclobbered
    <3> QED
      BY <1>9, <2>1, <2>2, <3>1, InUseFinishes
  <2>3. CASE GivesUp(o) /\ Closes(o)
    BY <1>0, <2>1, <2>3, InUseStays DEF GivesUp, Quiescent, StaysCurrent, Overruled, Mutating, Mcp!Live, Mcp!Mutations,
       Serves, Attempt
  <2> QED
    BY <2>1, <2>2, <2>3
<1>10. CASE \E s \in {"failed", "needs-auth"} : Mcp!ConnectFails(o, s)
  BY <1>10, ConnectFailsEffect, <1>0, InUseStays DEF StaysCurrent, Overruled, Mutating, Mcp!Live, Mcp!Mutations, Serves,
     Attempt, Becomes, MovesTo, Starts, Ends, GivesUp, Overtaken, Enters, Quiescent
<1>11. CASE Mcp!ConnectEnds(o)
  BY <1>11, ConnectEndsEffect, <1>0, InUseStays DEF StaysCurrent, Overruled, Mutating, Mcp!Live, Mcp!Mutations, Serves,
     Attempt, Becomes, MovesTo, Starts, Ends, GivesUp, Overtaken, Enters, Quiescent
<1>12. CASE Mcp!UnexpectedClose(o)
  BY <1>12, UnexpectedCloseEffect, <1>0, InUseStays DEF StaysCurrent, Overruled, Mutating, Mcp!Live, Mcp!Mutations, Serves,
     Attempt, Becomes, MovesTo, Starts, Ends, GivesUp, Overtaken, Enters, Quiescent
<1>13. CASE Mcp!markNeedsAuth(o)
  BY <1>13, MarkNeedsAuthEffect, <1>0, InUseStays DEF StaysCurrent, Overruled, Mutating, Mcp!Live, Mcp!Mutations, Serves,
     Attempt, Becomes, MovesTo, Starts, Ends, GivesUp, Overtaken, Enters, Quiescent
<1>14. CASE Mcp!Peeked(o)
  BY <1>14, PeekedEffect, <1>0, InUseStays DEF StaysCurrent, Overruled, Mutating, Mcp!Live, Mcp!Mutations, Serves, Attempt,
     Becomes, MovesTo, Starts, Ends, GivesUp, Overtaken, Enters, Quiescent
<1>15. CASE Mcp!AuthClosed(o)
  BY <1>15, AuthClosedEffect, <1>0, InUseStays DEF StaysCurrent, Overruled, Mutating, Mcp!Live, Mcp!Mutations, Serves,
     Attempt, Becomes, MovesTo, Starts, Ends, GivesUp, Overtaken, Enters, Quiescent
<1>16. CASE Mcp!Invalidated(o)
  BY <1>16, InvalidatedEffect, <1>0, InUseStays DEF StaysCurrent, Overruled, Mutating, Mcp!Live, Mcp!Mutations, Serves,
     Attempt, Becomes, MovesTo, Starts, Ends, GivesUp, Overtaken, Enters, Quiescent
<1> QED
  BY <1>1, <1>2, <1>3, <1>4, <1>5, <1>6, <1>7, <1>8, <1>9, <1>10, <1>11, <1>12, <1>13, <1>14, <1>15, <1>16 DEF McpAction, Mcp!Step

LEMMA ConnectedStep ==
  ASSUME RecordsOK, EntriesOK, MutationsOK, AttemptsOK, ClientsOK, ConnectedOK, NEW o \in Mcp!Ops, McpAction(o)
  PROVE  ConnectedOK'
<1> SUFFICES ASSUME Unclobbered', cur' # 0, ent'[cur'].status = "connected", ~InUse(ent[cur].client)'
             PROVE  \E p \in Mcp!Ops : Overruled(p)'
  BY DEF ConnectedOK
<1>1. Unclobbered
  BY CurrentChange DEF Unclobbered
<1>2. \A p \in Mcp!Ops \ {o} : ops'[p] = ops[p]
  BY OpsFrame DEF Others
<1>3. CASE StaysCurrent /\ (ops' = ops \/ ~Overruled(o)) /\ StaysInUse
  <2>1. PICK p \in Mcp!Ops : Overruled(p)
    BY <1>1, <1>3 DEF ConnectedOK, StaysCurrent, StaysInUse
  <2>2. ops'[p] = ops[p]
    BY <1>2, <1>3, <2>1
  <2> QED
    BY <1>3, <2>1, <2>2 DEF StaysCurrent, Overruled, Serves, Attempt, Mutating, Mcp!Live
<1> QED
  BY <1>3, ConnectedChange

LEMMA McpInitially == Mcp!Init => McpIInv
<1> SUFFICES ASSUME Mcp!Init
             PROVE  McpIInv
  OBVIOUS
<1>1. /\ \A o \in Mcp!Ops : ops[o] = Mcp!NoOp /\ clients[o] = "none"
      /\ \A e \in 1 .. MaxEntries : ent[e] = Mcp!NoEntry
      /\ cur = 0 /\ joined = 0 /\ shown = "none" /\ tools = 0 /\ mcpOdd = {}
      /\ ops = [o \in Mcp!Ops |-> Mcp!NoOp] /\ ent = [e \in 1 .. MaxEntries |-> Mcp!NoEntry]
      /\ clients = [o \in Mcp!Ops |-> "none"]
  BY DEF Mcp!Init
<1>2. Mcp!NoOp \in Operations /\ Mcp!NoEntry \in EntryRecords
  BY ZeroFacts DEF Mcp!NoOp, Mcp!NoEntry, Operations, EntryRecords
<1>3. /\ \A o \in Mcp!Ops : ops[o].k = "none" /\ ops[o].pc = "idle" /\ ops[o].e = 0 /\ ~Attempt(o) /\ ~Mutating(o)
      /\ \A e \in 1 .. MaxEntries : ent[e].client = 0 /\ ent[e].status = "none"
  BY <1>1 DEF Mcp!NoOp, Mcp!NoEntry, Attempt, Mutating, Mcp!Mutations
<1>4. RecordsOK
  <2>1. Mcp!TypeOK
    BY <1>1, <1>3, ZeroFacts DEF Mcp!TypeOK
  <2> QED
    BY <1>1, <1>2, <1>3, <2>1 DEF RecordsOK, PlaceOK
<1>5. EntriesOK
  <2>1. {f \in 1 .. MaxEntries : ent[f] # Mcp!NoEntry} = 1 .. 0
    BY <1>1
  <2>2. Mcp!Entries = 0
    BY <2>1, EntriesCount DEF Mcp!Entries
  <2> QED
    BY <1>1, <1>3, <2>1, <2>2, ZeroFacts DEF EntriesOK
<1> QED
  BY <1>1, <1>3, <1>4, <1>5 DEF McpIInv, MutationsOK, AttemptsOK, ClientsOK, ClientOK, PendingOK, ConnectedOK, ToldOK

LEMMA McpStep == McpIInv /\ [Mcp!Next]_mcpVars => McpIInv'
<1> SUFFICES ASSUME McpIInv, [Mcp!Next]_mcpVars
             PROVE  McpIInv'
  OBVIOUS
<1>1. ASSUME NEW o \in Mcp!Ops, McpAction(o) PROVE McpIInv'
  BY <1>1, RecordsStep, EntriesStep, MutationsStep, AttemptsStep, ClientsStep, PendingStep, ConnectedStep, ToldStep DEF McpIInv
<1>2. CASE UNCHANGED mcpVars
  BY <1>2 DEF mcpVars, McpIInv, RecordsOK, PlaceOK, Mcp!TypeOK, EntriesOK, Mcp!Entries, MutationsOK, Mutating, Mcp!Live,
     AttemptsOK, Attempt,
     ClientsOK, ClientOK, Unclobbered, PendingOK, Connects, Serves, ConnectedOK, InUse, Overruled, ToldOK, Reports
<1>3. ASSUME Mcp!Next PROVE (\E o \in Mcp!Ops : McpAction(o)) \/ UNCHANGED mcpVars
  BY <1>3 DEF Mcp!Next, McpAction, Mcp!vars, mcpVars
<1> QED
  BY <1>1, <1>2, <1>3

LEMMA McpIInvImplies == McpIInv => ServerIsAsShown
<1> SUFFICES ASSUME McpIInv
             PROVE  Mcp!TypeOK /\ Mcp!NoneLeftOpen /\ Mcp!ConnectedIsOpen /\ Mcp!PendingIsServed /\ Mcp!AgentFollows
  BY DEF ServerIsAsShown
<1>1. Mcp!TypeOK /\ (cur # 0 => Mcp!Entry = ent[cur])
  BY DEF McpIInv, RecordsOK, Mcp!Entry
<1>2. cur = 0 => Mcp!Entry.status = "none" /\ Mcp!Entry.client = 0
  BY DEF Mcp!Entry, Mcp!NoEntry
<1>3. \A o \in Mcp!Ops : /\ Mcp!Quiet => ops[o].pc \in {"idle", "done"}
                         /\ Mcp!Quiet => ~Mutating(o)
  BY DEF Mcp!Quiet, Mcp!Live, Mutating
<1>4. Mcp!NoneLeftOpen
  <2> SUFFICES ASSUME Mcp!Quiet, mcpOdd \subseteq {"late"}, NEW c \in Mcp!Ops, clients[c] = "open"
               PROVE  Mcp!Entry.client = c
    BY DEF Mcp!NoneLeftOpen
  <2>1. ClientOK(c) /\ "lost" \notin mcpOdd
    BY DEF McpIInv, ClientsOK, Unclobbered
  <2>2. ops[c].pc = "done"
    BY <1>3, <2>1 DEF ClientOK
  <2>3. ops[c].e # 0 /\ cur = ops[c].e /\ ent[cur].client = c
    BY <2>1, <2>2 DEF ClientOK, Attempt
  <2> QED
    BY <1>1, <2>3
<1>5. \A o \in Mcp!Ops : Mcp!Quiet => ~Overruled(o) /\ ~Reports(o)
  BY <1>3 DEF Overruled, Reports
<1>6. Unclobbered /\ Mcp!Quiet /\ cur # 0 /\ ent[cur].status = "connected" => InUse(ent[cur].client)
  BY <1>5 DEF McpIInv, ConnectedOK
<1>7. Mcp!ConnectedIsOpen
  BY <1>1, <1>2, <1>6 DEF Mcp!ConnectedIsOpen, InUse, Unclobbered
<1>8. Mcp!PendingIsServed
  BY <1>1, <1>2 DEF Mcp!PendingIsServed, McpIInv, PendingOK, Connects, Serves, Mcp!Live
<1>9. Mcp!AgentFollows
  BY <1>1, <1>5, <1>6 DEF Mcp!AgentFollows, McpIInv, ToldOK, InUse, Unclobbered
<1> QED
  BY <1>1, <1>4, <1>7, <1>8, <1>9

\* Once the calls have ended no client is left open but the server's current one,
\* its status is true and the agent's tools follow it, and a pending server has
\* somebody who connects it, for any number of operations and entries
\* (McpConnectionManager, AgentMcpService).
THEOREM ServersAreAsShown == PartSpec => []ServerIsAsShown
<1>1. PartInit => McpIInv
  BY McpInitially DEF PartInit
<1>2. McpIInv /\ [PartNext]_partVars => McpIInv'
  BY McpStep DEF PartNext, partVars, mcpVars
<1> QED
  BY <1>1, <1>2, McpIInvImplies, PTL DEF PartSpec
============================================================================
