------------------------- MODULE MachineToolsProofs -------------------------
(***************************************************************************)
(* The bridge makes a response one batch, for any set of calls, any set of *)
(* tools and any order in which actors arrive, batches end and turns are   *)
(* aborted.  Whether a call finds the batch of its siblings running is     *)
(* decided by what became of the others, so the invariant ties the four    *)
(* places in which a call can be (its actor, `pending`, a batch and its    *)
(* outcome) to each other.                                                 *)
(***************************************************************************)
EXTENDS MachineTools, TLAPS

\* A call that waits, runs or has an outcome was executed by its actor; an
\* actor prepares only while the turn acts on the response of its call.
CallsHaveActors ==
  /\ \A c \in started \cup pending : c \in Calls /\ actor[c] = "executing"
  /\ \A c \in Calls : outcome[c] # "none" => actor[c] = "executing"
  /\ \A c \in Calls : actor[c] = "preparing" => phase = "acting" /\ c \in response

\* While the turn acts on its response no actor has gone, and an expected call
\* that was executed waits or has been started.
ActingIsBatching ==
  phase = "acting" =>
    /\ batching /\ expected \subseteq registered
    /\ \A c \in response : actor[c] \in {"preparing", "executing"}
    /\ \A c \in expected : actor[c] = "executing" => c \in pending \cup started

\* Of an undisturbed response all expected calls have started, or no call has.
AllOrNoneStarted ==
  phase = "acting" /\ ~disturbed /\ started \cap response # {} => expected \subseteq started

FlagHasBatch == batchInFlight => batches # {}
NothingWaitsForLlm == phase = "requesting" => pending = {}

BridgeIInv ==
  /\ ResponseIsOneBatch
  /\ CallsHaveActors /\ ActingIsBatching /\ AllOrNoneStarted
  /\ FlagHasBatch /\ NothingWaitsForLlm

----------------------------------------------------------------------------
\* Nothing waits, runs or is known about a call before the first request.
LEMMA BridgeInit ==
  ASSUME Known \subseteq Calls, Init
  PROVE  BridgeIInv
<1>1. batching \in BOOLEAN /\ batchInFlight \in BOOLEAN /\ disturbed \in BOOLEAN
  BY Zenon DEF Init
<1>2. ~batchInFlight
  BY Zenon DEF Init
<1>3. TypeOK
  BY <1>1 DEF Init, TypeOK, Outcomes, Settled
<1>4. ResponseIsOneBatch
  BY <1>3 DEF Init, ResponseIsOneBatch, ResponseRunsAsOneBatch, PendingCallsAwaitSiblings,
              AbortedCallsNeverRan
<1>5. CallsHaveActors /\ ActingIsBatching /\ AllOrNoneStarted /\ NothingWaitsForLlm
  BY DEF Init, CallsHaveActors, ActingIsBatching, AllOrNoneStarted, NothingWaitsForLlm
<1> QED
  BY <1>2, <1>4, <1>5 DEF BridgeIInv, FlagHasBatch

\* A tool that appears, and a materialization of the tools, touch no call.
LEMMA ToolSteps ==
  ASSUME BridgeIInv, (\E c \in Calls : Register(c)) \/ Sync
  PROVE  BridgeIInv'
<1>1. TypeOK'
  BY DEF BridgeIInv, ResponseIsOneBatch, TypeOK, Register, Sync, agentVars, batchVars, Settled
<1>2. (ResponseRunsAsOneBatch /\ PendingCallsAwaitSiblings /\ AbortedCallsNeverRan)'
  BY DEF BridgeIInv, ResponseIsOneBatch, Register, Sync, agentVars, batchVars,
         ResponseRunsAsOneBatch, PendingCallsAwaitSiblings, AbortedCallsNeverRan
<1>3. (CallsHaveActors /\ ActingIsBatching /\ AllOrNoneStarted /\ NothingWaitsForLlm)'
  BY DEF BridgeIInv, Register, Sync, agentVars, batchVars,
         CallsHaveActors, ActingIsBatching, AllOrNoneStarted, NothingWaitsForLlm
<1>4. FlagHasBatch'
  BY DEF BridgeIInv, Register, Sync, batchVars, FlagHasBatch
<1> QED
  BY <1>1, <1>2, <1>3, <1>4 DEF BridgeIInv, ResponseIsOneBatch

\* beginBatch() at llm.sent settles only calls that never ran.
LEMMA LlmSentStep ==
  ASSUME BridgeIInv, LlmSent
  PROVE  BridgeIInv'
<1> USE DEF LlmSent, batchVars
<1>1. \A c \in Calls : outcome'[c] = IF c \in pending THEN "aborted" ELSE outcome[c]
  BY DEF Settle
<1>2. TypeOK'
  <2>1. outcome' \in [Calls -> Outcomes]
    BY DEF BridgeIInv, ResponseIsOneBatch, TypeOK, Settle, Outcomes
  <2>2. batching' \in BOOLEAN /\ batchInFlight' \in BOOLEAN /\ disturbed' \in BOOLEAN
    BY Zenon DEF BridgeIInv, ResponseIsOneBatch, TypeOK
  <2> QED
    BY <2>1, <2>2 DEF BridgeIInv, ResponseIsOneBatch, TypeOK
<1>3. (ResponseRunsAsOneBatch /\ PendingCallsAwaitSiblings)'
  BY DEF ResponseRunsAsOneBatch, PendingCallsAwaitSiblings
<1>4. AbortedCallsNeverRan'
  BY <1>1 DEF BridgeIInv, ResponseIsOneBatch, TypeOK, AbortedCallsNeverRan, CallsHaveActors
<1>5. CallsHaveActors'
  BY <1>1 DEF BridgeIInv, CallsHaveActors
<1>6. (ActingIsBatching /\ AllOrNoneStarted /\ NothingWaitsForLlm)'
  BY DEF ActingIsBatching, AllOrNoneStarted, NothingWaitsForLlm
<1>7. FlagHasBatch'
  BY DEF BridgeIInv, FlagHasBatch
<1> QED
  BY <1>2, <1>3, <1>4, <1>5, <1>6, <1>7 DEF BridgeIInv, ResponseIsOneBatch

\* beginBatch(toolCalls) at llm.done: the calls are new, so none of them is in
\* a batch, and nothing waits that could be flushed.
LEMMA LlmDoneStep ==
  ASSUME BridgeIInv, NEW cs \in SUBSET Calls, LlmDone(cs)
  PROVE  BridgeIInv'
<1>1. /\ phase = "requesting" /\ cs # {} /\ \A c \in cs : actor[c] = "none"
      /\ phase' = "acting" /\ response' = cs
      /\ actor' = [c \in Calls |-> IF c \in cs THEN "preparing" ELSE actor[c]]
      /\ definitions' = registered /\ expected' = cs \cap registered
      /\ registered' = registered /\ outcome' = outcome
  BY DEF LlmDone
<1>2. batching' = TRUE /\ disturbed' = disturbed
  BY Zenon DEF LlmDone
<1>3. pending = {}
  BY <1>1 DEF BridgeIInv, NothingWaitsForLlm
<1>4. ~Ready(cs \cap registered, pending)
  BY <1>3 DEF Ready
<1>5. pending' = {} /\ UNCHANGED batchVars
  BY <1>3, <1>4 DEF LlmDone, FlushIfReady
<1>6. \A c \in started : c \in Calls /\ c \notin cs /\ actor[c] = "executing"
  BY <1>1 DEF BridgeIInv, CallsHaveActors
<1>7. TypeOK'
  <2>1. batching' \in BOOLEAN /\ batchInFlight' \in BOOLEAN /\ disturbed' \in BOOLEAN
    BY <1>2, <1>5, Zenon DEF BridgeIInv, ResponseIsOneBatch, TypeOK, batchVars
  <2> QED
    BY <1>1, <1>5, <2>1 DEF BridgeIInv, ResponseIsOneBatch, TypeOK, batchVars, Settled
<1>8. ResponseRunsAsOneBatch'
  BY <1>1, <1>5, <1>6 DEF BridgeIInv, ResponseIsOneBatch, TypeOK, batchVars, ResponseRunsAsOneBatch
<1>9. (PendingCallsAwaitSiblings /\ AbortedCallsNeverRan)'
  BY <1>1, <1>5 DEF BridgeIInv, ResponseIsOneBatch, batchVars, PendingCallsAwaitSiblings,
                    AbortedCallsNeverRan
<1>10. CallsHaveActors'
  BY <1>1, <1>5, <1>6 DEF BridgeIInv, ResponseIsOneBatch, TypeOK, batchVars, CallsHaveActors
<1>11. ActingIsBatching'
  BY <1>1, <1>2, <1>5 DEF ActingIsBatching
<1>12. (AllOrNoneStarted /\ NothingWaitsForLlm)'
  BY <1>1, <1>5, <1>6 DEF batchVars, AllOrNoneStarted, NothingWaitsForLlm
<1>13. FlagHasBatch'
  BY <1>5 DEF BridgeIInv, FlagHasBatch, batchVars
<1> QED
  BY <1>7, <1>8, <1>9, <1>10, <1>11, <1>12, <1>13 DEF BridgeIInv, ResponseIsOneBatch

\* The end of a turn: an abort settles what waits, and takes the actors that
\* prepare; a turn that is given up or answered leaves the calls alone.
LEMMA EndingSteps ==
  ASSUME BridgeIInv, Abort \/ GiveUp \/ Answered
  PROVE  BridgeIInv'
<1>1. CASE Abort
  <2>1. /\ pending' = {} \/ pending' = pending
        /\ \A c \in Calls : \/ outcome'[c] = outcome[c]
                            \/ c \in pending /\ pending' = {} /\ outcome'[c] = "aborted"
        /\ outcome' \in [Calls -> Outcomes]
    BY <1>1 DEF Abort, AbortSettles, Settle, BridgeIInv, ResponseIsOneBatch, TypeOK, Outcomes
  <2>2. /\ phase = "acting" /\ phase' = "aborting"
        /\ \A c \in Calls : actor'[c] = IF c \in response /\ actor[c] = "preparing" THEN "gone"
                                        ELSE actor[c]
        /\ actor' \in [Calls -> {"none", "preparing", "executing", "gone"}]
        /\ UNCHANGED <<response, registered, definitions, expected, batches, started>>
    BY <1>1 DEF Abort, Aborting, batchVars, BridgeIInv, ResponseIsOneBatch, TypeOK
  <2>3. UNCHANGED <<batching, batchInFlight, disturbed>>
    BY <1>1, Zenon DEF Abort, Aborting, batchVars
  <2>4. TypeOK'
    BY <2>1, <2>2, <2>3 DEF BridgeIInv, ResponseIsOneBatch, TypeOK, Settled
  <2>5. (ResponseRunsAsOneBatch /\ PendingCallsAwaitSiblings)'
    BY <2>2, <2>3 DEF BridgeIInv, ResponseIsOneBatch, ResponseRunsAsOneBatch, PendingCallsAwaitSiblings
  <2>6. AbortedCallsNeverRan'
    BY <2>1, <2>2 DEF BridgeIInv, ResponseIsOneBatch, TypeOK, AbortedCallsNeverRan, CallsHaveActors
  <2>7. CallsHaveActors'
    BY <2>1, <2>2 DEF BridgeIInv, CallsHaveActors
  <2>8. (ActingIsBatching /\ AllOrNoneStarted /\ NothingWaitsForLlm)'
    BY <2>2 DEF ActingIsBatching, AllOrNoneStarted, NothingWaitsForLlm
  <2>9. FlagHasBatch'
    BY <2>2, <2>3 DEF BridgeIInv, FlagHasBatch
  <2> QED
    BY <2>4, <2>5, <2>6, <2>7, <2>8, <2>9 DEF BridgeIInv, ResponseIsOneBatch
<1>2. CASE GiveUp \/ Answered
  <2>1. /\ phase' = "idle"
        /\ UNCHANGED <<response, actor, registered, definitions, expected, pending, batches,
                       started, outcome>>
    BY <1>2 DEF GiveUp, Answered, batchVars
  <2>2. UNCHANGED <<batching, batchInFlight, disturbed>>
    BY <1>2, Zenon DEF GiveUp, Answered, batchVars
  <2>3. TypeOK'
    BY <2>1, <2>2 DEF BridgeIInv, ResponseIsOneBatch, TypeOK, Settled
  <2>4. (ResponseRunsAsOneBatch /\ PendingCallsAwaitSiblings /\ AbortedCallsNeverRan)'
    BY <2>1, <2>2 DEF BridgeIInv, ResponseIsOneBatch, ResponseRunsAsOneBatch,
                      PendingCallsAwaitSiblings, AbortedCallsNeverRan
  <2>5. CallsHaveActors'
    <3>1. \A c \in Calls : actor[c] # "preparing"
      BY <1>2 DEF GiveUp, Answered, Settled, BridgeIInv, CallsHaveActors
    <3> QED
      BY <2>1, <3>1 DEF BridgeIInv, CallsHaveActors
  <2>6. (ActingIsBatching /\ AllOrNoneStarted /\ NothingWaitsForLlm)'
    BY <2>1 DEF ActingIsBatching, AllOrNoneStarted, NothingWaitsForLlm
  <2>7. FlagHasBatch'
    BY <2>1, <2>2 DEF BridgeIInv, FlagHasBatch
  <2> QED
    BY <2>3, <2>4, <2>5, <2>6, <2>7 DEF BridgeIInv, ResponseIsOneBatch
<1> QED
  BY <1>1, <1>2

\* A call of an unknown tool is answered at once and is never expected.
LEMMA ExecuteUnknownStep ==
  ASSUME BridgeIInv, NEW c \in Calls, ExecuteUnknown(c)
  PROVE  BridgeIInv'
<1>1. /\ actor[c] = "preparing" /\ c \notin registered
      /\ actor' = [actor EXCEPT ![c] = "executing"]
      /\ definitions' = registered
      /\ UNCHANGED <<phase, response, registered, expected, pending, batches, started>>
  BY DEF ExecuteUnknown, batchVars
<1>2. UNCHANGED <<batching, batchInFlight, disturbed>>
  BY Zenon DEF ExecuteUnknown, batchVars
<1>3. /\ outcome' \in [Calls -> Outcomes]
      /\ \A d \in Calls : outcome'[d] = IF d = c THEN "unknown" ELSE outcome[d]
  BY DEF ExecuteUnknown, Settle, BridgeIInv, ResponseIsOneBatch, TypeOK, Outcomes
<1>4. c \notin started \cup pending /\ c \notin expected
  BY <1>1 DEF BridgeIInv, CallsHaveActors, ActingIsBatching
<1>5. TypeOK'
  <2>1. pending' \cap Settled' = {}
    BY <1>1, <1>3, <1>4 DEF BridgeIInv, ResponseIsOneBatch, TypeOK, Settled
  <2>2. actor' \in [Calls -> {"none", "preparing", "executing", "gone"}]
    BY <1>1 DEF BridgeIInv, ResponseIsOneBatch, TypeOK
  <2> QED
    BY <1>1, <1>2, <1>3, <2>1, <2>2 DEF BridgeIInv, ResponseIsOneBatch, TypeOK
<1>6. ResponseRunsAsOneBatch'
  BY <1>1, <1>2 DEF BridgeIInv, ResponseIsOneBatch, ResponseRunsAsOneBatch
<1>7. PendingCallsAwaitSiblings'
  BY <1>1, <1>2, <1>4 DEF BridgeIInv, ResponseIsOneBatch, TypeOK, PendingCallsAwaitSiblings
<1>8. AbortedCallsNeverRan'
  BY <1>1, <1>3, <1>4 DEF BridgeIInv, ResponseIsOneBatch, AbortedCallsNeverRan, CallsHaveActors
<1>9. CallsHaveActors'
  BY <1>1, <1>3 DEF BridgeIInv, ResponseIsOneBatch, TypeOK, CallsHaveActors
<1>10. ActingIsBatching'
  BY <1>1, <1>2, <1>4 DEF BridgeIInv, ResponseIsOneBatch, TypeOK, ActingIsBatching
<1>11. (AllOrNoneStarted /\ NothingWaitsForLlm)'
  BY <1>1, <1>2 DEF BridgeIInv, AllOrNoneStarted, NothingWaitsForLlm
<1>12. FlagHasBatch'
  BY <1>1, <1>2 DEF BridgeIInv, FlagHasBatch
<1> QED
  BY <1>5, <1>6, <1>7, <1>8, <1>9, <1>10, <1>11, <1>12 DEF BridgeIInv, ResponseIsOneBatch

\* What an arriving call does to the bridge: it starts a batch of its own, it
\* completes the batch of its response, or it waits.
LEMMA ExecuteStep ==
  ASSUME BridgeIInv, NEW c \in Calls, Execute(c)
  PROVE  BridgeIInv'
<1>1. /\ actor[c] = "preparing" /\ c \in registered
      /\ actor' = [actor EXCEPT ![c] = "executing"]
      /\ definitions' = registered
      /\ UNCHANGED <<phase, response, registered, expected, outcome>>
  BY DEF Execute
<1>2. UNCHANGED batching
  BY Zenon DEF Execute
<1>3. /\ disturbed' \in BOOLEAN
      /\ ~disturbed' => ~disturbed /\ \A b \in batches : b \cap response # {}
  BY Zenon DEF Execute
<1>4. phase = "acting" /\ c \in response /\ outcome[c] = "none" /\ c \notin started \cup pending
  BY <1>1 DEF BridgeIInv, ResponseIsOneBatch, TypeOK, CallsHaveActors
<1>5. batching = TRUE
  BY <1>4 DEF BridgeIInv, ResponseIsOneBatch, TypeOK, ActingIsBatching
\* The facts that hold however the call is placed.
<1>6. /\ actor' \in [Calls -> {"none", "preparing", "executing", "gone"}]
      /\ \A d \in Calls : actor'[d] = IF d = c THEN "executing" ELSE actor[d]
  BY <1>1 DEF BridgeIInv, ResponseIsOneBatch, TypeOK
<1>7. CASE batchInFlight
  <2>1. /\ batches' = batches \cup {{c}} /\ started' = started \cup {c} /\ pending' = pending
        /\ batchInFlight' = TRUE
    BY <1>5, <1>7 DEF Execute, StartBatch
  <2>2. batchInFlight' \in BOOLEAN
    BY <2>1, Zenon
  <2>3. ~disturbed' => expected \subseteq started
    <3>1. PICK b \in batches : TRUE
      BY <1>7 DEF BridgeIInv, FlagHasBatch
    <3>2. ~disturbed' => b \cap response # {} /\ b \subseteq started
      BY <1>3, <3>1 DEF BridgeIInv, ResponseIsOneBatch, TypeOK
    <3> QED
      BY <1>3, <1>4, <3>2 DEF BridgeIInv, AllOrNoneStarted
  <2>4. TypeOK'
    <3>1. \A b \in batches : b \cap {c} = {}
      BY <1>4 DEF BridgeIInv, ResponseIsOneBatch, TypeOK
    <3>2. pending' \cap Settled' = {} /\ pending' \cap started' = {}
      BY <1>1, <1>4, <2>1 DEF BridgeIInv, ResponseIsOneBatch, TypeOK, Settled
    <3>3. batches' \subseteq SUBSET started' /\ {} \notin batches'
      BY <2>1 DEF BridgeIInv, ResponseIsOneBatch, TypeOK
    <3>4. \A a, b \in batches' : a = b \/ a \cap b = {}
      BY <2>1, <3>1 DEF BridgeIInv, ResponseIsOneBatch, TypeOK
    <3> QED
      BY <1>1, <1>2, <1>3, <1>6, <2>2, <3>2, <3>3, <3>4
      DEF BridgeIInv, ResponseIsOneBatch, TypeOK
  <2>5. ResponseRunsAsOneBatch'
    BY <1>1, <1>3, <1>4, <2>1, <2>3 DEF BridgeIInv, ResponseIsOneBatch, ResponseRunsAsOneBatch
  <2>6. PendingCallsAwaitSiblings'
    BY <1>1, <2>1, <2>3 DEF BridgeIInv, ResponseIsOneBatch, TypeOK, PendingCallsAwaitSiblings
  <2>7. AbortedCallsNeverRan'
    BY <1>1, <1>4, <2>1 DEF BridgeIInv, ResponseIsOneBatch, AbortedCallsNeverRan
  <2>8. CallsHaveActors'
    BY <1>1, <1>6, <2>1 DEF BridgeIInv, CallsHaveActors
  <2>9. ActingIsBatching'
    BY <1>1, <1>2, <1>6, <2>1 DEF BridgeIInv, ResponseIsOneBatch, TypeOK, ActingIsBatching
  <2>10. (AllOrNoneStarted /\ NothingWaitsForLlm)'
    BY <1>1, <1>4, <2>1, <2>3 DEF AllOrNoneStarted, NothingWaitsForLlm
  <2>11. FlagHasBatch'
    BY <2>1 DEF FlagHasBatch
  <2> QED
    BY <2>4, <2>5, <2>6, <2>7, <2>8, <2>9, <2>10, <2>11 DEF BridgeIInv, ResponseIsOneBatch
<1>8. CASE ~batchInFlight /\ Ready(expected, pending \cup {c})
  <2>1. /\ expected \subseteq pending \cup {c} /\ expected # {}
        /\ pending' = (pending \cup {c}) \ expected
        /\ batches' = batches \cup {expected} /\ started' = started \cup expected
    <3>1. expected \subseteq pending \cup {c} /\ expected # {}
      BY <1>8 DEF Ready
    <3>2. expected \cap (pending \cup {c}) = expected
      BY <3>1
    <3> QED
      BY <1>5, <1>8, <3>1, <3>2 DEF Execute, FlushIfReady, StartBatch
  <2>2. batchInFlight' \in BOOLEAN
    BY <1>5, <1>8, Zenon DEF Execute, FlushIfReady, StartBatch
  <2>3. TypeOK'
    <3>1. \A b \in batches : b \cap expected = {}
      BY <1>4, <2>1 DEF BridgeIInv, ResponseIsOneBatch, TypeOK
    <3>2. \A d \in pending \cup {c} : d \notin started /\ d \notin Settled
      BY <1>4 DEF BridgeIInv, ResponseIsOneBatch, TypeOK, Settled
    <3> QED
      BY <1>1, <1>2, <1>3, <1>6, <2>1, <2>2, <3>1, <3>2
      DEF BridgeIInv, ResponseIsOneBatch, TypeOK, Settled
  <2>4. ResponseRunsAsOneBatch'
    BY <1>1, <1>3, <2>1 DEF BridgeIInv, ResponseIsOneBatch, ResponseRunsAsOneBatch
  <2>5. PendingCallsAwaitSiblings'
    BY <1>1, <2>1 DEF PendingCallsAwaitSiblings
  <2>6. AbortedCallsNeverRan'
    BY <1>1, <1>4, <2>1 DEF BridgeIInv, ResponseIsOneBatch, TypeOK, Settled, CallsHaveActors,
                            AbortedCallsNeverRan
  <2>7. CallsHaveActors'
    BY <1>1, <1>6, <2>1 DEF BridgeIInv, ResponseIsOneBatch, TypeOK, CallsHaveActors
  <2>8. ActingIsBatching'
    BY <1>1, <1>2, <1>6, <2>1 DEF BridgeIInv, ResponseIsOneBatch, TypeOK, ActingIsBatching
  <2>9. (AllOrNoneStarted /\ NothingWaitsForLlm)'
    BY <1>1, <1>4, <2>1 DEF AllOrNoneStarted, NothingWaitsForLlm
  <2>10. FlagHasBatch'
    BY <2>1 DEF FlagHasBatch
  <2> QED
    BY <2>3, <2>4, <2>5, <2>6, <2>7, <2>8, <2>9, <2>10 DEF BridgeIInv, ResponseIsOneBatch
<1>9. CASE ~batchInFlight /\ ~Ready(expected, pending \cup {c})
  <2>1. pending' = pending \cup {c} /\ batches' = batches /\ started' = started
    BY <1>5, <1>9 DEF Execute, FlushIfReady, batchVars
  <2>2. UNCHANGED batchInFlight
    BY <1>5, <1>9, Zenon DEF Execute, FlushIfReady, batchVars
  <2>3. TypeOK'
    BY <1>1, <1>2, <1>3, <1>4, <1>6, <2>1, <2>2 DEF BridgeIInv, ResponseIsOneBatch, TypeOK, Settled
  <2>4. PendingCallsAwaitSiblings'
    <3> SUFFICES ASSUME ~disturbed', pending' \cap expected # {}
                 PROVE  \E d \in expected : actor'[d] = "preparing"
      BY <1>1 DEF PendingCallsAwaitSiblings
    <3>1. PICK d \in expected : d \notin pending \cup {c}
      BY <1>9 DEF Ready
    <3>2. ~(expected \subseteq started)
      BY <1>4, <2>1 DEF BridgeIInv, ResponseIsOneBatch, TypeOK
    <3>3. started \cap response = {}
      BY <1>3, <1>4, <3>2 DEF BridgeIInv, AllOrNoneStarted
    <3>4. actor[d] # "executing"
      BY <1>4, <3>1, <3>3 DEF BridgeIInv, ResponseIsOneBatch, TypeOK, ActingIsBatching
    <3>5. actor[d] = "preparing" /\ d \in Calls
      BY <1>4, <3>1, <3>4 DEF BridgeIInv, ResponseIsOneBatch, TypeOK, ActingIsBatching
    <3> QED
      BY <1>6, <3>1, <3>5
  <2>5. (ResponseRunsAsOneBatch /\ AbortedCallsNeverRan)'
    BY <1>1, <1>3, <2>1 DEF BridgeIInv, ResponseIsOneBatch, ResponseRunsAsOneBatch,
                            AbortedCallsNeverRan
  <2>6. CallsHaveActors'
    BY <1>1, <1>6, <2>1 DEF BridgeIInv, CallsHaveActors
  <2>7. ActingIsBatching'
    BY <1>1, <1>2, <1>6, <2>1 DEF BridgeIInv, ResponseIsOneBatch, TypeOK, ActingIsBatching
  <2>8. (AllOrNoneStarted /\ NothingWaitsForLlm)'
    BY <1>1, <1>3, <1>4, <2>1 DEF BridgeIInv, AllOrNoneStarted, NothingWaitsForLlm
  <2>9. FlagHasBatch'
    BY <2>1, <2>2 DEF BridgeIInv, FlagHasBatch
  <2> QED
    BY <2>3, <2>4, <2>5, <2>6, <2>7, <2>8, <2>9 DEF BridgeIInv, ResponseIsOneBatch
<1> QED
  BY <1>7, <1>8, <1>9

\* The executor's results and the end of its stream settle calls of a batch,
\* which neither wait nor are aborted.
LEMMA BatchSteps ==
  ASSUME BridgeIInv, NEW b \in batches,
         (\E c \in b : Yield(b, c)) \/ (\E fails \in BOOLEAN : BatchEnds(b, fails))
  PROVE  BridgeIInv'
<1>1. /\ \A c \in Calls : outcome'[c] = outcome[c] \/ (c \in b /\ outcome'[c] \in {"result", "failed"})
      /\ outcome' \in [Calls -> Outcomes]
  BY DEF Yield, BatchEnds, Settle, SettleRemaining, BridgeIInv, ResponseIsOneBatch, TypeOK, Outcomes
<1>2. /\ batches' \subseteq batches
      /\ UNCHANGED <<agentVars, definitions, expected, pending, started>>
  BY DEF Yield, BatchEnds, batchVars
<1>3. UNCHANGED <<batching, disturbed>> /\ batchInFlight' \in BOOLEAN
  BY Zenon DEF Yield, BatchEnds, batchVars, BridgeIInv, ResponseIsOneBatch, TypeOK
<1>4. b \subseteq started
  BY DEF BridgeIInv, ResponseIsOneBatch, TypeOK
<1>5. TypeOK'
  BY <1>1, <1>2, <1>3, <1>4 DEF BridgeIInv, ResponseIsOneBatch, TypeOK, Settled, agentVars
<1>6. (ResponseRunsAsOneBatch /\ PendingCallsAwaitSiblings)'
  BY <1>2, <1>3 DEF BridgeIInv, ResponseIsOneBatch, ResponseRunsAsOneBatch,
                    PendingCallsAwaitSiblings, agentVars
<1>7. AbortedCallsNeverRan'
  BY <1>1, <1>2 DEF BridgeIInv, ResponseIsOneBatch, AbortedCallsNeverRan, CallsHaveActors
<1>8. CallsHaveActors'
  BY <1>1, <1>2, <1>4 DEF BridgeIInv, CallsHaveActors, agentVars
<1>9. (ActingIsBatching /\ AllOrNoneStarted /\ NothingWaitsForLlm)'
  BY <1>2, <1>3 DEF BridgeIInv, ActingIsBatching, AllOrNoneStarted, NothingWaitsForLlm, agentVars
<1>10. FlagHasBatch'
  <2>1. CASE \E c \in b : Yield(b, c)
    BY <2>1, Zenon DEF Yield, batchVars, BridgeIInv, FlagHasBatch
  <2>2. CASE \E fails \in BOOLEAN : BatchEnds(b, fails)
    BY <2>2, Zenon DEF BatchEnds, FlagHasBatch
  <2> QED
    BY <2>1, <2>2
<1> QED
  BY <1>5, <1>6, <1>7, <1>8, <1>9, <1>10 DEF BridgeIInv, ResponseIsOneBatch

\* Every step of the bridge and of its users preserves the invariant.
LEMMA BridgeStep ==
  ASSUME BridgeIInv, [Next]_vars
  PROVE  BridgeIInv'
<1>1. CASE Next
  BY <1>1, ToolSteps, LlmSentStep, LlmDoneStep, EndingSteps, ExecuteUnknownStep, ExecuteStep,
     BatchSteps DEF Next
<1>2. CASE UNCHANGED vars
  <2>1. UNCHANGED <<agentVars, definitions, expected, pending, batches, started, outcome>>
    BY <1>2 DEF vars, batchVars
  <2>2. UNCHANGED <<batching, batchInFlight, disturbed>>
    BY <1>2, Zenon DEF vars, batchVars
  <2> QED
    BY <2>1, <2>2 DEF agentVars, BridgeIInv, ResponseIsOneBatch, TypeOK, Settled,
       ResponseRunsAsOneBatch, PendingCallsAwaitSiblings, AbortedCallsNeverRan, CallsHaveActors,
       ActingIsBatching, AllOrNoneStarted, FlagHasBatch, NothingWaitsForLlm
<1> QED
  BY <1>1, <1>2

\* createMachineTools: the expected calls of a response run as one batch unless
\* an earlier batch is in the way, an expected call waits only for siblings
\* that have yet to arrive, and a call answered as aborted never ran.
THEOREM BridgeMakesOneBatch ==
  ASSUME Known \subseteq Calls
  PROVE  Spec => []ResponseIsOneBatch
<1>1. Init => BridgeIInv
  BY BridgeInit
<1>2. BridgeIInv /\ [Next]_vars => BridgeIInv'
  BY BridgeStep
<1>3. BridgeIInv => ResponseIsOneBatch
  BY DEF BridgeIInv
<1> QED
  BY <1>1, <1>2, <1>3, PTL DEF Spec
=============================================================================
