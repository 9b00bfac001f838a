---------------------------- MODULE AsyncEmitter ----------------------------
(***************************************************************************)
(* Emitter and AsyncEmitter (_base/event.ts).  fireAsync queues one        *)
(* delivery per listener and then works on the queue, one delivery after   *)
(* the other, until the queue is empty or its signal is aborted; the queue *)
(* belongs to the emitter and is shared by all calls.  fireAsyncConcurrent *)
(* makes its deliveries at once.                                           *)
(*                                                                         *)
(* A call runs without interruption up to an await, so queueing and the    *)
(* first delivery are one step, and so are the end of a delivery and the   *)
(* beginning of the next one.                                              *)
(***************************************************************************)
EXTENDS Naturals, Sequences, SequencesExt

CONSTANTS QueuedFires,      \* calls of fireAsync
          ConcurrentFires,  \* calls of fireAsyncConcurrent
          Listeners

Fires == QueuedFires \cup ConcurrentFires

VARIABLES listeners,    \* _listeners, in the order of subscription
          subscribed,   \* every listener entry there ever was
          disposed,     \* _disposed
          queue,        \* _asyncDeliveryQueue
          fire,         \* state of each call
          aborted,      \* calls whose signal is aborted
          busy,         \* busy[f]: the deliveries call f is waiting for
          fired,        \* the calls in the order in which they were made
          heard,        \* heard[f]: who was subscribed when f was called
          started,      \* the deliveries in the order in which they started
          overlapped    \* calls that were under way together with another

callVars == <<fire, aborted, busy>>
historyVars == <<fired, heard, started, overlapped>>
vars == <<listeners, subscribed, disposed, queue, callVars, historyVars>>

Delivery(f, l) == [event |-> f, to |-> l]
Deliveries == {Delivery(f, l) : f \in Fires, l \in Listeners}
FiredBefore(f, g) == \E m, n \in DOMAIN fired : m < n /\ fired[m] = f /\ fired[n] = g
UnderWay == {f \in Fires : fire[f] \in {"queue", "concurrent"}}

Init ==
  /\ listeners = << >> /\ subscribed = {} /\ disposed = FALSE /\ queue = << >>
  /\ fire = [f \in Fires |-> "new"]
  /\ aborted = {}
  /\ busy = [f \in Fires |-> {}]
  /\ fired = << >> /\ started = << >> /\ overlapped = {}
  /\ heard = [f \in Fires |-> {}]

TypeOK ==
  /\ listeners \in Seq(subscribed) /\ IsInjective(listeners)
  /\ queue \in Seq(Deliveries)
  /\ fire \in [Fires -> {"new", "queue", "concurrent", "returned"}]
  /\ \A f \in Fires : busy[f] \subseteq Deliveries /\ (busy[f] # {} <=> f \in UnderWay)
  /\ disposed => listeners = << >>

----------------------------------------------------------------------------
Subscribe(l) ==
  /\ ~disposed /\ l \notin subscribed
  /\ listeners' = Append(listeners, l)
  /\ subscribed' = subscribed \cup {l}
  /\ UNCHANGED <<disposed, queue, callVars, historyVars>>

Unsubscribe(l) ==
  /\ \E i \in DOMAIN listeners : listeners[i] = l /\ listeners' = RemoveAt(listeners, i)
  /\ UNCHANGED <<subscribed, disposed, queue, callVars, historyVars>>

Dispose ==
  /\ ~disposed
  /\ disposed' = TRUE /\ listeners' = << >>
  /\ UNCHANGED <<subscribed, queue, callVars, historyVars>>

Abort(f) ==
  /\ f \notin aborted /\ fire[f] # "returned"
  /\ aborted' = aborted \cup {f}
  /\ UNCHANGED <<listeners, subscribed, disposed, queue, fire, busy, historyVars>>

\* Mutant: the loop stops when it comes to a delivery of another event.
LoopEndsEarly(f, q) == q = << >> \/ f \in aborted \/ Head(q).event # f

LoopEnds(f, q) == q = << >> \/ f \in aborted

\* One round of the loop of fireAsync, up to its await.
Loop(f, q) ==
  IF LoopEnds(f, q)
  THEN /\ queue' = q
       /\ fire' = [fire EXCEPT ![f] = "returned"]
       /\ busy' = [busy EXCEPT ![f] = {}]
       /\ UNCHANGED started
  ELSE /\ queue' = Tail(q)
       /\ fire' = [fire EXCEPT ![f] = "queue"]
       /\ busy' = [busy EXCEPT ![f] = {Head(q)}]
       /\ started' = Append(started, Head(q))

Called(f) ==
  /\ fire[f] = "new"
  /\ fired' = Append(fired, f)
  /\ heard' = [heard EXCEPT ![f] = ToSet(listeners)]
  /\ overlapped' = IF UnderWay = {} THEN overlapped ELSE overlapped \cup UnderWay \cup {f}
  /\ UNCHANGED <<listeners, subscribed, disposed, aborted>>

OwnDeliveries(f) == [i \in DOMAIN listeners |-> Delivery(f, listeners[i])]

\* `_listeners` is undefined until the first subscription and after disposal;
\* an emitter without listeners behaves alike.
FireAsync(f) ==
  /\ Called(f)
  /\ IF disposed
     THEN fire' = [fire EXCEPT ![f] = "returned"] /\ UNCHANGED <<queue, busy, started>>
     ELSE Loop(f, queue \o OwnDeliveries(f))

\* The promises that the listener passed to waitUntil have settled, or the
\* listener threw.
Delivered(f) ==
  /\ fire[f] = "queue"
  /\ Loop(f, queue)
  /\ UNCHANGED <<listeners, subscribed, disposed, aborted, fired, heard, overlapped>>

FireAsyncConcurrent(f) ==
  /\ Called(f)
  /\ IF disposed \/ f \in aborted \/ listeners = << >>
     THEN fire' = [fire EXCEPT ![f] = "returned"] /\ UNCHANGED <<busy, started>>
     ELSE /\ fire' = [fire EXCEPT ![f] = "concurrent"]
          /\ busy' = [busy EXCEPT ![f] = ToSet(OwnDeliveries(f))]
          /\ started' = started \o OwnDeliveries(f)
  /\ UNCHANGED queue

DeliveredConcurrently(f, d) ==
  /\ fire[f] = "concurrent" /\ d \in busy[f]
  /\ busy' = [busy EXCEPT ![f] = @ \ {d}]
  /\ fire' = [fire EXCEPT ![f] = IF busy[f] = {d} THEN "returned" ELSE @]
  /\ UNCHANGED <<listeners, subscribed, disposed, queue, aborted, historyVars>>

Next ==
  \/ \E l \in Listeners : Subscribe(l)
  \/ \E l \in Listeners : Unsubscribe(l)
  \/ Dispose
  \/ \E f \in Fires : Abort(f)
  \/ \E f \in QueuedFires : FireAsync(f)
  \/ \E f \in Fires : Delivered(f)
  \/ \E f \in ConcurrentFires : FireAsyncConcurrent(f)
  \/ \E f \in Fires : \E d \in busy[f] : DeliveredConcurrently(f, d)

Spec == Init /\ [][Next]_vars

----------------------------------------------------------------------------
(* Properties.                                                             *)

\* A listener is called at most once per event, and for queued events in the
\* order in which they were fired, whichever call makes the delivery.
DeliveredInOrder ==
  /\ IsInjective(started)
  /\ \A i, j \in DOMAIN started :
       LET f == started[i].event
           g == started[j].event
       IN i < j /\ started[i].to = started[j].to /\ f # g /\ {f, g} \subseteq QueuedFires
            => FiredBefore(f, g)

\* A call resolves after every listener has dealt with its event, unless it
\* was aborted or, for fireAsync, another call overlapped with it.
ResolvesAfterItsListeners ==
  \A f \in Fires :
    fire[f] = "returned" /\ f \notin aborted \cup (overlapped \cap QueuedFires) =>
      \A l \in heard[f] :
        /\ Contains(started, Delivery(f, l))
        /\ \A g \in Fires : Delivery(f, l) \notin busy[g]
=============================================================================
