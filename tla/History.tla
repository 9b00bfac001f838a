------------------------------ MODULE History ------------------------------
(***************************************************************************)
(* Conversation history entries (human/agent/turn.ts) and what a history   *)
(* that can be sent to a model looks like.  The text of a message is       *)
(* abstracted away: a user entry carries the identities of what it         *)
(* delivers (prompts, notifications, finished background tools), an        *)
(* assistant entry its tool calls, a tool entry the call it answers.       *)
(***************************************************************************)
EXTENDS Naturals, Sequences, SequencesExt, FiniteSets

IsSequence(s) == s \in Seq(ToSet(s))

\* s.filter: s without the elements of gone, by the indices that are kept.
Without(s, gone) ==
  LET kept == {i \in DOMAIN s : s[i] \notin gone}
      Nth(k) == CHOOSE i \in kept : Cardinality({j \in kept : j <= i}) = k
  IN [k \in 1 .. Cardinality(kept) |-> s[Nth(k)]]

User(ids) == [role |-> "user", ids |-> ids]
ReminderEntry(key) == [role |-> "reminder", key |-> key]
Assistant(calls) == [role |-> "assistant", calls |-> calls]
ToolResult(call, outcome) == [role |-> "tool", call |-> call, outcome |-> outcome]

\* toolOutcomeEntry for every pending call, in the order of the calls.
ToolResults(calls, outcomes) ==
  [i \in DOMAIN calls |-> ToolResult(calls[i], outcomes[calls[i]])]

HasCalls(entry) == entry.role = "assistant" /\ entry.calls # << >>

IsHistory(s) == IsSequence(s) /\ \A i \in DOMAIN s : HasCalls(s[i]) => IsSequence(s[i].calls)

\* historyEndsMidToolChain
EndsMidToolChain(history) ==
  history # << >> /\ (Last(history).role = "tool" \/ HasCalls(Last(history)))

\* Entry i of the history answers call j of the assistant entry before it.
AnsweredAt(history, i, j) ==
  /\ i + j \in DOMAIN history
  /\ history[i + j].role = "tool"
  /\ history[i + j].call = history[i].calls[j]

\* Every tool call is followed by its result, and every tool result follows
\* its call: the pairing that model providers reject a request without.
WellPaired(history) ==
  /\ \A i \in DOMAIN history : HasCalls(history[i]) =>
        \A j \in DOMAIN history[i].calls : AnsweredAt(history, i, j)
  /\ \A k \in DOMAIN history : history[k].role = "tool" =>
        \E i \in 1 .. k - 1 : /\ HasCalls(history[i])
                              /\ k - i \in DOMAIN history[i].calls
                              /\ AnsweredAt(history, i, k - i)

\* The entries of a history that deliver x.
Deliveries(history, x) ==
  {i \in DOMAIN history : history[i].role = "user" /\ x \in history[i].ids}

Delivers(history) ==
  UNION {history[i].ids : i \in {j \in DOMAIN history : history[j].role = "user"}}
============================================================================
