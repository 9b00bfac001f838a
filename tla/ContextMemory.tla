---------------------------- MODULE ContextMemory ----------------------------
(***************************************************************************)
(* The context memory of an agent: the messages the next model request is  *)
(* made of, and the fold that turns the records of a step (step.begin,     *)
(* content.part, tool.call, tool.result, step.end) into messages.  Every   *)
(* message has one token, a step has at most one tool call, and a message  *)
(* is replaced by another object exactly when one of its fields changes,   *)
(* so that equality of records stands for identity of objects.             *)
(***************************************************************************)
EXTENDS Naturals, Sequences, SequencesExt

CONSTANTS
    KeepBudget,   \* COMPACT_USER_MESSAGE_MAX_TOKENS, in messages
    HeadBudget    \* COMPACT_USER_MESSAGE_HEAD_TOKENS, in messages

ASSUME BudgetAssumption == KeepBudget \in Nat /\ HeadBudget \in Nat

(* parts is a subset of {"text", "call", "sealed"}; covers is the set of   *)
(* items a compaction summary speaks about.                                *)
Message(kind, n) == [kind |-> kind, n |-> n, parts |-> {}, covers |-> {}]

EmptyContext == [msgs |-> <<>>, open |-> 0, pending |-> {}, deferred |-> <<>>]

-----------------------------------------------------------------------------
(* The fold of the step records.                                           *)

Push(c, m) == [c EXCEPT !.msgs = Append(@, m)]

FlushDeferred(c) ==
    IF c.pending # {} THEN c
    ELSE [c EXCEPT !.msgs = @ \o c.deferred, !.deferred = <<>>]

ClosePending(c) ==
    IF c.pending = {} THEN c
    ELSE LET answered == [c EXCEPT !.msgs = @ \o SetToSeq({Message("tool", n) : n \in c.pending}),
                                   !.pending = {}]
         IN  FlushDeferred(answered)

IsOpen(c, m) == m.kind = "asst" /\ m.n = c.open /\ "sealed" \notin m.parts

UpdateOpen(c, part) ==
    [c EXCEPT !.msgs = [i \in DOMAIN @ |->
        IF IsOpen(c, @[i]) THEN [@[i] EXCEPT !.parts = @ \cup {part}] ELSE @[i]]]

SettleOpen(c) ==
    IF c.open = 0 THEN c
    ELSE LET closed == ClosePending(c)
             vacuous(m) == IsOpen(closed, m) /\ m.parts = {}
             kept == [closed EXCEPT !.msgs = SelectSeq(@, LAMBDA m : ~vacuous(m))]
         IN  [UpdateOpen(kept, "sealed") EXCEPT !.open = 0]

AppendMessage(c, m) ==
    IF c.pending # {} THEN [c EXCEPT !.deferred = Append(@, m)] ELSE Push(c, m)

StepBegin(c, n) == [Push(SettleOpen(c), Message("asst", n)) EXCEPT !.open = n]

ContentPart(c, n) == IF c.open = n THEN UpdateOpen(c, "text") ELSE c

ToolCall(c, n) ==
    IF c.open = n THEN [UpdateOpen(c, "call") EXCEPT !.pending = @ \cup {n}] ELSE c

ToolResult(c, n) ==
    IF n \in c.pending
    THEN FlushDeferred(Push([c EXCEPT !.pending = @ \ {n}], Message("tool", n)))
    ELSE c

StepEnd(c, reason) ==
    IF reason \in {"interrupted", "error"} THEN c ELSE FlushDeferred(SettleOpen(c))

-----------------------------------------------------------------------------
(* Compaction and undo.                                                    *)

IsRealUserInput(m) == m.kind = "user"

(* The oldest and the newest user messages that fit the budget.            *)
SelectCompactionUserMessages(users) ==
    LET head == IF HeadBudget < KeepBudget THEN HeadBudget ELSE KeepBudget
        tail == KeepBudget - head
    IN  IF Len(users) <= KeepBudget THEN users
        ELSE SubSeq(users, 1, head)
             \o <<Message("note", 0)>>
             \o SubSeq(users, Len(users) - tail + 1, Len(users))

(* The messages after a compaction: the selected user messages, the        *)
(* summary and the note that asks to continue; the fold starts anew.       *)
ApplyCompaction(c, covers) ==
    [EmptyContext EXCEPT !.msgs =
        SelectCompactionUserMessages(SelectSeq(c.msgs, IsRealUserInput))
        \o <<[Message("summary", 0) EXCEPT !.covers = covers], Message("note", 0)>>]

\* Mutant: whatever was appended meanwhile is taken to be user input.
SafeWhenPrefix(current, original) == IsPrefix(original, current)

HistorySafeToCompact(current, original) ==
    /\ IsPrefix(original, current)
    /\ \A i \in Len(original) + 1 .. Len(current) : IsRealUserInput(current[i])

(* The user message an undo of one turn cuts at, 0 when a compaction or    *)
(* nothing is in the way of it.                                            *)
ComputeUndoCut(msgs) ==
    LET anchors == {i \in DOMAIN msgs : msgs[i].kind \in {"user", "summary"}}
        latest  == {i \in anchors : \A j \in anchors : j <= i}
    IN  IF \E i \in latest : msgs[i].kind = "user"
        THEN CHOOSE i \in latest : TRUE
        ELSE 0

DropLeadingToolResults(msgs) ==
    LET firsts == {i \in DOMAIN msgs : /\ msgs[i].kind # "tool"
                                       /\ \A j \in 1 .. i - 1 : msgs[j].kind = "tool"}
    IN  IF firsts = {} THEN <<>> ELSE SubSeq(msgs, CHOOSE i \in firsts : TRUE, Len(msgs))

TakeRecentMessagesWithinTokenBudget(msgs, budget) ==
    LET keep == IF budget >= Len(msgs) THEN Len(msgs) - 1 ELSE budget
    IN  DropLeadingToolResults(SubSeq(msgs, Len(msgs) - keep + 1, Len(msgs)))

-----------------------------------------------------------------------------
(* The items a context still knows of: by a message of its own, by one     *)
(* that waits for a tool result, or by a summary.                          *)
Speaks(m) == IF m.kind = "asst" THEN "text" \in m.parts ELSE m.kind # "summary"

ItemsOf(msgs) ==
    {<<m.kind, m.n>> : m \in {m \in ToSet(msgs) : Speaks(m)}}
    \cup UNION {m.covers : m \in ToSet(msgs)}

Known(c) == ItemsOf(c.msgs) \cup ItemsOf(c.deferred)
=============================================================================
