----------------------------- MODULE ToolBatch -----------------------------
(***************************************************************************)
(* What a batch of tool calls promises to whoever iterates over it: each   *)
(* call yields at most one result, in any order; the iteration ends when   *)
(* every call has yielded its result, or it throws.                        *)
(***************************************************************************)
CONSTANT Calls       \* the calls of the batch

VARIABLES yielded,   \* calls whose result was handed to the consumer
          ended      \* "no", "done" or "failed"

batchVars == <<yielded, ended>>

Init ==
  /\ yielded = {}
  /\ ended = "no"

Yield(c) ==
  /\ ended = "no" /\ c \in Calls \ yielded
  /\ yielded' = yielded \cup {c}
  /\ UNCHANGED ended

Finish ==
  /\ ended = "no" /\ yielded = Calls
  /\ ended' = "done"
  /\ UNCHANGED yielded

Fail ==
  /\ ended = "no"
  /\ ended' = "failed"
  /\ UNCHANGED yielded

Next == (\E c \in Calls : Yield(c)) \/ Finish \/ Fail

Spec == Init /\ [][Next]_batchVars
============================================================================
