----------------------------- MODULE MCToolCalls -----------------------------
(***************************************************************************)
(* Two mechanisms on the way of a tool call that share no state: the       *)
(* scheduler that orders the calls of a batch, and the bridge that makes a *)
(* response one batch.  A behaviour belongs to one of them, `part`; the    *)
(* other stays in its initial state.                                       *)
(***************************************************************************)
EXTENDS ToolScheduler, MachineTools

CONSTANTS dir, file, c1, c2, c3, c4

VARIABLE part

----------------------------------------------------------------------------
\* A root directory, a directory in it and a file in that, accessed exactly and
\* recursively.
All == [kind |-> "all"]
FileAccess(op, path, recursive) ==
  [kind |-> "file", operation |-> op, path |-> path, recursive |-> recursive]

\* none(), all(), a read, a write and a readwrite of the file, a tree search
\* and a tool that reads one place and writes another.
MCDeclarations ==
  { {}, {All},
    {FileAccess("read", <<dir, file>>, FALSE)},
    {FileAccess("write", <<dir, file>>, FALSE)},
    {FileAccess("search", <<dir>>, TRUE)},
    {FileAccess("readwrite", <<dir>>, FALSE), FileAccess("read", <<file>>, FALSE)} }

\* Four tool calls, the tool of one of which is registered late.
MCCalls == {c1, c2, c3, c4}
MCKnown == {c1, c2, c3}

----------------------------------------------------------------------------
partVars == <<part, schedulerVars, vars>>

PartInit ==
  /\ part \in {"scheduler", "bridge"}
  /\ SchedulerInit /\ Init

PartNext ==
  \/ part = "scheduler" /\ SchedulerNext /\ UNCHANGED <<part, vars>>
  \/ part = "bridge" /\ Next /\ UNCHANGED <<part, schedulerVars>>

\* In their initial states neither part has a fair action to take.
PartSpec == PartInit /\ [][PartNext]_partVars /\ SchedulerFairness /\ Fairness
==============================================================================
