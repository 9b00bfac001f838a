-------------------------- MODULE MCToolExecutor --------------------------
(* Small instance of ToolExecutor: tools that read, write or leave a file   *)
(* alone.                                                                  *)
EXTENDS ToolExecutor

CONSTANT file

FileAccess(op) == [kind |-> "file", operation |-> op, path |-> <<file>>, recursive |-> FALSE]

MCDeclarations == { {}, {FileAccess("read")}, {FileAccess("write")} }
===========================================================================
