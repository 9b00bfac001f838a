------------------------------ MODULE MCMiniDb ------------------------------
(***************************************************************************)
(* Instances of MiniDb: operations on two keys, numbered as they are named *)
(* in the cfg files and started in any order.                              *)
(***************************************************************************)
EXTENDS MiniDb

\* 1, 2: set k1;  3: batch over both keys;  4: del k1.
MCKeysOf == [o \in Ops |-> CASE o \in {1, 2, 4} -> {"k1"} [] OTHER -> {"k1", "k2"}]
MCDeletes == Ops \cap {4}
=============================================================================
