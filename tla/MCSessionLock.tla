---------------------------- MODULE MCSessionLock ----------------------------
(* Three processes, which are interchangeable.                             *)
EXTENDS SessionLock, TLC

ProcessSymmetry == Permutations(Processes)
==============================================================================
