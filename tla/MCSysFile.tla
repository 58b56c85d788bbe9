------------------------------ MODULE MCSysFile ------------------------------
(***************************************************************************)
(* Instances of SysFile for TLC: the names n1 and n2, in the root and,     *)
(* where NESTED, n2 below n1; writes of given offsets and lengths.  At     *)
(* most CALLS calls change the tree (TreeCall, and NameCall where NESTED). *)
(***************************************************************************)
EXTENDS SysFile

CONSTANTS
  n1, n2,            \* names
  NESTED,            \* whether the path n1/n2 is used
  OFFSETS, LENGTHS,  \* of writes
  CALLS

VARIABLE calls

MCPaths  == {<<n1>>, <<n2>>} \cup (IF NESTED THEN {<<n1, n2>>} ELSE {})
MCWrites == OFFSETS \X LENGTHS

MCInit == FsInit /\ calls = 0

Counted == calls < CALLS /\ calls' = calls + 1

MCNext ==
  \/ (Step \/ FileCall) /\ UNCHANGED calls
  \/ TreeCall /\ Counted
  \/ NameCall /\ IF NESTED THEN Counted ELSE UNCHANGED calls

MCSpec == MCInit /\ [][MCNext]_<<fsVars, calls>>
=============================================================================
