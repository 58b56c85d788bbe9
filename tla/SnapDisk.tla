------------------------------ MODULE SnapDisk ------------------------------
(***************************************************************************)
(* What the FTL promises its host: the reference disk that the crash test  *)
(* (src/crash-test.c:25-56) compares the implementation with.  Writes      *)
(* change the volatile contents; a flush makes the volatile contents the   *)
(* stable snapshot, at once; after a power failure the volatile contents   *)
(* are the last snapshot.                                                  *)
(***************************************************************************)
EXTENDS Naturals

CONSTANTS Addr, Data, Blank, MAX_WCNT

VARIABLES vlt, stb, wcnt

spec_init ==
  /\ stb = [a \in Addr |-> Blank]
  /\ vlt = stb
  /\ wcnt = 0

spec_write(a, d) ==
  /\ wcnt < MAX_WCNT
  /\ vlt' = [vlt EXCEPT ![a] = d]
  /\ wcnt' = wcnt + 1
  /\ UNCHANGED stb

spec_flush ==
  /\ stb' = vlt
  /\ wcnt' = 0
  /\ UNCHANGED vlt

spec_recovery ==
  /\ vlt' = stb
  /\ wcnt' = 0
  /\ UNCHANGED stb

spec_next ==
  \/ \E a \in Addr, d \in Data : spec_write(a, d)
  \/ spec_flush
  \/ spec_recovery

spec == spec_init /\ [][spec_next]_<<vlt, stb, wcnt>>
=============================================================================
