----------------------------- MODULE MCBaseFtl -----------------------------
(* Model-checking instance of BaseFtl: a write changes what a sector holds, *)
(* and at most RESTARTS restarts.  No operation looks at a sector's data,   *)
(* which makes the values of DATA symmetric.                                *)
EXTENDS BaseFtl, TLC

CONSTANT RESTARTS
VARIABLE restarts

DataSymmetry == Permutations(DATA)

MCNext ==
  \/ /\ \/ \E lsa \in LSA, d \in DATA : View[lsa] # d /\ disk_write(lsa, d)
        \/ \E d \in DATA : disk_write(N_LAS, d)
        \/ disk_flush
     /\ UNCHANGED restarts
  \/ Restart /\ restarts < RESTARTS /\ restarts' = restarts + 1

MCInit == BaseInit /\ restarts = 0

MCSpec == MCInit /\ [][MCNext]_<<ftl, sync, restarts>>
=============================================================================
