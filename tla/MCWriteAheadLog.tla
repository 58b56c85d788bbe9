--------------------------- MODULE MCWriteAheadLog ---------------------------
(* Model-checking instance of WriteAheadLog: a write changes what a block  *)
(* holds.                                                                  *)
EXTENDS WriteAheadLog

\* The blocks are interchangeable.
MCSymmetry == Permutations(BLOCK)

MCNext ==
  \/ begin_op \/ end_op \/ write_log \/ CommitHead \/ CommitSync \/ install_trans
  \/ ClearHead \/ ClearSync \/ Crash \/ read_head
  \/ \E s \in BLOCK : Read(s) \/ \E v \in CONTENT \ {View[s]} : log_write(s, v)

MCSpec == WalInit /\ [][MCNext]_walVars
=============================================================================
