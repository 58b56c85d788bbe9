------------------------------ MODULE MCSnapLog ------------------------------
(* Model-checking instance of SnapLog: a write changes what a block holds. *)
EXTENDS SnapLog

\* The blocks are interchangeable.
MCSymmetry == Permutations(BLOCK)

MCNext ==
  \/ begin_op \/ end_op \/ write_log \/ CommitEnd \/ fuse_fsync \/ Restart
  \/ \E s \in BLOCK : Read(s) \/ \E v \in CONTENT \ {View[s]} : log_write(s, v)

MCSpec == LogInit /\ [][MCNext]_logVars
=============================================================================
