--------------------------- MODULE MCRecoveryScan ---------------------------
(* Model-checking instance of the recovery scan: a page is blank, committed *)
(* or tentative, with one pair for sector 0 or two pairs.                   *)
EXTENDS RecoveryScan

MCTables == {[la \in LSA |-> N_PAS]}
MCPairs  == {<<[la |-> 0, pa |-> 1]>>, <<[la |-> 1, pa |-> 2], [la |-> 0, pa |-> 3]>>}
MCContents ==
  {ErasedPage} \cup [flag : {FLAG_DELTA_COMMITTED, FLAG_DELTA_TENTATIVE}, pairs : MCPairs]
=============================================================================
