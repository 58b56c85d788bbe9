------------------------------ MODULE MCChkpt ------------------------------
(* Model-checking instance of the checkpoint layer. *)
EXTENDS Chkpt
CONSTANT Psas

MCPSA == Psas \cup {N_PAS}
\* After a crash an unsynced delta page is blank or holds a page that looks
\* committed and remaps sector 0; an unsynced table maps every sector wrongly.
MCAnyPage ==
  {ErasedPage} \cup [flag : {FLAG_DELTA_COMMITTED, FLAG_DELTA_TENTATIVE},
                     pairs : {<<[la |-> 0, pa |-> -2]>>}]
MCAnyTable == {[la \in LSA |-> -2]}
=============================================================================
