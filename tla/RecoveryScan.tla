---------------------------- MODULE RecoveryScan ----------------------------
(***************************************************************************)
(* How ftl_recovery reads the delta region (src/ftl.c:371-449): one pass   *)
(* over all pages finds the last committed one, a second pass applies the  *)
(* pairs before that point to l2p, one pair a step.  DeltaLog defines the  *)
(* table this computes in closed form; here the loops are shown to compute *)
(* it, for every content of the region that recovery may meet.             *)
(***************************************************************************)
EXTENDS DeltaLog

CONSTANTS
  ScanTables,     \* the tables the full checkpoint may hold
  ScanContents    \* the pages the delta region may hold

VARIABLES
  loop,     \* "find", "reset", "apply" or "done"
  blkid, pgid, idx,
  pba_committed, ipa_committed,
  l2p,      \* N_LAS + 1 entries: the last one takes the padding's updates
  delta, full    \* flash, which recovery only reads here

scanVars == <<loop, blkid, pgid, idx, pba_committed, ipa_committed, l2p, delta, full>>

\* A committed or tentative page is padded to N_DELTA_PAIR pairs; the padding's
\* la is LSA_INVALID and its pa is whatever the buffer held.
PairAt(page, i) ==
  IF i < Len(page.pairs) THEN page.pairs[i + 1] ELSE [la |-> LSA_INVALID, pa |-> 0]

NextPage(inc) ==
  LET p == pgid + inc
  IN  /\ pgid' = IF p = PAGES_PER_BLOCK THEN 0 ELSE p
      /\ blkid' = IF p = PAGES_PER_BLOCK THEN blkid + 1 ELSE blkid

find_last_committed_delta_chkpt_body ==
  /\ loop = "find"
  /\ blkid # BLOCKS_DELTA
  /\ IF delta.page[<<blkid, pgid>>].flag = FLAG_DELTA_COMMITTED
       THEN pba_committed' = blkid /\ ipa_committed' = pgid + 1
       ELSE UNCHANGED <<pba_committed, ipa_committed>>
  /\ NextPage(1)
  /\ UNCHANGED <<loop, idx, l2p, delta, full>>

reset_committed_point_when_first_delta_page_erased ==
  /\ loop = "find"
  /\ blkid = BLOCKS_DELTA
  /\ IF first_delta_page_erased(delta)
       THEN pba_committed' = 0 /\ ipa_committed' = 0
       ELSE UNCHANGED <<pba_committed, ipa_committed>>
  /\ blkid' = 0 /\ pgid' = 0 /\ idx' = 0
  /\ loop' = "apply"
  /\ UNCHANGED <<l2p, delta, full>>

BehindCommittedPoint_OffByOne ==
  blkid > pba_committed \/ (blkid = pba_committed /\ pgid > ipa_committed)

BehindCommittedPoint ==
  blkid > pba_committed \/ (blkid = pba_committed /\ pgid >= ipa_committed)

\* Never reaching the end of a page.
apply_delta_chkpt_body_OffByOne ==
  /\ loop = "apply"
  /\ blkid # BLOCKS_DELTA
  /\ LET pair == PairAt(delta.page[<<blkid, pgid>>], idx)
     IN  l2p' = IF BehindCommittedPoint THEN l2p ELSE [l2p EXCEPT ![pair.la] = pair.pa]
  /\ idx' = (idx + 1) % N_DELTA_PAIR
  /\ NextPage(IF idx = N_DELTA_PAIR THEN 1 ELSE 0)
  /\ UNCHANGED <<loop, pba_committed, ipa_committed, delta, full>>

apply_delta_chkpt_body ==
  /\ loop = "apply"
  /\ blkid # BLOCKS_DELTA
  /\ LET pair == PairAt(delta.page[<<blkid, pgid>>], idx)
     IN  l2p' = IF BehindCommittedPoint THEN l2p ELSE [l2p EXCEPT ![pair.la] = pair.pa]
  /\ idx' = (idx + 1) % N_DELTA_PAIR
  /\ NextPage(IF idx + 1 = N_DELTA_PAIR THEN 1 ELSE 0)
  /\ UNCHANGED <<loop, pba_committed, ipa_committed, delta, full>>

\* l2p[N_LAS] = N_PAS undoes what the padding did.
ScanDone ==
  /\ loop = "apply"
  /\ blkid = BLOCKS_DELTA
  /\ l2p' = [l2p EXCEPT ![N_LAS] = N_PAS]
  /\ loop' = "done"
  /\ UNCHANGED <<blkid, pgid, idx, pba_committed, ipa_committed, delta, full>>

ScanInit ==
  /\ loop = "find"
  /\ blkid = 0 /\ pgid = 0 /\ idx = 0
  /\ pba_committed = 0 /\ ipa_committed = 0
  /\ delta \in [page : [DeltaPages -> ScanContents]]
  /\ full \in ScanTables
  /\ l2p = [la \in 0 .. N_LAS |-> IF la \in LSA THEN full[la] ELSE N_PAS]

ScanNext ==
  \/ find_last_committed_delta_chkpt_body
  \/ reset_committed_point_when_first_delta_page_erased
  \/ apply_delta_chkpt_body
  \/ ScanDone

ScanSpec == ScanInit /\ [][ScanNext]_scanVars /\ WF_scanVars(ScanNext)

-----------------------------------------------------------------------------
(* Properties *)

\* The loops compute the closed form: every pair up to the last committed
\* page, in flash order, and none behind it, wherever that page is and
\* whatever lies between and behind.
ScanComputesReplay ==
  loop = "done" =>
    /\ \A la \in LSA : l2p[la] = apply_delta_chkpt(full, delta)[la]
    /\ l2p[N_LAS] = N_PAS

\* Both scans come to an end.
ScanTerminates == <>(loop = "done")
=============================================================================
