------------------------- MODULE ChkptReplaceProofs -------------------------
(***************************************************************************)
(* Replacing the full checkpoint, in ftl_flush and in ftl_recovery,        *)
(* preserves ChkptInv and the table that recovery would rebuild.           *)
(***************************************************************************)
EXTENDS ChkptFlushProofs

-----------------------------------------------------------------------------
(* Replacing the full checkpoint.  Until the old one is deleted both replay *)
(* to l2p; the log is erased when only the new one is left.                 *)

\* Outside Logging three conjuncts of ChkptInv say nothing.
LEMMA NotLogging ==
  ASSUME ~ Logging', pc' # "delta"
  PROVE  LogGrows' /\ LogHoldsL2P' /\ LogIsBounded'
BY DEF LogGrows, LogHoldsL2P, LogIsBounded

Replacing == {"delother", "fullsync", "fullcommit", "delfull", "deldelta", "deltasync", "first"}

\* A full checkpoint is replaced only after a commit or in recovery.
LEMMA ReplacingHoldsStable ==
  ASSUME ChkptInv, pc \in Replacing
  PROVE  /\ ~ Logging /\ op \in {"flush", "recovery"}
         /\ l2p = StableL2P /\ l2p \in Table
         /\ delta_buf = << >>
         /\ AfterCommit \/ op = "recovery"
BY DEF ChkptInv, Replacing, PcMatchesOp, Logging, Recovering, AfterCommit, StableIsUnique,
       DeltaIsDurable

\* After flash_sync the new full checkpoint is durable, before it is committed.
LEMMA FullSyncInv ==
  ASSUME ChkptInv, FullSync
  PROVE  ChkptInv' /\ StableL2P' = StableL2P
<1> USE DEF ChkptInv
<1>1. /\ pc = "fullsync" /\ pc' = "fullcommit"
      /\ delta' = flash_sync(delta) /\ full' = flash_sync(full)
      /\ UNCHANGED <<op, wcnt, gcprog, l2p, delta_buf, pending, pba_delta, ipa_delta, ptr_full, commit>>
  BY DEF FullSync, ramVars
<1>2. /\ ~ Logging /\ op \in {"flush", "recovery"} /\ delta_buf = << >>
      /\ l2p = StableL2P
  BY <1>1, ReplacingHoldsStable DEF Replacing
<1>3. ~ Logging' /\ (AfterCommit' \/ op' = "recovery")
  BY <1>1, <1>2 DEF Logging, Recovering, AfterCommit
<1>4. ChkptTypeOK' /\ PcMatchesOp'
  BY <1>1, SyncKeeps DEF ChkptTypeOK, PcMatchesOp, PCs, Ops
<1>5. LogGrows' /\ LogHoldsL2P' /\ LogIsBounded'
  BY SMTT(30), <1>1, <1>3, NotLogging
<1>6. FullCheckpoints'
  BY <1>1, SyncKeeps DEF FullCheckpoints, ChkptTypeOK
<1>7. DeltaIsDurable'
  BY <1>1, <1>2, SyncKeeps, FirstPage DEF DeltaIsDurable
<1>8. StableIsUnique'
  BY <1>1, <1>2, SyncKeeps DEF StableIsUnique
<1> QED
  BY <1>1, <1>4, <1>5, <1>6, <1>7, <1>8, SyncKeeps

\* The new full checkpoint holds what the old one and the log replay to;
\* replaying the same log over it again changes nothing.
LEMMA FullCommitInv ==
  ASSUME ChkptInv, FullCommit
  PROVE  ChkptInv' /\ StableL2P' = StableL2P
<1> USE DEF ChkptInv
<1>1. /\ pc = "fullcommit" /\ pc' = "delfull"
      /\ commit' = [commit EXCEPT ![ptr_full] = TRUE]
      /\ ptr_full' = (ptr_full + 1) % 2
      /\ UNCHANGED <<op, wcnt, gcprog, l2p, delta_buf, pending, pba_delta, ipa_delta, delta, full>>
  BY DEF FullCommit, toggle_full_chkpt
<1>2. /\ ~ Logging /\ op \in {"flush", "recovery"} /\ delta_buf = << >>
      /\ l2p = StableL2P /\ l2p \in Table
  BY SMTT(30), <1>1, ReplacingHoldsStable DEF Replacing
<1>3. /\ ptr_full \in {0, 1} /\ ptr_full' = 1 - ptr_full
      /\ commit' \in [{0, 1} -> BOOLEAN] /\ commit'[ptr_full] /\ commit'[1 - ptr_full]
      /\ commit[1 - ptr_full]
      /\ full.page[ptr_full] = l2p /\ full.synced[ptr_full] /\ full.synced[1 - ptr_full]
  BY <1>1 DEF ChkptTypeOK, FullCheckpoints, CommittedFullIsDurable
<1>4. ~ Logging'
  BY <1>1, <1>2 DEF Logging, Recovering, AfterCommit
<1>5. ChkptTypeOK' /\ PcMatchesOp'
  <2>1. ptr_full' \in {0, 1}
    BY <1>3
  <2> QED
    BY <1>1, <1>2, <1>3, <2>1 DEF ChkptTypeOK, PcMatchesOp, PCs, Ops
<1>6. LogGrows' /\ LogHoldsL2P' /\ LogIsBounded'
  BY <1>1, <1>4, NotLogging
<1>7. FullCheckpoints' /\ CommittedFullIsDurable'
  BY <1>1, <1>3 DEF FullCheckpoints, CommittedFullIsDurable
<1>8. DeltaIsDurable' /\ ReplaysOnlyWrittenPages'
  BY <1>1, <1>2 DEF DeltaIsDurable, ReplaysOnlyWrittenPages
<1>9. apply_delta_chkpt(l2p, delta) = l2p
  <2>1. apply_delta_chkpt(full.page[1 - ptr_full], delta) = l2p
    BY <1>2, <1>3 DEF StableIsUnique
  <2> QED
    BY <2>1, ReplayTwice DEF apply_delta_chkpt
<1>10. StableL2P' = StableL2P /\ StableIsUnique'
  <2>1. \A i \in {0, 1} : apply_delta_chkpt(full'.page[i], delta') = l2p
    <3>1. \A i \in {0, 1} : i = ptr_full \/ i = 1 - ptr_full
      BY <1>3
    <3> QED
      BY <1>1, <1>2, <1>3, <1>9, <3>1 DEF StableIsUnique
  <2> QED
    BY <1>1, <1>2, <1>3, <2>1, StableNext
<1> QED
  BY <1>5, <1>6, <1>7, <1>8, <1>10

\* Deleting the old full checkpoint leaves the new one, which replays the same.
LEMMA DeleteFullInv ==
  ASSUME ChkptInv, delete_full_chkpt
  PROVE  ChkptInv' /\ StableL2P' = StableL2P
<1> USE DEF ChkptInv
<1> DEFINE c == 1 - ptr_full
<1>1. /\ pc = "delfull" /\ pc' = "deldelta"
      /\ commit' = [commit EXCEPT ![ptr_full] = FALSE]
      /\ full' = flash_erase(full, {ptr_full}, ErasedTable, FALSE)
      /\ UNCHANGED <<op, wcnt, gcprog, l2p, delta_buf, pending, pba_delta, ipa_delta, ptr_full, delta>>
  BY DEF delete_full_chkpt, ramVars, DeleteFull, flash_erase_bulk
<1>2. /\ ~ Logging /\ op \in {"flush", "recovery"} /\ delta_buf = << >>
      /\ l2p = StableL2P /\ l2p \in Table
  BY <1>1, ReplacingHoldsStable DEF Replacing
<1>3. /\ ptr_full \in {0, 1} /\ c \in {0, 1} /\ c # ptr_full
      /\ \A i \in {0, 1} : i = c \/ i = ptr_full
      /\ commit[c] /\ full.page[c] = l2p /\ full \in FullRegion
  BY <1>1 DEF ChkptTypeOK, FullCheckpoints
<1> HIDE DEF c
<1>4. commit' \in [{0, 1} -> BOOLEAN] /\ commit'[c] /\ ~ commit'[ptr_full]
  BY <1>1, <1>3 DEF ChkptTypeOK
<1>5. /\ full' \in FullRegion
      /\ full'.page[c] = full.page[c] /\ full'.synced[c] = full.synced[c]
  <2> DEFINE D == {0, 1}
             C == [LSA -> Int]
  <2>1. FullRegion = [page : [D -> C], synced : [D -> BOOLEAN]]
    BY DEF FullRegion
  <2>2. ErasedTable \in C /\ c \in D
    BY <1>3 DEF ErasedTable
  <2> HIDE DEF D, C
  <2>3. DOMAIN full.page = D /\ DOMAIN full.synced = D
    BY <1>3, <2>1
  <2>4. /\ full' = [page |-> full'.page, synced |-> full'.synced]
        /\ full'.page = [a \in D |-> IF a \in {ptr_full} THEN ErasedTable ELSE full.page[a]]
        /\ full'.synced = [a \in D |-> IF a \in {ptr_full} THEN FALSE ELSE full.synced[a]]
    BY <1>1, <2>3 DEF flash_erase
  <2>5. full'.page \in [D -> C]
    BY <1>3, <2>1, <2>2, <2>4
  <2>6. full'.synced \in [D -> BOOLEAN]
    <3>1. full.synced \in [D -> BOOLEAN]
      BY <1>3, <2>1
    <3> QED
      BY <2>4, <3>1, BooleanUpdate
  <2>7. full' \in FullRegion
    BY <2>1, <2>4, <2>5, <2>6
  <2> QED
    BY <1>3, <2>2, <2>4, <2>7
<1>6. ~ Logging'
  BY <1>1, <1>2 DEF Logging, Recovering, AfterCommit
<1>7. ChkptTypeOK' /\ PcMatchesOp'
  BY ZenonT(30), <1>1, <1>2, <1>4, <1>5 DEF ChkptTypeOK, PcMatchesOp, PCs, Ops
<1>8. LogGrows' /\ LogHoldsL2P' /\ LogIsBounded'
  BY <1>1, <1>6, NotLogging
<1>9. FullCheckpoints' /\ CommittedFullIsDurable'
  <2>1. commit'[1 - ptr_full'] /\ ~ commit'[ptr_full'] /\ full'.page[1 - ptr_full'] = l2p'
    BY ZenonT(30), <1>1, <1>3, <1>4, <1>5 DEF c
  <2> QED
    BY ZenonT(30), <1>1, <1>3, <1>4, <1>5, <2>1 DEF FullCheckpoints, CommittedFullIsDurable
<1>10. DeltaIsDurable' /\ ReplaysOnlyWrittenPages'
  BY <1>1, <1>2 DEF DeltaIsDurable, ReplaysOnlyWrittenPages
<1>11. StableL2P' = StableL2P /\ StableIsUnique'
  <2>1. \A i \in {0, 1} : commit'[i] => apply_delta_chkpt(full'.page[i], delta') = l2p
    BY <1>1, <1>2, <1>3, <1>4, <1>5 DEF StableIsUnique
  <2>2. commit'[0] \/ commit'[1]
    BY <1>3, <1>4
  <2> QED
    BY <1>1, <1>2, <2>1, <2>2, StableNext
<1> QED
  BY <1>7, <1>8, <1>9, <1>10, <1>11

\* An erased page is a delta page.
LEMMA ErasedPageType == ErasedPage \in DeltaPage
BY DEF ErasedPage, DeltaPage, Flags

\* Once the first block is erased, nothing of the log is replayed, whatever a
\* crash leaves of the other blocks; the new full checkpoint stands alone.
LEMMA EraseDeltaInv ==
  ASSUME ChkptInv, EraseDelta
  PROVE  ChkptInv' /\ StableL2P' = StableL2P
<1> USE DEF ChkptInv
<1> DEFINE c == 1 - ptr_full
<1>1. /\ pc = "deldelta" /\ pc' = "deltasync"
      /\ delta' = flash_erase_bulk(flash_erase(delta, BlockPages(0), ErasedPage, TRUE),
                                   BulkPages(1, BLOCKS_DELTA - 1), ErasedPage)
      /\ UNCHANGED <<op, wcnt, gcprog, l2p, delta_buf, pending, pba_delta, ipa_delta, ptr_full>>
      /\ UNCHANGED <<full, commit>>
  BY DEF EraseDelta, ramVars
<1>2. /\ ~ Logging /\ op \in {"flush", "recovery"} /\ delta_buf = << >>
      /\ l2p = StableL2P /\ l2p \in Table
  BY SMTT(30), <1>1, ReplacingHoldsStable DEF Replacing
<1>3. /\ ptr_full \in {0, 1} /\ \A i \in {0, 1} : i = c \/ i = ptr_full
      /\ commit[c] /\ ~ commit[ptr_full] /\ full.page[c] = l2p /\ c \in {0, 1}
  BY <1>1 DEF ChkptTypeOK, FullCheckpoints
<1>4. /\ delta' \in DeltaRegion
      /\ \A a \in DeltaPages : delta'.page[a] = ErasedPage
      /\ delta'.synced[<<0, 0>>]
  <2> DEFINE A0 == BlockPages(0)
             A1 == BulkPages(1, BLOCKS_DELTA - 1)
  <2>1. /\ \A a \in DeltaPages : a \in A0 \/ a \in A1
        /\ <<0, 0>> \in A0 /\ <<0, 0>> \notin A1
    BY SizesArePositive DEF DeltaPages, Pages, BlockPages, BulkPages
  <2>2. /\ delta.page \in [DeltaPages -> DeltaPage] /\ delta.synced \in [DeltaPages -> BOOLEAN]
        /\ DOMAIN delta.page = DeltaPages /\ DOMAIN delta.synced = DeltaPages
    BY SMTT(30) DEF ChkptTypeOK, DeltaRegion
  <2> HIDE DEF A0, A1
  <2>3. /\ delta' = [page |-> delta'.page, synced |-> delta'.synced]
        /\ delta'.page = [a \in DeltaPages |-> IF a \in A1 THEN ErasedPage
                                               ELSE IF a \in A0 THEN ErasedPage ELSE delta.page[a]]
        /\ delta'.synced = [a \in DeltaPages |-> IF a \in A1 THEN FALSE
                                                 ELSE IF a \in A0 THEN TRUE ELSE delta.synced[a]]
    BY <1>1, <2>2 DEF flash_erase, flash_erase_bulk, A0, A1
  <2>4. delta'.page \in [DeltaPages -> DeltaPage]
    BY <2>2, <2>3, ErasedPageType
  <2>5. delta'.synced \in [DeltaPages -> BOOLEAN]
    <3>1. \A a \in DeltaPages : (IF a \in A1 THEN FALSE
                                 ELSE IF a \in A0 THEN TRUE ELSE delta.synced[a]) \in BOOLEAN
      BY <2>2
    <3> QED
      BY <2>3, <3>1
  <2>6. delta' \in DeltaRegion
    BY <2>3, <2>4, <2>5 DEF DeltaRegion
  <2>7. \A a \in DeltaPages : delta'.page[a] = ErasedPage
    BY <2>1, <2>3
  <2>8. delta'.synced[<<0, 0>>]
    BY <2>1, <2>3, FirstPage
  <2> QED
    BY <2>6, <2>7, <2>8
<1>5. first_delta_page_erased(delta')
  BY <1>4, FirstPage
     DEF first_delta_page_erased, ErasedPage, FLAG_DELTA_COMMITTED, FLAG_DELTA_TENTATIVE, FLAG_NEITHER
<1>6. ~ Logging'
  BY <1>1, <1>2 DEF Logging, Recovering, AfterCommit
<1>7. ChkptTypeOK' /\ PcMatchesOp'
  BY ZenonT(30), <1>1, <1>2, <1>4 DEF ChkptTypeOK, PcMatchesOp, PCs, Ops
<1>8. LogGrows' /\ LogHoldsL2P' /\ LogIsBounded'
  BY <1>1, <1>6, NotLogging
<1>9. FullCheckpoints' /\ CommittedFullIsDurable'
  BY <1>1, <1>3 DEF FullCheckpoints, CommittedFullIsDurable
<1>10. DeltaIsDurable' /\ ReplaysOnlyWrittenPages'
  BY <1>1, <1>2, <1>4, <1>5 DEF DeltaIsDurable, ReplaysOnlyWrittenPages, CommittedPages
<1>11. StableL2P' = StableL2P /\ StableIsUnique'
  <2>1. apply_delta_chkpt(l2p, delta') = l2p
    BY <1>2, <1>5, ApplyErased DEF Table
  <2>2. \A i \in {0, 1} : commit'[i] => apply_delta_chkpt(full'.page[i], delta') = l2p
    BY ZenonT(30), <1>1, <1>3, <2>1
  <2>3. commit'[0] \/ commit'[1]
    BY <1>1, <1>3
  <2> QED
    BY ZenonT(30), <1>1, <1>2, <2>2, <2>3, StableNext
<1> QED
  BY <1>7, <1>8, <1>9, <1>10, <1>11

\* After flash_sync the whole delta region is blank and durable.
LEMMA DeltaSyncInv ==
  ASSUME ChkptInv, DeltaSync
  PROVE  ChkptInv' /\ StableL2P' = StableL2P
<1> USE DEF ChkptInv
<1>1. /\ pc = "deltasync" /\ pc' = "first"
      /\ delta' = flash_sync(delta) /\ full' = flash_sync(full)
      /\ UNCHANGED <<op, wcnt, gcprog, l2p, delta_buf, pending, pba_delta, ipa_delta, ptr_full, commit>>
  BY DEF DeltaSync, ramVars
<1>2. /\ ~ Logging /\ op \in {"flush", "recovery"} /\ delta_buf = << >>
      /\ l2p = StableL2P
  BY <1>1, ReplacingHoldsStable DEF Replacing
<1>3. ~ Logging'
  BY SMTT(30), <1>1, <1>2 DEF Logging, Recovering, AfterCommit
<1>4. ChkptTypeOK' /\ PcMatchesOp'
  BY <1>1, SyncKeeps DEF ChkptTypeOK, PcMatchesOp, PCs, Ops
<1>5. LogGrows' /\ LogHoldsL2P' /\ LogIsBounded'
  BY SMTT(30), <1>1, <1>3, NotLogging
<1>6. FullCheckpoints'
  BY SMTT(30), <1>1, SyncKeeps DEF FullCheckpoints
<1>7. DeltaIsDurable'
  BY SMTT(30), <1>1, <1>2, SyncKeeps, FirstPage DEF DeltaIsDurable
<1>8. StableIsUnique'
  BY <1>1, <1>2, SyncKeeps DEF StableIsUnique
<1> QED
  BY <1>1, <1>4, <1>5, <1>6, <1>7, <1>8, SyncKeeps

\* The empty committed page restarts the log.
LEMMA FirstDeltaInv ==
  ASSUME ChkptInv, FirstDelta
  PROVE  ChkptInv' /\ StableL2P' = StableL2P /\ l2p' = StableL2P
<1> USE DEF ChkptInv
<1> DEFINE c == 1 - ptr_full
           w == <<0, 0>>
           first == [flag |-> FLAG_DELTA_COMMITTED, pairs |-> << >>]
<1>1. /\ pc = "first" /\ pc' = "idle" /\ op' = "none" /\ wcnt' = 0 /\ gcprog' = 0
      /\ pba_delta' = 0 /\ ipa_delta' = 1
      /\ UNCHANGED <<l2p, delta_buf, pending, ptr_full, full, commit>>
  BY DEF FirstDelta, Finish
<1>2. /\ op \in {"flush", "recovery"} /\ delta_buf = << >>
      /\ l2p = StableL2P /\ l2p \in Table
  BY <1>1, ReplacingHoldsStable DEF Replacing
<1>3. /\ ptr_full \in {0, 1} /\ \A i \in {0, 1} : i = c \/ i = ptr_full
      /\ commit[c] /\ ~ commit[ptr_full] /\ full.page[c] = l2p /\ c \in {0, 1}
  BY <1>1 DEF ChkptTypeOK, FullCheckpoints
<1>4. /\ delta' \in DeltaRegion
      /\ delta'.page[w] = first
      /\ \A a \in DeltaPages \ {w} : delta'.page[a] = ErasedPage
      /\ \A a \in DeltaPages : delta'.synced[a]
  <2>1. first \in DeltaPage
    BY DEF DeltaPage, Flags
  <2>2. delta' = flash_program(delta, w, first, TRUE)
    BY SMTT(30), <1>2 DEF FirstDelta
  <2>3. /\ delta \in DeltaRegion
        /\ \A a \in DeltaPages : delta.page[a] = ErasedPage /\ delta.synced[a]
    BY <1>1 DEF ChkptTypeOK, DeltaIsDurable
  <2>4. w \in DeltaPages
    BY FirstPage
  <2> HIDE DEF first, w
  <2> QED
    BY <2>1, <2>2, <2>3, <2>4 DEF flash_program, DeltaRegion
<1>5. \A a \in DeltaPages : delta'.page[a].pairs = << >>
  BY <1>4 DEF ErasedPage
<1>6. ASSUME NEW a \in DeltaPages
      PROVE  Written(a)' <=> a = w
  <2>1. PICK b \in 0 .. BLOCKS_DELTA - 1, p \in 0 .. PAGES_PER_BLOCK - 1 : a = <<b, p>>
    BY DEF DeltaPages, Pages
  <2> QED
    BY <1>1, <2>1 DEF Written
<1>7. ChkptTypeOK' /\ PcMatchesOp'
  <2>1. /\ 0 \in 0 .. MAX_WCNT /\ 0 \in 0 .. MAX_GCPROG /\ 1 \in 0 .. PAGES_PER_BLOCK
    BY SMTT(30), SizesArePositive
  <2> QED
    BY <1>1, <1>4, <2>1 DEF ChkptTypeOK, PcMatchesOp, PCs, Ops
<1>8. LogGrows'
  <2>1. \A a \in DeltaPages : IF Written(a)' THEN delta'.page[a].flag # FLAG_NEITHER
                                           ELSE delta'.page[a] = ErasedPage
    BY SMTT(30), <1>4, <1>6 DEF FLAG_DELTA_COMMITTED, FLAG_NEITHER
  <2> QED
    BY <1>1, <1>4, <2>1 DEF LogGrows
<1>9. LogHoldsL2P'
  <2>1. \A x : Mentions(delta_buf', x) = {}
    BY <1>1, <1>2 DEF Mentions
  <2>2. \A a \in WrittenPages' : delta'.page[a].pairs = << >>
    BY <1>5 DEF WrittenPages
  <2>3. Replay(l2p, delta', WrittenPages') = l2p
    BY <1>2, <2>2, ReplayNothing DEF Table
  <2>4. Replay(full'.page[1 - ptr_full'], delta', WrittenPages') = l2p'
    BY <1>1, <1>3, <2>3
  <2> QED
    BY <1>1, <2>1, <2>4 DEF LogHoldsL2P
<1>10. LogIsBounded'
  <2>1. /\ 0 * PAGES_PER_BLOCK + 1 <= THRESHOLD_DELTA_WB * PAGES_PER_BLOCK + 0
        /\ 0 \in 0 .. MAX_WCNT + MAX_GCPROG
    <3>1. /\ THRESHOLD_DELTA_WB \in Nat /\ 0 < THRESHOLD_DELTA_WB
          /\ PAGES_PER_BLOCK \in Nat /\ 1 <= PAGES_PER_BLOCK
      BY SizesArePositive, DeltaRegionHasRoom
    <3> QED
      BY <3>1, BlocksBelow, SizesArePositive
  <2>2. N_DELTA_PAIR * 0 + Len(delta_buf') = wcnt' + gcprog'
    BY SMTT(30), <1>1, <1>2, SizesArePositive
  <2> QED
    BY <1>1, <2>1, <2>2 DEF LogIsBounded
<1>11. FullCheckpoints' /\ CommittedFullIsDurable'
  BY SMTT(30), <1>1, <1>3 DEF FullCheckpoints, CommittedFullIsDurable
<1>12. DeltaIsDurable'
  BY <1>1, <1>2, <1>4, FirstPage DEF DeltaIsDurable
<1>13. ReplaysOnlyWrittenPages'
  <2>1. ASSUME NEW a \in CommittedPages(delta')
        PROVE  a = w
    <3>1. PICK e \in DeltaPages : /\ delta'.page[e].flag = FLAG_DELTA_COMMITTED
                                  /\ a = e \/ Earlier(a, e)
      BY <2>1 DEF CommittedPages
    <3>2. e = w
      BY <1>4, <3>1 DEF ErasedPage, FLAG_DELTA_COMMITTED, FLAG_NEITHER
    <3>3. a[1] \in Nat /\ a[2] \in Nat
      BY <2>1, CommittedPagesType, PageIsPair
    <3> QED
      BY <3>1, <3>2, <3>3 DEF Earlier
  <2> QED
    BY <1>4, <2>1, FirstPage DEF ReplaysOnlyWrittenPages, FLAG_DELTA_COMMITTED, FLAG_NEITHER
<1>14. StableL2P' = StableL2P /\ StableIsUnique'
  <2>1. apply_delta_chkpt(l2p, delta') = l2p
    BY <1>2, <1>5, CommittedPagesType, ReplayNothing DEF apply_delta_chkpt, Table
  <2>2. \A i \in {0, 1} : commit'[i] => apply_delta_chkpt(full'.page[i], delta') = l2p
    BY <1>1, <1>3, <2>1
  <2>3. commit'[0] \/ commit'[1]
    BY <1>1, <1>3
  <2> QED
    BY <1>1, <1>2, <2>2, <2>3, StableNext
<1> QED
  BY <1>1, <1>2, <1>7, <1>8, <1>9, <1>10, <1>11, <1>12, <1>13, <1>14
=============================================================================
