---------------------------- MODULE ChkptProofs -----------------------------
(***************************************************************************)
(* The checkpoint layer keeps the mapping table crash consistent, for      *)
(* every geometry that satisfies the assumptions of FtlBase: ChkptInv is   *)
(* inductive, and from it follow type correctness, the safety invariants,  *)
(* the flash discipline and the refinement of SnapDisk.                    *)
(***************************************************************************)
EXTENDS ChkptReplaceProofs

-----------------------------------------------------------------------------
(* Recovery and power failure *)

\* ftl_recovery reads the stable table into l2p.
LEMMA RecoveryReadInv ==
  ASSUME ChkptInv, RecoveryRead
  PROVE  ChkptInv' /\ StableL2P' = StableL2P
<1> USE DEF ChkptInv
<1>1. /\ pc = "down" /\ pc' = "sync" /\ op' = "recovery"
      /\ l2p' = StableL2P /\ ptr_full' = find_committed_full_chkpt
      /\ UNCHANGED <<wcnt, gcprog, delta_buf, pending, pba_delta, ipa_delta, delta, full, commit>>
  BY DEF RecoveryRead, flashVars
<1>2. ~ Logging' /\ ~ AfterCommit'
  BY <1>1 DEF Logging, Recovering, AfterCommit
<1>3. ptr_full' \in {0, 1} /\ commit[ptr_full'] /\ StableL2P \in Table
  BY <1>1 DEF find_committed_full_chkpt, CommittedFullIsDurable, StableIsUnique
<1>4. ChkptTypeOK' /\ PcMatchesOp'
  BY <1>1, <1>3 DEF ChkptTypeOK, PcMatchesOp, PCs, Ops
<1>5. LogGrows' /\ LogHoldsL2P' /\ LogIsBounded'
  BY <1>1, <1>2, NotLogging
<1>6. FullCheckpoints' /\ CommittedFullIsDurable'
  BY <1>1, <1>3 DEF FullCheckpoints, CommittedFullIsDurable
<1>7. DeltaIsDurable' /\ ReplaysOnlyWrittenPages'
  BY <1>1, <1>2 DEF DeltaIsDurable, ReplaysOnlyWrittenPages
<1>8. StableL2P' = StableL2P /\ StableIsUnique'
  BY <1>1, StableSame
<1> QED
  BY <1>4, <1>5, <1>6, <1>7, <1>8

\* The synchronisation in ftl_recovery, before anything is deleted.
LEMMA RecoverySyncInv ==
  ASSUME ChkptInv, RecoverySync
  PROVE  ChkptInv' /\ StableL2P' = StableL2P
<1> USE DEF ChkptInv
<1>1. /\ pc = "sync" /\ op = "recovery" /\ pc' = "delother" /\ op' = "recovery"
      /\ delta' = flash_sync(delta) /\ full' = flash_sync(full)
      /\ delta_buf' = << >> /\ ptr_full' = (ptr_full + 1) % 2
      /\ UNCHANGED <<wcnt, gcprog, l2p, pending, pba_delta, ipa_delta, commit>>
  BY DEF RecoverySync, toggle_full_chkpt
<1>2. ~ Logging' /\ ~ AfterCommit'
  BY <1>1 DEF Logging, Recovering, AfterCommit
<1>3. ptr_full' \in {0, 1} /\ 1 - ptr_full' = ptr_full /\ commit[ptr_full]
  BY SMTT(30), <1>1 DEF ChkptTypeOK, FullCheckpoints
<1>4. ChkptTypeOK' /\ PcMatchesOp'
  <2>1. delta_buf' \in Seq(Pair) /\ Len(delta_buf') <= N_DELTA_PAIR
    BY <1>1, SizesArePositive
  <2> QED
    BY <1>1, <1>3, <2>1, SyncKeeps DEF ChkptTypeOK, PcMatchesOp, PCs, Ops
<1>5. LogGrows' /\ LogHoldsL2P' /\ LogIsBounded'
  BY <1>1, <1>2, NotLogging
<1>6. FullCheckpoints'
  BY <1>1, <1>3 DEF FullCheckpoints
<1>7. DeltaIsDurable'
  BY <1>1, SyncKeeps, FirstPage DEF DeltaIsDurable
<1>8. StableIsUnique'
  BY <1>1, SyncKeeps DEF StableIsUnique
<1> QED
  BY <1>1, <1>4, <1>5, <1>6, <1>7, <1>8, SyncKeeps

\* ftl_recovery deletes and rewrites the copy it has not recovered from.
LEMMA RecoveryReplaceFullInv ==
  ASSUME ChkptInv, RecoveryReplaceFull
  PROVE  ChkptInv' /\ StableL2P' = StableL2P
<1> USE DEF ChkptInv
<1> DEFINE c == 1 - ptr_full
<1>1. /\ pc = "delother" /\ pc' = "fullsync"
      /\ commit' = [commit EXCEPT ![ptr_full] = FALSE]
      /\ full' = flash_program(flash_erase(full, {ptr_full}, ErasedTable, FALSE), ptr_full, l2p, FALSE)
      /\ UNCHANGED <<op, wcnt, gcprog, l2p, delta_buf, pending, pba_delta, ipa_delta, ptr_full, delta>>
  BY DEF RecoveryReplaceFull, ramVars, DeleteFull, ProgramFull, flash_erase_bulk
<1>2. /\ ~ Logging /\ op = "recovery" /\ delta_buf = << >>
      /\ l2p = StableL2P /\ l2p \in Table
  BY <1>1, ReplacingHoldsStable DEF Replacing, PcMatchesOp
<1>3. /\ ptr_full \in {0, 1} /\ c \in {0, 1} /\ c # ptr_full
      /\ \A i \in {0, 1} : i = c \/ i = ptr_full
      /\ commit[c] /\ full \in FullRegion
  BY <1>1 DEF ChkptTypeOK, FullCheckpoints
<1> HIDE DEF c
<1>4. commit' \in [{0, 1} -> BOOLEAN] /\ commit'[c] /\ ~ commit'[ptr_full]
  BY <1>1, <1>3 DEF ChkptTypeOK
<1>5. /\ full' \in FullRegion /\ full'.page[ptr_full] = l2p
      /\ full'.page[c] = full.page[c] /\ full'.synced[c] = full.synced[c]
  <2> DEFINE D == {0, 1}
             C == [LSA -> Int]
  <2>1. FullRegion = [page : [D -> C], synced : [D -> BOOLEAN]]
    BY DEF FullRegion
  <2>2. ErasedTable \in C /\ c \in D /\ ptr_full \in D /\ l2p \in C
    BY <1>2, <1>3, TableIsIntegral DEF ErasedTable
  <2> HIDE DEF D, C
  <2>3. DOMAIN full.page = D /\ DOMAIN full.synced = D
    BY <1>3, <2>1
  <2>4. /\ full' = [page |-> full'.page, synced |-> full'.synced]
        /\ full'.page = [[a \in D |-> IF a \in {ptr_full} THEN ErasedTable ELSE full.page[a]]
                           EXCEPT ![ptr_full] = l2p]
        /\ full'.synced = [[a \in D |-> IF a \in {ptr_full} THEN FALSE ELSE full.synced[a]]
                             EXCEPT ![ptr_full] = FALSE]
    BY <1>1, <2>3 DEF flash_erase, flash_program
  <2>5. full'.page \in [D -> C]
    BY <1>3, <2>1, <2>2, <2>4
  <2>6. full'.synced \in [D -> BOOLEAN]
    <3>1. full.synced \in [D -> BOOLEAN]
      BY <1>3, <2>1
    <3> DEFINE erased == [a \in D |-> IF a \in {ptr_full} THEN FALSE ELSE full.synced[a]]
    <3>2. erased \in [D -> BOOLEAN]
      BY <3>1, BooleanUpdate
    <3>3. full'.synced = [erased EXCEPT ![ptr_full] = FALSE]
      BY <2>4
    <3> HIDE DEF erased
    <3> QED
      BY <3>2, <3>3
  <2>7. full' \in FullRegion
    BY <2>1, <2>4, <2>5, <2>6
  <2>8. full'.page[ptr_full] = l2p /\ full'.page[c] = full.page[c]
    BY <1>3, <2>2, <2>4
  <2>9. full'.synced[c] = full.synced[c]
    BY ZenonT(30), <1>3, <2>2, <2>4
  <2> QED
    BY <2>7, <2>8, <2>9
<1>6. ~ Logging' /\ ~ AfterCommit'
  BY <1>1, <1>2 DEF Logging, Recovering, AfterCommit
<1>7. ChkptTypeOK' /\ PcMatchesOp'
  BY <1>1, <1>2, <1>4, <1>5 DEF ChkptTypeOK, PcMatchesOp, PCs, Ops
<1>8. LogGrows' /\ LogHoldsL2P' /\ LogIsBounded'
  BY SMTT(30), <1>1, <1>6, NotLogging
<1>9. FullCheckpoints' /\ CommittedFullIsDurable'
  <2>1. commit'[1 - ptr_full'] /\ ~ commit'[ptr_full'] /\ full'.page[ptr_full'] = l2p'
    BY ZenonT(30), <1>1, <1>3, <1>4, <1>5 DEF c
  <2> QED
    BY ZenonT(30), <1>1, <1>3, <1>4, <1>5, <2>1 DEF FullCheckpoints, CommittedFullIsDurable
<1>10. DeltaIsDurable' /\ ReplaysOnlyWrittenPages'
  BY <1>1, <1>2 DEF DeltaIsDurable, ReplaysOnlyWrittenPages
<1>11. StableL2P' = StableL2P /\ StableIsUnique'
  <2>1. \A i \in {0, 1} : commit'[i] => apply_delta_chkpt(full'.page[i], delta') = l2p
    BY <1>1, <1>2, <1>3, <1>4, <1>5 DEF StableIsUnique
  <2>2. commit'[0] \/ commit'[1]
    BY <1>3, <1>4
  <2> QED
    BY <1>1, <1>2, <2>1, <2>2, StableNext
<1> QED
  BY <1>7, <1>8, <1>9, <1>10, <1>11

\* Power failure: whatever the unsynced pages hold afterwards, recovery reads
\* the same table.
LEMMA CrashInv ==
  ASSUME ChkptInv, Crash
  PROVE  ChkptInv' /\ StableL2P' = StableL2P
<1> USE DEF ChkptInv
<1>1. /\ delta' \in flash_crash(delta, AnyPage) /\ full' \in flash_crash(full, AnyTable)
      /\ pc' = "down" /\ op' = "none" /\ wcnt' = 0 /\ gcprog' = 0 /\ l2p' = Unmapped
      /\ delta_buf' = << >> /\ pending' = NoPair
      /\ pba_delta' = 0 /\ ipa_delta' = 0 /\ ptr_full' = 0 /\ commit' = commit
  BY DEF Crash
<1>2. /\ delta' \in DeltaRegion /\ delta'.synced = delta.synced
      /\ \A a \in DeltaPages : delta.synced[a] => delta'.page[a] = delta.page[a]
  <2>1. delta \in Region(DeltaPages, DeltaPage) /\ DeltaRegion = Region(DeltaPages, DeltaPage)
    BY DEF ChkptTypeOK, DeltaRegion, Region
  <2>2. AnyPage \in SUBSET DeltaPage
    BY CrashContents
  <2> QED
    BY <1>1, <2>1, <2>2, CrashRegion
<1>3. /\ full' \in FullRegion /\ full'.synced = full.synced
      /\ \A i \in {0, 1} : full.synced[i] => full'.page[i] = full.page[i]
  <2>1. full \in Region({0, 1}, [LSA -> Int]) /\ FullRegion = Region({0, 1}, [LSA -> Int])
    BY DEF ChkptTypeOK, FullRegion, Region
  <2>2. AnyTable \in SUBSET [LSA -> Int]
    BY CrashContents
  <2> QED
    BY <1>1, <2>1, <2>2, CrashRegion
<1>4. ChkptTypeOK'
  <2>1. NoPair \in Pair /\ Unmapped \in Table
    BY CrashContents, SizesArePositive DEF NoPair, Pair, LSA, Unmapped, Table
  <2>2. /\ 0 \in 0 .. MAX_WCNT /\ 0 \in 0 .. MAX_GCPROG /\ 0 \in 0 .. PAGES_PER_BLOCK
        /\ delta_buf' \in Seq(Pair) /\ Len(delta_buf') <= N_DELTA_PAIR
    BY <1>1, SizesArePositive
  <2> QED
    BY <1>1, <1>2, <1>3, <2>1, <2>2 DEF ChkptTypeOK, PCs, Ops
<1>5. PcMatchesOp'
  BY <1>1 DEF PcMatchesOp
<1>6. ~ Logging' /\ ~ AfterCommit'
  BY <1>1 DEF Logging, Recovering, AfterCommit
<1>7. LogGrows' /\ LogHoldsL2P' /\ LogIsBounded'
  BY SMTT(30), <1>1, <1>6, NotLogging
<1>8. FullCheckpoints' /\ CommittedFullIsDurable'
  BY <1>1, <1>3 DEF FullCheckpoints, CommittedFullIsDurable
<1>9. delta'.page[<<0, 0>>] = delta.page[<<0, 0>>]
  BY <1>2, FirstPage DEF DeltaIsDurable
<1>10. first_delta_page_erased(delta') = first_delta_page_erased(delta)
  BY SMTT(30), <1>9 DEF first_delta_page_erased
<1>11. DeltaIsDurable'
  BY <1>1, <1>2, <1>6, <1>10 DEF DeltaIsDurable
<1>12. /\ \A m \in [LSA -> Int] : apply_delta_chkpt(m, delta') = apply_delta_chkpt(m, delta)
       /\ ReplaysOnlyWrittenPages'
  <2>1. CASE first_delta_page_erased(delta)
    <3>1. \A m \in [LSA -> Int] : apply_delta_chkpt(m, delta') = m /\ apply_delta_chkpt(m, delta) = m
      BY ZenonT(30), <1>10, <2>1, ApplyErased
    <3>2. CommittedPages(delta') = {}
      BY <1>10, <2>1 DEF CommittedPages
    <3> QED
      BY <3>1, <3>2 DEF ReplaysOnlyWrittenPages
  <2>2. CASE ~ first_delta_page_erased(delta)
    <3>1. \A a \in DeltaPages : delta'.page[a] = delta.page[a]
      BY <1>2, <2>2 DEF DeltaIsDurable
    <3>2. CommittedPages(delta') = CommittedPages(delta)
      BY <3>1, ApplySame
    <3> QED
      BY <1>2, <3>1, <3>2, ApplySame, CommittedPagesType DEF ReplaysOnlyWrittenPages
  <2> QED
    BY <2>1, <2>2
<1>13. StableL2P' = StableL2P /\ StableIsUnique'
  <2>1. ASSUME NEW i \in {0, 1}, commit'[i]
        PROVE  apply_delta_chkpt(full'.page[i], delta') = StableL2P
    <3>1. full'.page[i] = full.page[i] /\ full.page[i] \in [LSA -> Int]
      BY <1>1, <1>3, <2>1 DEF CommittedFullIsDurable, ChkptTypeOK, FullRegion
    <3> QED
      BY <1>1, <1>12, <2>1, <3>1 DEF StableIsUnique
  <2>2. commit'[0] \/ commit'[1]
    BY <1>1 DEF CommittedFullIsDurable
  <2>3. StableL2P \in Table
    BY DEF StableIsUnique
  <2> QED
    BY <1>1, <1>6, <2>1, <2>2, <2>3, StableNext
<1> QED
  BY SMTT(30), <1>4, <1>5, <1>7, <1>8, <1>11, <1>12, <1>13

\* ftl_format leaves one committed full checkpoint and a blank delta region.
LEMMA ChkptInitInv ==
  ASSUME ChkptInit
  PROVE  ChkptInv /\ StableL2P = Unmapped
<1>1. ChkptTypeOK
  <2>1. NoPair \in Pair /\ Unmapped \in Table /\ Unmapped \in [LSA -> Int] /\ ErasedTable \in [LSA -> Int]
    BY CrashContents, SizesArePositive, TableIsIntegral
       DEF NoPair, Pair, LSA, Unmapped, Table, ErasedTable
  <2>2. /\ 0 \in 0 .. MAX_WCNT /\ 0 \in 0 .. MAX_GCPROG /\ 0 \in 0 .. PAGES_PER_BLOCK
        /\ delta_buf \in Seq(Pair) /\ Len(delta_buf) <= N_DELTA_PAIR
    BY SizesArePositive DEF ChkptInit
  <2>3. delta \in DeltaRegion
    BY ErasedPageType DEF ChkptInit, DeltaRegion
  <2>4. full \in FullRegion
    BY <2>1 DEF ChkptInit, FullRegion
  <2> QED
    BY <2>1, <2>2, <2>3, <2>4 DEF ChkptInit, ChkptTypeOK, PCs, Ops
<1>2. /\ \A a \in DeltaPages : delta.page[a] = ErasedPage /\ delta.synced[a]
      /\ commit[0] /\ ~ commit[1] /\ full.page[0] = Unmapped /\ full.synced[0] /\ full.synced[1]
  <2>1. \A a \in DeltaPages : delta.page[a] = ErasedPage /\ delta.synced[a]
    BY DEF ChkptInit
  <2>2. commit[0] /\ ~ commit[1]
    <3>1. commit = [i \in {0, 1} |-> i = 0]
      BY DEF ChkptInit
    <3>2. commit[0] <=> 0 = 0
      BY <3>1, Zenon
    <3>3. commit[1] <=> 1 = 0
      BY <3>1, Zenon
    <3>4. 1 # 0
      OBVIOUS
    <3> QED
      BY <3>2, <3>3, <3>4, Zenon
  <2>3. full.page[0] = Unmapped /\ full.synced[0] /\ full.synced[1]
    BY DEF ChkptInit
  <2> QED
    BY <2>1, <2>2, <2>3
<1>3. first_delta_page_erased(delta)
  BY <1>2, FirstPage
     DEF first_delta_page_erased, ErasedPage, FLAG_DELTA_COMMITTED, FLAG_DELTA_TENTATIVE, FLAG_NEITHER
<1>4. PcMatchesOp /\ FullCheckpoints /\ CommittedFullIsDurable
  BY SMTT(30), <1>2 DEF ChkptInit, PcMatchesOp, FullCheckpoints, CommittedFullIsDurable
<1>5. LogGrows /\ LogHoldsL2P /\ LogIsBounded
  BY DEF ChkptInit, LogGrows, LogHoldsL2P, LogIsBounded, Logging, Recovering
<1>6. DeltaIsDurable /\ ReplaysOnlyWrittenPages
  BY <1>2, <1>3, FirstPage
     DEF ChkptInit, DeltaIsDurable, ReplaysOnlyWrittenPages, CommittedPages, AfterCommit
<1>7. StableL2P = Unmapped /\ StableIsUnique
  <2>1. Unmapped \in Table
    BY CrashContents DEF Unmapped, Table
  <2>2. apply_delta_chkpt(Unmapped, delta) = Unmapped
    BY <1>3, <2>1, ApplyErased DEF Table
  <2>3. StableL2P = Unmapped
    BY <1>2, <2>2 DEF StableL2P, find_committed_full_chkpt
  <2> QED
    BY <1>2, <2>1, <2>2, <2>3 DEF StableIsUnique, ChkptInit, AfterCommit
<1> QED
  BY <1>1, <1>4, <1>5, <1>6, <1>7 DEF ChkptInv

-----------------------------------------------------------------------------
(* The theorems *)

\* Every step of ftl_write, ftl_gc_copy, ftl_flush and ftl_recovery, and power
\* failure in between, preserves ChkptInv.
LEMMA ChkptNextInv ==
  ASSUME ChkptInv, [ChkptNext]_chkptVars
  PROVE  ChkptInv'
<1>1. ASSUME NEW la \in LSA, NEW pa \in PSA, HostUpdate(la, pa) \/ GcUpdate(la, pa)
      PROVE  ChkptInv'
  <2>1. CASE HostUpdate(la, pa)
    BY <2>1, RemapInv DEF HostUpdate
  <2>2. CASE GcUpdate(la, pa)
    BY <2>2, RemapInv DEF GcUpdate
  <2> QED
    BY <1>1, <2>1, <2>2
<1>2. CASE FlushBegin          BY <1>2, FlushBeginInv
<1>3. CASE RecoveryRead        BY <1>3, RecoveryReadInv
<1>4. CASE TentativeDelta      BY <1>4, TentativeDeltaInv
<1>5. CASE FlushSync           BY <1>5, FlushSyncInv
<1>6. CASE FlushCommit         BY <1>6, FlushCommitInv
<1>7. CASE RecoverySync        BY <1>7, RecoverySyncInv
<1>8. CASE RecoveryReplaceFull BY <1>8, RecoveryReplaceFullInv
<1>9. CASE FullSync            BY <1>9, FullSyncInv
<1>10. CASE FullCommit         BY <1>10, FullCommitInv
<1>11. CASE delete_full_chkpt  BY <1>11, DeleteFullInv
<1>12. CASE EraseDelta         BY <1>12, EraseDeltaInv
<1>13. CASE DeltaSync          BY <1>13, DeltaSyncInv
<1>14. CASE FirstDelta         BY <1>14, FirstDeltaInv
<1>15. CASE Crash              BY <1>15, CrashInv
<1>16. CASE UNCHANGED chkptVars
  <2>1. UNCHANGED <<pc, op, wcnt, gcprog, l2p, delta_buf, pending, pba_delta, ipa_delta,
                    ptr_full, delta, full, commit>>
    BY <1>16 DEF chkptVars, ramVars, flashVars
  <2>2. StableL2P' = StableL2P /\ WrittenPages' = WrittenPages /\ \A a : Written(a)' = Written(a)
    BY <2>1 DEF StableL2P, find_committed_full_chkpt, WrittenPages, Written
  <2>3. Logging' = Logging /\ AfterCommit' = AfterCommit
    BY SMTT(30), <2>1 DEF Logging, Recovering, AfterCommit
  <2>4. ChkptTypeOK' /\ PcMatchesOp' /\ FullCheckpoints' /\ CommittedFullIsDurable'
    BY SMTT(30), <2>1 DEF ChkptInv, ChkptTypeOK, PcMatchesOp, FullCheckpoints, CommittedFullIsDurable
  <2>5. LogGrows' /\ LogHoldsL2P' /\ LogIsBounded'
    BY <2>1, <2>2, <2>3 DEF ChkptInv, LogGrows, LogHoldsL2P, LogIsBounded
  <2>6. DeltaIsDurable' /\ ReplaysOnlyWrittenPages' /\ StableIsUnique'
    BY ZenonT(30), <2>1, <2>2, <2>3 DEF ChkptInv, DeltaIsDurable, ReplaysOnlyWrittenPages, StableIsUnique
  <2> QED
    BY <2>4, <2>5, <2>6 DEF ChkptInv
<1> QED
  BY <1>1, <1>2, <1>3, <1>4, <1>5, <1>6, <1>7, <1>8, <1>9, <1>10, <1>11, <1>12, <1>13,
     <1>14, <1>15, <1>16 DEF ChkptNext, ChkptStep

\* ChkptInv holds in every reachable state of the checkpoint layer.
THEOREM ChkptInvariant == ChkptSpec => []ChkptInv
<1>1. ChkptInit => ChkptInv
  BY ChkptInitInv
<1>2. ChkptInv /\ [ChkptNext]_chkptVars => ChkptInv'
  BY ChkptNextInv
<1> QED
  BY <1>1, <1>2, PTL DEF ChkptSpec

\* Type correctness: counters, pointers and tables of ftl.c stay in range.
THEOREM ChkptTypeCorrect == ChkptSpec => []ChkptTypeOK
<1>1. ChkptInv => ChkptTypeOK
  BY DEF ChkptInv
<1> QED
  BY <1>1, ChkptInvariant, PTL

\* create_one_delta_chkpt never programs a page outside the delta region.
THEOREM DeltaPointerStaysInRegion == ChkptSpec => []DeltaPointerInRegion
<1>1. ChkptInv => DeltaPointerInRegion
  BY NextPageIsFree DEF DeltaPointerInRegion
<1> QED
  BY <1>1, ChkptInvariant, PTL

\* Recovery replays only pages that were programmed and synced.
THEOREM RecoveryReplaysWrittenPages == ChkptSpec => []ReplaysOnlyWrittenPages
<1>1. ChkptInv => ReplaysOnlyWrittenPages
  BY DEF ChkptInv
<1> QED
  BY <1>1, ChkptInvariant, PTL

\* There is always a committed full checkpoint, and it is durable.
THEOREM FullCheckpointAlwaysThere == ChkptSpec => []CommittedFullIsDurable
<1>1. ChkptInv => CommittedFullIsDurable
  BY DEF ChkptInv
<1> QED
  BY <1>1, ChkptInvariant, PTL

\* What a step other than power failure may do to a delta page.
ProgramsInOrder(a) ==
  \/ delta'.page[a] \in {delta.page[a], ErasedPage}
  \/ /\ delta.page[a] = ErasedPage
     /\ \A p \in 0 .. a[2] - 1 : delta.page[<<a[1], p>>] # ErasedPage

\* create_one_delta_chkpt programs the page after the written ones.
LEMMA AppendsInOrder ==
  ASSUME ChkptInv, pc \in {"delta", "commit"},
         NEW flag \in {FLAG_DELTA_COMMITTED, FLAG_DELTA_TENTATIVE},
         create_one_delta_chkpt(flag), NEW a \in DeltaPages
  PROVE  ProgramsInOrder(a)
<1> USE SizesArePositive DEF ChkptInv
<1>1. Logging
  BY DEF PcMatchesOp, Logging, Recovering, AfterCommit
<1>2. CASE a # NextDeltaPage
  BY <1>2, PageAppended DEF ProgramsInOrder
<1>3. CASE a = NextDeltaPage
  <2>1. delta.page[a] = ErasedPage
    BY SMTT(30), <1>3, NextPageIsFree
  <2>2. ASSUME NEW p \in 0 .. a[2] - 1
        PROVE  delta.page[<<a[1], p>>] # ErasedPage
    <3>1. PICK b \in 0 .. BLOCKS_DELTA - 1, q \in 0 .. PAGES_PER_BLOCK - 1 : a = <<b, q>>
      BY DEF DeltaPages, Pages
    <3>2. <<b, p>> \in DeltaPages
      BY <2>2, <3>1 DEF DeltaPages, Pages
    <3>3. pba_delta \in Nat /\ ipa_delta \in 1 .. PAGES_PER_BLOCK
      BY <1>1 DEF ChkptTypeOK, LogGrows
    <3>4. Written(<<b, p>>)
      <4>1. CASE ipa_delta = PAGES_PER_BLOCK
        BY <1>3, <2>2, <3>1, <3>3, <4>1 DEF NextDeltaPage
      <4>2. CASE ipa_delta # PAGES_PER_BLOCK
        BY <1>3, <2>2, <3>1, <3>3, <4>2 DEF NextDeltaPage, Written
      <4> QED
        BY <4>1, <4>2
    <3> QED
      BY <1>1, <3>1, <3>2, <3>4 DEF LogGrows, ErasedPage
  <2> QED
    BY <2>1, <2>2 DEF ProgramsInOrder
<1> QED
  BY <1>2, <1>3

\* Only appends, the first page and erasures change the delta region.
LEMMA ChkptNextProgramsInOrder ==
  ASSUME ChkptInv, ChkptNext, pc' # "down", NEW a \in DeltaPages
  PROVE  ProgramsInOrder(a)
<1>1. CASE UNCHANGED delta
  BY <1>1 DEF ProgramsInOrder
<1>2. ASSUME delta' = flash_sync(delta)
      PROVE  ProgramsInOrder(a)
  <2>1. delta'.page = delta.page
    BY <1>2 DEF flash_sync, ChkptInv, ChkptTypeOK, DeltaRegion
  <2> QED
    BY <2>1 DEF ProgramsInOrder
<1>3. CASE TentativeDelta
  BY <1>3, AppendsInOrder DEF TentativeDelta
<1>4. CASE FlushCommit
  BY <1>4, AppendsInOrder DEF FlushCommit
<1>5. CASE EraseDelta
  <2>1. delta'.page[a] = ErasedPage
    BY <1>5, EraseDeltaInv DEF EraseDelta, ChkptInv, DeltaIsDurable
  <2> QED
    BY SMTT(30), <2>1 DEF ProgramsInOrder
<1>6. CASE FirstDelta
  <2>1. /\ delta \in DeltaRegion /\ delta.page[a] = ErasedPage
    BY <1>6 DEF FirstDelta, ChkptInv, ChkptTypeOK, DeltaIsDurable
  <2>2. CASE a = <<0, 0>>
    BY <2>1, <2>2 DEF ProgramsInOrder
  <2>3. CASE a # <<0, 0>>
    <3>1. delta'.page[a] = delta.page[a]
      BY SMTT(30), <1>6, <2>1, <2>3 DEF FirstDelta, flash_program, DeltaRegion
    <3> QED
      BY <3>1 DEF ProgramsInOrder
  <2> QED
    BY <2>2, <2>3
<1>7. \/ UNCHANGED delta \/ delta' = flash_sync(delta)
      \/ TentativeDelta \/ FlushCommit \/ EraseDelta \/ FirstDelta
  BY ZenonT(30) DEF ChkptNext, ChkptStep, HostUpdate, GcUpdate, Remap, FlushBegin, RecoveryRead, FlushSync,
         RecoverySync, RecoveryReplaceFull, FullSync, FullCommit, delete_full_chkpt, DeltaSync,
         Crash, flashVars
<1> QED
  BY <1>1, <1>2, <1>3, <1>4, <1>5, <1>6, <1>7

\* A delta page is programmed only when blank, after the pages before it.
THEOREM DeltaPagesProgrammedInOrder == ChkptSpec => DeltaProgramDiscipline
<1>1. ChkptInv /\ [ChkptNext]_chkptVars
        => [pc' # "down" =>
              \A a \in DeltaPages :
                \/ delta'.page[a] \in {delta.page[a], ErasedPage}
                \/ /\ delta.page[a] = ErasedPage
                   /\ \A p \in 0 .. a[2] - 1 : delta.page[<<a[1], p>>] # ErasedPage]_chkptVars
  BY ChkptNextProgramsInOrder DEF ProgramsInOrder
<1> QED
  BY <1>1, ChkptInvariant, PTL DEF ChkptSpec, DeltaProgramDiscipline

-----------------------------------------------------------------------------
(* The checkpoint layer implements the snapshot disk *)

\* An update of l2p is a write of the abstract disk.
LEMMA RemapWrites ==
  ASSUME ChkptInv, NEW o \in {"write", "gc"}, NEW la \in LSA, NEW pa \in PSA,
         Remap(o, la, pa), o = "write" => wcnt < MAX_WCNT, o = "gc" => gcprog < MAX_GCPROG
  PROVE  SnapTable!spec_write(la, pa)
<1> USE DEF ChkptInv
<1>1. /\ pc = "idle" /\ op = "none" /\ l2p' = [l2p EXCEPT ![la] = pa]
      /\ UNCHANGED <<delta, full, commit>>
  BY DEF Remap, flashVars, PcMatchesOp
<1>2. \/ pc' = "delta" /\ op' = o /\ UNCHANGED <<wcnt, gcprog>>
      \/ UNCHANGED <<pc, op>> /\ CountUpdate(o)
  BY DEF Remap
<1>3. StableL2P' = StableL2P
  BY <1>1 DEF StableL2P, find_committed_full_chkpt
<1>4. VolatileL2P = l2p /\ VolatileL2P' = l2p'
  BY <1>1, <1>2 DEF VolatileL2P, Recovering
<1>5. /\ UpdatesSinceSnapshot = wcnt + gcprog
      /\ UpdatesSinceSnapshot' = UpdatesSinceSnapshot + 1
  BY <1>1, <1>2 DEF UpdatesSinceSnapshot, Recovering, AfterCommit, CountUpdate, ChkptTypeOK
<1>6. wcnt + gcprog < MAX_WCNT + MAX_GCPROG
  BY SizesArePositive DEF ChkptTypeOK
<1> QED
  BY <1>1, <1>3, <1>4, <1>5, <1>6 DEF SnapTable!spec_write

\* Steps that the abstract disk does not see.
Stutters == UNCHANGED <<VolatileL2P, StableL2P, UpdatesSinceSnapshot>>

\* The steps of ftl_flush up to its commit leave the counters alone.
LEMMA FlushStutters ==
  ASSUME ChkptInv, FlushBegin \/ FlushSync \/ TentativeDelta
  PROVE  Stutters
<1> USE DEF ChkptInv
<1>1. CASE FlushBegin
  <2>1. /\ pc = "idle" /\ op = "none" /\ pc' = "sync" /\ op' = "flush"
        /\ UNCHANGED <<wcnt, gcprog, l2p>>
    BY <1>1 DEF FlushBegin, PcMatchesOp, ramVars
  <2>2. UpdatesSinceSnapshot' = UpdatesSinceSnapshot /\ VolatileL2P' = VolatileL2P
    BY <2>1 DEF UpdatesSinceSnapshot, VolatileL2P, Recovering, AfterCommit
  <2> QED
    BY <1>1, <2>2, FlushBeginInv DEF Stutters
<1>2. CASE FlushSync
  <2>1. /\ pc = "sync" /\ op = "flush" /\ pc' = "commit" /\ op' = "flush"
        /\ UNCHANGED <<wcnt, gcprog, l2p>>
    BY <1>2 DEF FlushSync, ramVars
  <2>2. UpdatesSinceSnapshot' = UpdatesSinceSnapshot /\ VolatileL2P' = VolatileL2P
    BY <2>1 DEF UpdatesSinceSnapshot, VolatileL2P, Recovering, AfterCommit
  <2> QED
    BY <1>2, <2>2, FlushSyncInv DEF Stutters
<1>3. CASE TentativeDelta
  <2>1. /\ pc = "delta" /\ op \in {"write", "gc"} /\ pc' = "idle" /\ op' = "none"
        /\ CountUpdate(op) /\ UNCHANGED l2p
    BY <1>3 DEF TentativeDelta, PcMatchesOp
  <2>2. wcnt' + gcprog' = wcnt + gcprog + 1 /\ wcnt' \in Nat /\ gcprog' \in Nat
    BY <2>1 DEF CountUpdate, ChkptTypeOK
  <2>3. UpdatesSinceSnapshot' = UpdatesSinceSnapshot
    BY <2>1, <2>2 DEF UpdatesSinceSnapshot, Recovering, AfterCommit
  <2>4. VolatileL2P' = VolatileL2P
    BY <2>1 DEF VolatileL2P, Recovering
  <2> QED
    BY <1>3, <2>3, <2>4, TentativeDeltaInv DEF Stutters
<1> QED
  BY <1>1, <1>2, <1>3

\* Replacing the full checkpoint and recovering happen behind the scenes.
LEMMA ReplacingStutters ==
  ASSUME ChkptInv,
         \/ RecoveryRead \/ RecoverySync \/ RecoveryReplaceFull \/ FullSync \/ FullCommit
         \/ delete_full_chkpt \/ EraseDelta \/ DeltaSync \/ FirstDelta
  PROVE  Stutters
<1> USE DEF ChkptInv
<1>1. StableL2P' = StableL2P
  BY ZenonT(30), RecoveryReadInv, RecoverySyncInv, RecoveryReplaceFullInv, FullSyncInv, FullCommitInv,
     DeleteFullInv, EraseDeltaInv, DeltaSyncInv, FirstDeltaInv
<1>2. UpdatesSinceSnapshot = 0 /\ VolatileL2P = StableL2P
  <2>1. pc \in Replacing => l2p = StableL2P /\ (AfterCommit \/ op = "recovery")
    BY SMTT(30), ReplacingHoldsStable
  <2>2. pc \in Replacing \/ pc = "down" \/ op = "recovery"
    BY ZenonT(30) DEF Replacing, RecoveryRead, RecoverySync, RecoveryReplaceFull, FullSync, FullCommit,
           delete_full_chkpt, EraseDelta, DeltaSync, FirstDelta
  <2> QED
    BY <2>1, <2>2 DEF UpdatesSinceSnapshot, VolatileL2P, Recovering
<1>3. UpdatesSinceSnapshot' = 0 /\ VolatileL2P' = StableL2P'
  <2>1. CASE FirstDelta
    <3>1. pc' = "idle" /\ op' = "none" /\ wcnt' = 0 /\ gcprog' = 0 /\ l2p' = StableL2P'
      BY <1>1, <2>1, FirstDeltaInv DEF FirstDelta, Finish
    <3> QED
      BY <3>1 DEF UpdatesSinceSnapshot, VolatileL2P, Recovering, AfterCommit
  <2>2. CASE ~ FirstDelta
    <3>1. ChkptInv'
      BY ZenonT(30), <2>2, RecoveryReadInv, RecoverySyncInv, RecoveryReplaceFullInv, FullSyncInv,
         FullCommitInv, DeleteFullInv, EraseDeltaInv, DeltaSyncInv
    <3>2. pc' \in Replacing \/ op' = "recovery"
      BY ZenonT(30), <2>2 DEF Replacing, RecoveryRead, RecoverySync, RecoveryReplaceFull, FullSync,
                  FullCommit, delete_full_chkpt, EraseDelta, DeltaSync
    <3>3. (AfterCommit' \/ op' = "recovery") /\ l2p' = StableL2P'
      BY <3>1, <3>2
         DEF Replacing, PcMatchesOp, AfterCommit, StableIsUnique
    <3> QED
      BY <3>3 DEF UpdatesSinceSnapshot, VolatileL2P, Recovering
  <2> QED
    BY <2>1, <2>2
<1> QED
  BY <1>1, <1>2, <1>3 DEF Stutters

\* The committed page is the abstract flush.
LEMMA FlushCommitFlushes ==
  ASSUME ChkptInv, FlushCommit
  PROVE  SnapTable!spec_flush
<1> USE DEF ChkptInv
<1>1. /\ pc = "commit" /\ op = "flush" /\ UNCHANGED l2p
      /\ \/ pc' = "fullsync" /\ op' = "flush"
         \/ pc' = "idle" /\ op' = "none" /\ wcnt' = 0 /\ gcprog' = 0
  BY DEF FlushCommit, PcMatchesOp, Finish
<1>2. StableL2P' = l2p
  BY FlushCommitInv
<1>3. VolatileL2P = l2p /\ VolatileL2P' = l2p
  BY <1>1 DEF VolatileL2P, Recovering
<1>4. UpdatesSinceSnapshot' = 0
  BY <1>1 DEF UpdatesSinceSnapshot, Recovering, AfterCommit
<1> QED
  BY <1>2, <1>3, <1>4 DEF SnapTable!spec_flush

\* Power failure is the abstract recovery.
LEMMA CrashRecovers ==
  ASSUME ChkptInv, Crash
  PROVE  SnapTable!spec_recovery
<1>1. StableL2P' = StableL2P /\ pc' = "down"
  BY CrashInv DEF Crash
<1>2. VolatileL2P' = StableL2P' /\ UpdatesSinceSnapshot' = 0
  BY <1>1 DEF VolatileL2P, UpdatesSinceSnapshot, Recovering
<1> QED
  BY <1>1, <1>2 DEF SnapTable!spec_recovery

\* Crash consistency: whatever ftl_flush and ftl_recovery had done when power
\* failed, and however often it fails, recovery rebuilds the mapping table of
\* the last committed flush, for every geometry and every content that a crash
\* may leave in the pages that were not synced.
THEOREM TableIsCrashConsistent == ChkptSpec => ImplementsSnapTable
<1>1. ChkptInit => SnapTable!spec_init
  <2> SUFFICES ASSUME ChkptInit PROVE SnapTable!spec_init
    OBVIOUS
  <2>1. StableL2P = Unmapped
    BY ChkptInitInv
  <2>2. VolatileL2P = StableL2P /\ UpdatesSinceSnapshot = 0
    BY DEF ChkptInit, VolatileL2P, UpdatesSinceSnapshot, Recovering
  <2> QED
    BY <2>1, <2>2 DEF SnapTable!spec_init, Unmapped
<1>2. ChkptInv /\ [ChkptNext]_chkptVars
        => [SnapTable!spec_next]_<<VolatileL2P, StableL2P, UpdatesSinceSnapshot>>
  <2> SUFFICES ASSUME ChkptInv, [ChkptNext]_chkptVars
               PROVE  [SnapTable!spec_next]_<<VolatileL2P, StableL2P, UpdatesSinceSnapshot>>
    OBVIOUS
  <2>1. ASSUME NEW la \in LSA, NEW pa \in PSA, HostUpdate(la, pa) \/ GcUpdate(la, pa)
        PROVE  SnapTable!spec_next
    <3>1. SnapTable!spec_write(la, pa)
      <4>1. CASE HostUpdate(la, pa)
        BY <4>1, RemapWrites DEF HostUpdate
      <4>2. CASE GcUpdate(la, pa)
        BY <4>2, RemapWrites DEF GcUpdate
      <4> QED
        BY <2>1, <4>1, <4>2
    <3> QED
      BY <3>1 DEF SnapTable!spec_next
  <2>2. CASE FlushCommit
    BY <2>2, FlushCommitFlushes DEF SnapTable!spec_next
  <2>3. CASE Crash
    BY <2>3, CrashRecovers DEF SnapTable!spec_next
  <2>4. CASE FlushBegin \/ FlushSync \/ TentativeDelta
    BY <2>4, FlushStutters DEF Stutters
  <2>5. CASE \/ RecoveryRead \/ RecoverySync \/ RecoveryReplaceFull \/ FullSync \/ FullCommit
             \/ delete_full_chkpt \/ EraseDelta \/ DeltaSync \/ FirstDelta
    BY SMTT(30), <2>5, ReplacingStutters DEF Stutters
  <2>6. CASE UNCHANGED chkptVars
    BY <2>6 DEF chkptVars, ramVars, flashVars, VolatileL2P, StableL2P, UpdatesSinceSnapshot,
                Recovering, AfterCommit, find_committed_full_chkpt
  <2> QED
    BY <2>1, <2>2, <2>3, <2>4, <2>5, <2>6 DEF ChkptNext, ChkptStep
<1> QED
  BY <1>1, <1>2, ChkptInvariant, PTL DEF ChkptSpec, ImplementsSnapTable, SnapTable!spec
=============================================================================
