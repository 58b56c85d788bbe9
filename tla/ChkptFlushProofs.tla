-------------------------- MODULE ChkptFlushProofs --------------------------
(***************************************************************************)
(* ftl_flush up to its committed page preserves ChkptInv, and the          *)
(* committed page makes the volatile table the stable one.                 *)
(***************************************************************************)
EXTENDS ChkptLogProofs

\* The committed page makes the volatile table the stable one.
LEMMA FlushCommitInv ==
  ASSUME ChkptInv, FlushCommit
  PROVE  ChkptInv' /\ StableL2P' = l2p
<1> USE DEF ChkptInv
<1>1. /\ pc = "commit" /\ Logging /\ op = "flush"
      /\ create_one_delta_chkpt(FLAG_DELTA_COMMITTED)
      /\ delta_buf' = <<>>
      /\ UNCHANGED <<l2p, pending, ptr_full, commit>>
  BY DEF FlushCommit, PcMatchesOp, Logging, Recovering, AfterCommit
<1>2. \/ /\ pba_delta' >= THRESHOLD_DELTA_WB
         /\ full' = ProgramFull(full, ptr_full)
         /\ pc' = "fullsync" /\ UNCHANGED <<op, wcnt, gcprog>>
      \/ /\ ~ (pba_delta' >= THRESHOLD_DELTA_WB)
         /\ pc' = "idle" /\ op' = "none" /\ wcnt' = 0 /\ gcprog' = 0
         /\ UNCHANGED full
  BY SMTT(30) DEF FlushCommit, delta_chkpt_region_almost_full, Finish
<1> DEFINE w == NextDeltaPage
           c == 1 - ptr_full
<1>3. /\ w \in DeltaPages /\ w \notin WrittenPages /\ w # <<0, 0>>
      /\ \A a \in WrittenPages : Earlier(a, w)
      /\ \A a \in DeltaPages : a \in WrittenPages \/ a = w \/ Earlier(w, a)
      /\ WrittenPages \in SUBSET DeltaPages
  BY <1>1, NextPageIsFree, LogIsReplayed DEF LogGrows, ErasedPage, WrittenPages
<1>4. /\ delta' \in DeltaRegion
      /\ pba_delta' \in Nat /\ ipa_delta' \in 1 .. PAGES_PER_BLOCK
      /\ delta'.page[w] = [flag |-> FLAG_DELTA_COMMITTED, pairs |-> delta_buf]
      /\ \A a \in DeltaPages \ {w} : delta'.page[a] = delta.page[a]
      /\ \A a \in DeltaPages : delta'.synced[a]
      /\ WrittenPages' = WrittenPages \cup {w}
      /\ \A a \in DeltaPages : IF Written(a)' THEN delta'.page[a].flag # FLAG_NEITHER
                                            ELSE delta'.page[a] = ErasedPage
  BY <1>1, PageAppended
<1>5. /\ c \in {0, 1} /\ ptr_full \in {0, 1} /\ c # ptr_full
      /\ commit[c] /\ ~ commit[ptr_full]
      /\ full \in FullRegion /\ l2p \in Table
  BY <1>1 DEF ChkptTypeOK, FullCheckpoints
<1>6. /\ full' \in FullRegion
      /\ full'.page[c] = full.page[c] /\ full'.synced[c] = full.synced[c]
      /\ pc' = "fullsync" => full'.page[ptr_full] = l2p
  <2>1. CASE UNCHANGED full
    BY <1>1, <1>2, <1>5, <2>1 DEF ProgramFull, flash_program, FullRegion
  <2>2. CASE full' = ProgramFull(full, ptr_full)
    <3>1. l2p \in [LSA -> Int]
      BY <1>5, TableIsIntegral
    <3> QED
      BY <1>5, <2>2, <3>1 DEF ProgramFull, flash_program, FullRegion
  <2> QED
    BY <1>2, <2>1, <2>2
<1>7. ChkptTypeOK'
  <2>1. delta_buf' \in Seq(Pair) /\ Len(delta_buf') <= N_DELTA_PAIR
    BY <1>1, SizesArePositive
  <2>2. ipa_delta' \in 0 .. PAGES_PER_BLOCK
    BY <1>4, SizesArePositive
  <2>3. wcnt' \in 0 .. MAX_WCNT /\ gcprog' \in 0 .. MAX_GCPROG
    BY <1>2, SizesArePositive DEF ChkptTypeOK
  <2>4. pc' \in PCs /\ op' \in Ops
    BY <1>1, <1>2 DEF PCs, Ops
  <2> QED
    BY <1>1, <1>4, <1>6, <2>1, <2>2, <2>3, <2>4 DEF ChkptTypeOK
<1>8. PcMatchesOp'
  BY <1>1, <1>2 DEF PcMatchesOp
<1>9. LogGrows'
  BY <1>4 DEF LogGrows
\* The whole log replays to l2p.
<1>10. Replay(full.page[c], delta', WrittenPages \cup {w}) = l2p
  <2> DEFINE m == full.page[c]
  <2>1. ASSUME NEW x \in LSA
        PROVE  Replay(m, delta', WrittenPages \cup {w})[x] = l2p[x]
    <3> HIDE DEF m, w
    <3>1. l2p[x] = IF Mentions(delta_buf, x) # {} THEN LastPsa(delta_buf, x)
                   ELSE Replay(m, delta, WrittenPages)[x]
      BY <1>1 DEF LogHoldsL2P, m
    <3>2. delta'.page[w].pairs = delta_buf
      BY <1>4
    <3>3. Replay(m, delta', WrittenPages \cup {w})[x]
            = IF Mentions(delta'.page[w].pairs, x) = {} THEN Replay(m, delta', WrittenPages)[x]
              ELSE LastPsa(delta'.page[w].pairs, x)
      <4>1. w \in DeltaPages /\ WrittenPages \in SUBSET DeltaPages /\ \A a \in WrittenPages : Earlier(a, w)
        BY <1>3
      <4> QED
        BY <2>1, <4>1, ReplayAppend
    <3>4. Replay(m, delta', WrittenPages) = Replay(m, delta, WrittenPages)
      BY <1>3, <1>4, ReplayLocal
    <3> QED
      BY <3>1, <3>2, <3>3, <3>4
  <2>2. Replay(m, delta', WrittenPages \cup {w})
          = [x \in LSA |-> Replay(m, delta', WrittenPages \cup {w})[x]]
    BY DEF Replay
  <2>3. l2p = [x \in LSA |-> l2p[x]]
    BY <1>5 DEF Table
  <2> HIDE DEF m, w
  <2>4. [x \in LSA |-> Replay(m, delta', WrittenPages \cup {w})[x]] = [x \in LSA |-> l2p[x]]
    BY <2>1
  <2> QED
    BY <2>2, <2>3, <2>4 DEF m
<1>11. CommittedPages(delta') = WrittenPages \cup {w}
  <2>1. ~ first_delta_page_erased(delta')
    BY <1>1, <1>3, <1>4, LogIsReplayed, FirstPage DEF first_delta_page_erased
  <2>2. delta'.page[w].flag = FLAG_DELTA_COMMITTED
    BY <1>4
  <2>3. ASSUME NEW e \in DeltaPages, delta'.page[e].flag = FLAG_DELTA_COMMITTED
        PROVE  e \in WrittenPages \cup {w}
    BY <1>4, <2>3 DEF ErasedPage, FLAG_DELTA_COMMITTED, FLAG_NEITHER, WrittenPages
  <2>4. ASSUME NEW a \in DeltaPages, NEW e \in WrittenPages \cup {w}, Earlier(a, e)
        PROVE  a \in WrittenPages \cup {w}
    <3>1. Earlier(a, w)
      <4>1. CASE e = w
        BY <2>4, <4>1
      <4>2. CASE e \in WrittenPages
        <5>1. Earlier(e, w) /\ e \in DeltaPages
          BY <1>3, <4>2
        <5> HIDE DEF w
        <5>2. /\ a[1] \in Int /\ a[2] \in Int /\ e[1] \in Int /\ e[2] \in Int
              /\ w[1] \in Int /\ w[2] \in Int
          BY SMTT(30), <1>3, <5>1, PageIsPair
        <5> QED
          BY <2>4, <5>1, <5>2 DEF Earlier
      <4> QED
        BY <4>1, <4>2
    <3>2. ~ Earlier(w, a)
      <4> HIDE DEF w
      <4>1. a[1] \in Int /\ a[2] \in Int /\ w[1] \in Int /\ w[2] \in Int
        BY <1>3, PageIsPair
      <4> QED
        BY <3>1, <4>1 DEF Earlier
    <3> QED
      BY <1>3, <3>2
  <2>5. ASSUME NEW a \in DeltaPages
        PROVE  (\E e \in DeltaPages : /\ delta'.page[e].flag = FLAG_DELTA_COMMITTED
                                      /\ a = e \/ Earlier(a, e))
                 <=> a \in WrittenPages \cup {w}
    <3> HIDE DEF w
    <3> QED BY <1>3, <2>2, <2>3, <2>4
  <2> HIDE DEF w
  <2> QED
    BY <1>3, <2>1, <2>5 DEF CommittedPages
<1>12. apply_delta_chkpt(full'.page[c], delta') = l2p
  BY SMTT(30), <1>6, <1>10, <1>11 DEF apply_delta_chkpt
<1>13. LogHoldsL2P'
  <2>1. \A x : Mentions(delta_buf', x) = {}
    BY <1>1 DEF Mentions
  <2> QED
    BY <1>1, <1>2, <1>4, <1>6, <1>10, <2>1 DEF LogHoldsL2P
<1>14. LogIsBounded'
  <2>1. CASE pc' = "fullsync"
    BY <1>1, <1>2, <2>1 DEF LogIsBounded, Logging, AfterCommit
  <2>2. CASE pc' = "idle"
    <3>1. /\ pba_delta' < THRESHOLD_DELTA_WB /\ wcnt' = 0 /\ gcprog' = 0
          /\ THRESHOLD_DELTA_WB \in Nat /\ pba_delta' \in Nat
      BY <1>2, <1>4, <2>2, DeltaRegionHasRoom
    <3>5. pba_delta' * PAGES_PER_BLOCK + ipa_delta' <= THRESHOLD_DELTA_WB * PAGES_PER_BLOCK + 0
      <4>1. ipa_delta' \in Nat /\ ipa_delta' <= PAGES_PER_BLOCK /\ PAGES_PER_BLOCK \in Nat
        BY SMTT(30), <1>4, SizesArePositive
      <4> QED
        BY <3>1, <4>1, BlocksBelow
    <3>6. N_DELTA_PAIR * 0 + Len(delta_buf') = wcnt' + gcprog'
      BY <1>1, <3>1, SizesArePositive
    <3>7. 0 \in 0 .. MAX_WCNT + MAX_GCPROG
      BY SMTT(30), SizesArePositive
    <3> QED
      BY <2>2, <3>5, <3>6, <3>7 DEF LogIsBounded
  <2> QED
    BY <1>2, <2>1, <2>2
<1>15. FullCheckpoints' /\ CommittedFullIsDurable'
  BY SMTT(30), <1>1, <1>2, <1>5, <1>6 DEF FullCheckpoints, CommittedFullIsDurable
<1>16. DeltaIsDurable'
  BY SMTT(30), <1>1, <1>2, <1>4, FirstPage DEF DeltaIsDurable
<1>17. ReplaysOnlyWrittenPages'
  BY SMTT(30), <1>3, <1>4, <1>11 DEF ReplaysOnlyWrittenPages, WrittenPages
<1>18. StableL2P' = l2p /\ StableIsUnique'
  <2>1. \A i \in {0, 1} : commit'[i] => apply_delta_chkpt(full'.page[i], delta') = l2p
    BY <1>1, <1>5, <1>12
  <2> QED
    BY <1>1, <1>5, <2>1, StableNext
<1> QED
  BY <1>7, <1>8, <1>9, <1>13, <1>14, <1>15, <1>16, <1>17, <1>18

\* Starting a flush moves no data.
LEMMA FlushBeginInv ==
  ASSUME ChkptInv, FlushBegin
  PROVE  ChkptInv' /\ StableL2P' = StableL2P
<1> USE DEF ChkptInv
<1>1. /\ pc = "idle" /\ op = "none" /\ pc' = "sync" /\ op' = "flush"
      /\ UNCHANGED <<wcnt, gcprog, l2p, delta_buf, pending, pba_delta, ipa_delta, ptr_full>>
      /\ UNCHANGED <<delta, full, commit>>
  BY DEF FlushBegin, PcMatchesOp, ramVars, flashVars
<1>2. Logging /\ Logging'
  BY <1>1 DEF Logging, Recovering, AfterCommit
<1>3. ChkptTypeOK' /\ PcMatchesOp'
  BY <1>1 DEF ChkptTypeOK, PcMatchesOp, PCs, Ops
<1>4. LogGrows' /\ LogHoldsL2P' /\ LogIsBounded'
  <2>1. WrittenPages' = WrittenPages
    BY <1>1 DEF WrittenPages, Written
  <2>2. LogGrows'
    BY <1>1, <1>2 DEF LogGrows, Written
  <2>3. LogHoldsL2P'
    BY <1>1, <1>2, <2>1 DEF LogHoldsL2P
  <2>4. LogIsBounded'
    BY SMTT(30), <1>1, <1>2 DEF LogIsBounded
  <2> QED
    BY <2>2, <2>3, <2>4
<1>5. FullCheckpoints' /\ CommittedFullIsDurable' /\ DeltaIsDurable' /\ ReplaysOnlyWrittenPages'
  BY <1>1, <1>2
     DEF FullCheckpoints, CommittedFullIsDurable, DeltaIsDurable, ReplaysOnlyWrittenPages, Logging
<1>6. StableL2P' = StableL2P /\ StableIsUnique'
  BY SMTT(30), <1>1, <1>2, StableSame DEF Logging, Recovering
<1> QED
  BY <1>3, <1>4, <1>5, <1>6

\* flash_sync changes no content, so it changes nothing that recovery reads.
LEMMA SyncKeeps ==
  ASSUME ChkptInv, delta' = flash_sync(delta), full' = flash_sync(full), UNCHANGED commit
  PROVE  /\ delta' \in DeltaRegion /\ delta'.page = delta.page
         /\ full' \in FullRegion /\ full'.page = full.page
         /\ \A a \in DeltaPages : delta'.synced[a]
         /\ \A i \in {0, 1} : full'.synced[i]
         /\ \A m : apply_delta_chkpt(m, delta') = apply_delta_chkpt(m, delta)
         /\ \A m, A : Replay(m, delta', A) = Replay(m, delta, A)
         /\ first_delta_page_erased(delta') = first_delta_page_erased(delta)
         /\ CommittedFullIsDurable' /\ ReplaysOnlyWrittenPages'
         /\ StableL2P' = StableL2P
<1> USE DEF ChkptInv
<1>1. /\ delta' \in DeltaRegion /\ delta'.page = delta.page
      /\ \A a \in DeltaPages : delta'.synced[a]
  <2>1. delta \in Region(DeltaPages, DeltaPage) /\ DeltaRegion = Region(DeltaPages, DeltaPage)
    BY DEF ChkptTypeOK, DeltaRegion, Region
  <2> QED
    BY <2>1, SyncRegion
<1>2. /\ full' \in FullRegion /\ full'.page = full.page
      /\ \A i \in {0, 1} : full'.synced[i]
  <2>1. full \in Region({0, 1}, [LSA -> Int]) /\ FullRegion = Region({0, 1}, [LSA -> Int])
    BY DEF ChkptTypeOK, FullRegion, Region
  <2> QED
    BY <2>1, SyncRegion
<1>3. CommittedPages(delta') = CommittedPages(delta)
  BY <1>1, ApplySame
<1>4. \A m : apply_delta_chkpt(m, delta') = apply_delta_chkpt(m, delta)
  BY SMTT(30), <1>1, ApplySame
<1>5. \A m, A : Replay(m, delta', A) = Replay(m, delta, A)
  BY <1>1 DEF Replay, Hits, PagePsa
<1>6. first_delta_page_erased(delta') = first_delta_page_erased(delta)
  BY <1>1 DEF first_delta_page_erased
<1>7. CommittedFullIsDurable'
  BY <1>2 DEF CommittedFullIsDurable
<1>8. ReplaysOnlyWrittenPages'
  BY <1>1, <1>3, CommittedPagesType DEF ReplaysOnlyWrittenPages
<1>9. StableL2P' = StableL2P
  BY SMTT(30), <1>2, <1>4 DEF StableL2P, find_committed_full_chkpt
<1> QED
  BY <1>1, <1>2, <1>4, <1>5, <1>6, <1>7, <1>8, <1>9

\* The synchronisation before the committed page.
LEMMA FlushSyncInv ==
  ASSUME ChkptInv, FlushSync
  PROVE  ChkptInv' /\ StableL2P' = StableL2P
<1> USE DEF ChkptInv
<1>1. /\ pc = "sync" /\ op = "flush" /\ pc' = "commit" /\ op' = "flush"
      /\ delta' = flash_sync(delta) /\ full' = flash_sync(full)
      /\ UNCHANGED <<wcnt, gcprog, l2p, delta_buf, pending, pba_delta, ipa_delta, ptr_full, commit>>
  BY DEF FlushSync, ramVars
<1>2. Logging /\ Logging' /\ ~ AfterCommit' /\ ~ Recovering'
  BY SMTT(30), <1>1 DEF Logging, Recovering, AfterCommit
<1>3. ChkptTypeOK' /\ PcMatchesOp'
  BY <1>1, SyncKeeps DEF ChkptTypeOK, PcMatchesOp, PCs, Ops
<1>4. LogGrows' /\ LogHoldsL2P' /\ LogIsBounded'
  <2>1. WrittenPages' = WrittenPages /\ \A a : Written(a)' = Written(a)
    BY SMTT(30), <1>1 DEF WrittenPages, Written
  <2>2. LogGrows'
    BY SMTT(30), <1>1, <1>2, <2>1, SyncKeeps DEF LogGrows
  <2>3. LogHoldsL2P'
    <3>1. full'.page = full.page /\ \A m, A : Replay(m, delta', A) = Replay(m, delta, A)
      BY SMTT(30), <1>1, SyncKeeps
    <3>2. SUFFICES ASSUME NEW la \in LSA
                   PROVE  l2p[la] = IF Mentions(delta_buf, la) # {} THEN LastPsa(delta_buf, la)
                                    ELSE Replay(full'.page[1 - ptr_full], delta', WrittenPages)[la]
      BY SMTT(30), <1>1, <2>1 DEF LogHoldsL2P
    <3>3. l2p[la] = IF Mentions(delta_buf, la) # {} THEN LastPsa(delta_buf, la)
                    ELSE Replay(full.page[1 - ptr_full], delta, WrittenPages)[la]
      BY <1>1, <1>2 DEF LogHoldsL2P
    <3> QED
      BY SMTT(30), <3>1, <3>3
  <2>4. LogIsBounded'
    BY SMTT(30), <1>1, <1>2 DEF LogIsBounded
  <2> QED
    BY <2>2, <2>3, <2>4
<1>5. FullCheckpoints'
  BY <1>1, SyncKeeps DEF FullCheckpoints
<1>6. DeltaIsDurable'
  BY ZenonT(30), <1>1, <1>2, SyncKeeps, FirstPage DEF DeltaIsDurable
<1>7. StableIsUnique'
  BY <1>1, <1>2, SyncKeeps DEF StableIsUnique, Recovering
<1> QED
  BY <1>1, <1>3, <1>4, <1>5, <1>6, <1>7, SyncKeeps
=============================================================================
