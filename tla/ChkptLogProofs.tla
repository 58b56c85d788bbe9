--------------------------- MODULE ChkptLogProofs ---------------------------
(***************************************************************************)
(* The delta region as a log: what the flash operations do to a region,    *)
(* what recovery would read, why the next delta page is always free, and   *)
(* why the steps that only append to the log preserve ChkptInv.            *)
(***************************************************************************)
EXTENDS Chkpt, DeltaLogProofs, SequenceTheorems

-----------------------------------------------------------------------------
(* What the flash operations do to a region *)

Region(D, C) == [page : [D -> C], synced : [D -> BOOLEAN]]

\* Clearing some of the values of a Boolean function.
LEMMA BooleanUpdate ==
  ASSUME NEW D, NEW A, NEW f \in [D -> BOOLEAN]
  PROVE  [a \in D |-> IF a \in A THEN FALSE ELSE f[a]] \in [D -> BOOLEAN]
OBVIOUS

\* flash_sync keeps the contents and makes every page durable.
LEMMA SyncRegion ==
  ASSUME NEW D, NEW C, NEW r \in Region(D, C),
         NEW s, s = flash_sync(r)
  PROVE  /\ s \in Region(D, C)
         /\ s.page = r.page
         /\ \A a \in D : s.synced[a]
BY DEF flash_sync, Region

\* flash_crash keeps the pages that were synced.
LEMMA CrashRegion ==
  ASSUME NEW D, NEW C, NEW r \in Region(D, C),
         NEW Any \in SUBSET C, NEW s \in flash_crash(r, Any)
  PROVE  /\ s \in Region(D, C)
         /\ s.synced = r.synced
         /\ \A a \in D : r.synced[a] => s.page[a] = r.page[a]
<1> DEFINE lost == {a \in DOMAIN r.page : ~ r.synced[a]}
<1>1. PICK g \in [lost -> Any] :
        s = [r EXCEPT !.page = [a \in DOMAIN r.page |-> IF a \in lost THEN g[a] ELSE r.page[a]]]
  BY DEF flash_crash
<1>2. DOMAIN r.page = D
  BY DEF Region
<1>3. \A a \in D : (IF a \in lost THEN g[a] ELSE r.page[a]) \in C
  BY <1>2 DEF Region
<1>4. /\ s.page = [a \in D |-> IF a \in lost THEN g[a] ELSE r.page[a]]
      /\ s.synced = r.synced
      /\ s = [page |-> s.page, synced |-> s.synced]
  BY <1>1, <1>2 DEF Region
<1>5. s.page \in [D -> C]
  <2> HIDE DEF lost
  <2> QED BY <1>3, <1>4
<1> QED
  BY <1>4, <1>5 DEF Region

-----------------------------------------------------------------------------
(* What recovery would read *)

\* The delta region has a first page, the one first_delta_page_erased looks at.
LEMMA FirstPage == <<0, 0>> \in DeltaPages
BY SizesArePositive DEF DeltaPages, Pages

\* l2p is what a full checkpoint page can hold.
LEMMA TableIsIntegral ==
  ASSUME NEW t \in Table
  PROVE  t \in [LSA -> Int]
<1>1. \A x \in PSA : x \in Int
  BY CrashContents
<1> QED
  BY <1>1 DEF Table

\* find_last_committed_delta_chkpt stays inside the delta region.
LEMMA CommittedPagesType ==
  ASSUME NEW d
  PROVE  CommittedPages(d) \in SUBSET DeltaPages
BY DEF CommittedPages

\* Recovery reads the same from two regions with the same pages.
LEMMA ApplySame ==
  ASSUME NEW m, NEW d, NEW e, \A a \in DeltaPages : d.page[a] = e.page[a]
  PROVE  /\ CommittedPages(d) = CommittedPages(e)
         /\ apply_delta_chkpt(m, d) = apply_delta_chkpt(m, e)
<1>1. first_delta_page_erased(d) = first_delta_page_erased(e)
  BY FirstPage DEF first_delta_page_erased
<1>2. CommittedPages(d) = CommittedPages(e)
  BY <1>1 DEF CommittedPages
<1> QED
  BY <1>2, CommittedPagesType, ReplayLocal DEF apply_delta_chkpt

\* When the first delta page is erased the full checkpoint stands alone.
LEMMA ApplyErased ==
  ASSUME NEW S, NEW m \in [LSA -> S], NEW d, first_delta_page_erased(d)
  PROVE  /\ CommittedPages(d) = {}
         /\ apply_delta_chkpt(m, d) = m
BY ReplayNothing DEF CommittedPages, apply_delta_chkpt

\* When every committed full checkpoint replays to t, recovery rebuilds t.
LEMMA StableNext ==
  ASSUME NEW t \in Table, commit'[0] \/ commit'[1],
         \A i \in {0, 1} : commit'[i] => apply_delta_chkpt(full'.page[i], delta') = t,
         (AfterCommit \/ op = "recovery")' => l2p' = t
  PROVE  StableL2P' = t /\ StableIsUnique'
<1>1. StableL2P' = t
  BY DEF StableL2P, find_committed_full_chkpt
<1> QED
  BY <1>1 DEF StableIsUnique

\* Steps that leave flash alone.
LEMMA StableSame ==
  ASSUME StableIsUnique, CommittedFullIsDurable, UNCHANGED <<delta, full, commit>>,
         (AfterCommit \/ op = "recovery")' => l2p' = StableL2P
  PROVE  StableL2P' = StableL2P /\ StableIsUnique'
BY StableNext DEF StableIsUnique, CommittedFullIsDurable

-----------------------------------------------------------------------------
(* Room in the delta region *)

\* Comparing block counts by comparing page counts.
LEMMA TimesMonotonic ==
  ASSUME NEW a \in Int, NEW b \in Int, NEW n \in Nat \ {0}, a * n < b * n
  PROVE  a < b
<1> SUFFICES ASSUME a >= b PROVE FALSE
  OBVIOUS
<1>1. a - b \in Nat /\ (a - b) * n >= 0
  OBVIOUS
<1>2. (a - b) * n = a * n - b * n
  OBVIOUS
<1> QED
  BY <1>1, <1>2

\* A page of a block below t comes before the pages of block t.
LEMMA BlocksBelow ==
  ASSUME NEW b \in Nat, NEW p \in Nat, NEW t \in Nat, NEW n \in Nat, b < t, p <= n
  PROVE  b * n + p <= t * n + 0
<1>1. t - 1 - b \in Nat
  OBVIOUS
<1>2. (t - 1 - b) * n \in Nat
  BY <1>1
<1>3. (t - 1 - b) * n = t * n - n - b * n
  OBVIOUS
<1> QED
  BY <1>2, <1>3

\* How many full buffers n pairs can fill.
LEMMA AtMostQuotient ==
  ASSUME NEW n \in Nat, NEW k \in Nat \ {0}, NEW t \in Nat, k * t <= n
  PROVE  t <= n \div k
<1> DEFINE q == n \div k
<1>1. q \in Int /\ n < k * (q + 1)
  OBVIOUS
<1> HIDE DEF q
<1>2. t * k < (q + 1) * k
  BY <1>1
<1>3. t < q + 1
  BY <1>1, <1>2, TimesMonotonic
<1> QED
  BY <1>1, <1>3 DEF q

\* The next delta page is in the region, is blank and follows the written ones.
LEMMA NextPageIsFree ==
  ASSUME ChkptInv, pc \in {"delta", "commit"}
  PROVE  /\ NextDeltaPage \in DeltaPages
         /\ delta.page[NextDeltaPage] = ErasedPage
         /\ NextDeltaPage # <<0, 0>>
         /\ NextDeltaPage \notin WrittenPages
         /\ \A a \in WrittenPages : Earlier(a, NextDeltaPage)
         /\ \A a \in DeltaPages : a \in WrittenPages \/ a = NextDeltaPage \/ Earlier(NextDeltaPage, a)
<1> DEFINE M == MAX_WCNT + MAX_GCPROG
           room == (BLOCKS_DELTA - THRESHOLD_DELTA_WB) * PAGES_PER_BLOCK
           q == (M - 1) \div N_DELTA_PAIR
<1> USE SizesArePositive DEF ChkptInv
<1>1. Logging
  BY DEF PcMatchesOp, Logging, Recovering, AfterCommit
<1>2. PICK t \in 0 .. M :
          /\ pba_delta * PAGES_PER_BLOCK + ipa_delta <= THRESHOLD_DELTA_WB * PAGES_PER_BLOCK + t
          /\ N_DELTA_PAIR * t + Len(delta_buf) = wcnt + gcprog
          /\ t > 0 => Len(delta_buf) > 0
  BY <1>1 DEF LogIsBounded
<1>3. /\ THRESHOLD_DELTA_WB \in Nat /\ M - 1 \in Nat /\ wcnt + gcprog <= M
      /\ q + 1 <= room
      /\ Len(delta_buf) \in Nat /\ wcnt \in Nat /\ gcprog \in Nat
      /\ pba_delta \in Nat /\ ipa_delta \in 1 .. PAGES_PER_BLOCK
  BY <1>1, DeltaRegionHasRoom DEF ChkptTypeOK, LogGrows
<1>4. t <= q
  <2>1. CASE t = 0
    BY <1>3, <2>1, AtMostQuotient
  <2>2. CASE t > 0
    <3>1. N_DELTA_PAIR * t <= M - 1
      BY <1>2, <1>3, <2>2
    <3> QED
      BY <1>3, <3>1, AtMostQuotient
  <2> QED
    BY <2>1, <2>2
<1>5. pba_delta * PAGES_PER_BLOCK + ipa_delta < BLOCKS_DELTA * PAGES_PER_BLOCK
  <2>1. room = BLOCKS_DELTA * PAGES_PER_BLOCK - THRESHOLD_DELTA_WB * PAGES_PER_BLOCK
    BY <1>3
  <2>2. q \in Int /\ room \in Int /\ t \in Int
    BY <1>3
  <2>3. t + 1 <= room
    <3> HIDE DEF room, M, q
    <3> QED BY <1>3, <1>4, <2>2
  <2> QED
    BY <1>2, <1>3, <2>1, <2>3
<1>6. NextDeltaPage \in DeltaPages
  <2>1. CASE ipa_delta = PAGES_PER_BLOCK
    <3>1. (pba_delta + 1) * PAGES_PER_BLOCK < BLOCKS_DELTA * PAGES_PER_BLOCK
      BY <1>3, <1>5, <2>1
    <3>2. pba_delta + 1 < BLOCKS_DELTA
      BY <1>3, <3>1, TimesMonotonic
    <3> QED
      BY <1>3, <2>1, <3>2 DEF NextDeltaPage, DeltaPages, Pages
  <2>2. CASE ipa_delta # PAGES_PER_BLOCK
    <3>1. pba_delta * PAGES_PER_BLOCK < BLOCKS_DELTA * PAGES_PER_BLOCK
      BY <1>3, <1>5
    <3>2. pba_delta < BLOCKS_DELTA
      BY <1>3, <3>1, TimesMonotonic
    <3> QED
      BY <1>3, <2>2, <3>2 DEF NextDeltaPage, DeltaPages, Pages
  <2> QED
    BY <2>1, <2>2
<1>7. ~ Written(NextDeltaPage) /\ NextDeltaPage # <<0, 0>>
  BY <1>3 DEF NextDeltaPage, Written
<1>8. ASSUME NEW a \in DeltaPages
      PROVE  /\ Written(a) => Earlier(a, NextDeltaPage)
             /\ Written(a) \/ a = NextDeltaPage \/ Earlier(NextDeltaPage, a)
  <2>1. PICK b \in 0 .. BLOCKS_DELTA - 1, p \in 0 .. PAGES_PER_BLOCK - 1 : a = <<b, p>>
    BY DEF DeltaPages, Pages
  <2>2. CASE ipa_delta = PAGES_PER_BLOCK
    <3>1. NextDeltaPage = <<pba_delta + 1, 0>>
      BY <2>2 DEF NextDeltaPage
    <3> QED
      BY <1>3, <2>1, <2>2, <3>1 DEF Written, Earlier
  <2>3. CASE ipa_delta # PAGES_PER_BLOCK
    <3>1. NextDeltaPage = <<pba_delta, ipa_delta>>
      BY <2>3 DEF NextDeltaPage
    <3> QED
      BY <1>3, <2>1, <2>3, <3>1 DEF Written, Earlier
  <2> QED
    BY <2>2, <2>3
<1>9. delta.page[NextDeltaPage] = ErasedPage
  BY <1>1, <1>6, <1>7 DEF LogGrows
<1> QED
  BY <1>6, <1>7, <1>8, <1>9 DEF WrittenPages

-----------------------------------------------------------------------------
(* Appending a page to the log *)

\* delta_buf with a flag is a delta page.
LEMMA BufferIsPage ==
  ASSUME ChkptTypeOK, NEW flag \in Flags
  PROVE  [flag |-> flag, pairs |-> delta_buf] \in DeltaPage
<1>1. \A x \in LSA : x \in Int
  BY DEF LSA
<1>2. \A x \in PSA : x \in Int
  BY CrashContents
<1>3. Pair \subseteq [la : Int, pa : Int]
  BY <1>1, <1>2 DEF Pair
<1>4. delta_buf \in Seq([la : Int, pa : Int])
  BY <1>3, SeqMonotonic DEF ChkptTypeOK
<1> QED
  BY <1>4 DEF DeltaPage

\* create_one_delta_chkpt extends the written pages by one.
LEMMA PageAppended ==
  ASSUME ChkptInv, pc \in {"delta", "commit"},
         NEW flag \in {FLAG_DELTA_COMMITTED, FLAG_DELTA_TENTATIVE},
         create_one_delta_chkpt(flag)
  PROVE  /\ delta' \in DeltaRegion
         /\ pba_delta' \in Nat /\ ipa_delta' \in 1 .. PAGES_PER_BLOCK
         /\ pba_delta' * PAGES_PER_BLOCK + ipa_delta'
              = pba_delta * PAGES_PER_BLOCK + ipa_delta + 1
         /\ delta'.page[NextDeltaPage] = [flag |-> flag, pairs |-> delta_buf]
         /\ \A a \in DeltaPages \ {NextDeltaPage} : delta'.page[a] = delta.page[a]
         /\ \A a \in DeltaPages : delta'.synced[a]
         /\ WrittenPages' = WrittenPages \cup {NextDeltaPage}
         /\ \A a \in DeltaPages : IF Written(a)' THEN delta'.page[a].flag # FLAG_NEITHER
                                               ELSE delta'.page[a] = ErasedPage
<1> USE SizesArePositive DEF ChkptInv
<1>1. Logging
  BY DEF PcMatchesOp, Logging, Recovering, AfterCommit
<1>2. pba_delta \in Nat /\ ipa_delta \in 1 .. PAGES_PER_BLOCK /\ delta \in DeltaRegion
  BY <1>1 DEF ChkptTypeOK, LogGrows
<1>3. flag \in Flags /\ flag # FLAG_NEITHER
  BY DEF Flags, FLAG_DELTA_COMMITTED, FLAG_DELTA_TENTATIVE, FLAG_NEITHER
<1>4. [flag |-> flag, pairs |-> delta_buf] \in DeltaPage
  BY <1>3, BufferIsPage
<1>5. NextDeltaPage \in DeltaPages
  BY NextPageIsFree
<1>6. /\ delta' \in DeltaRegion
      /\ delta'.page[NextDeltaPage] = [flag |-> flag, pairs |-> delta_buf]
      /\ delta'.synced[NextDeltaPage]
      /\ \A a \in DeltaPages \ {NextDeltaPage} :
            delta'.page[a] = delta.page[a] /\ delta'.synced[a] = delta.synced[a]
  <2> DEFINE c == [flag |-> flag, pairs |-> delta_buf]
  <2>1. delta' = flash_program(delta, NextDeltaPage, c, TRUE)
    BY DEF create_one_delta_chkpt
  <2> HIDE DEF c
  <2>2. c \in DeltaPage
    BY <1>4 DEF c
  <2>3. /\ delta' \in DeltaRegion
        /\ delta'.page[NextDeltaPage] = c /\ delta'.synced[NextDeltaPage]
        /\ \A a \in DeltaPages \ {NextDeltaPage} :
              delta'.page[a] = delta.page[a] /\ delta'.synced[a] = delta.synced[a]
    BY <1>2, <1>5, <2>1, <2>2 DEF DeltaRegion, flash_program
  <2> QED
    BY <2>3 DEF c
<1>7. \A a \in DeltaPages : delta'.synced[a]
  BY <1>1, <1>6 DEF LogGrows
<1>8. /\ pba_delta' \in Nat /\ ipa_delta' \in 1 .. PAGES_PER_BLOCK
      /\ pba_delta' * PAGES_PER_BLOCK + ipa_delta'
           = pba_delta * PAGES_PER_BLOCK + ipa_delta + 1
  <2>1. CASE ipa_delta = PAGES_PER_BLOCK
    <3>1. pba_delta' = pba_delta + 1 /\ ipa_delta' = 1
      BY <2>1 DEF create_one_delta_chkpt, NextDeltaPage
    <3> QED
      BY <1>2, <2>1, <3>1
  <2>2. CASE ipa_delta # PAGES_PER_BLOCK
    <3>1. pba_delta' = pba_delta /\ ipa_delta' = ipa_delta + 1
      BY <2>2 DEF create_one_delta_chkpt, NextDeltaPage
    <3> QED
      BY <1>2, <2>2, <3>1
  <2> QED
    BY <2>1, <2>2
<1>9. ASSUME NEW a \in DeltaPages
      PROVE  Written(a)' <=> (Written(a) \/ a = NextDeltaPage)
  <2>1. PICK b \in 0 .. BLOCKS_DELTA - 1, p \in 0 .. PAGES_PER_BLOCK - 1 : a = <<b, p>>
    BY DEF DeltaPages, Pages
  <2>2. CASE ipa_delta = PAGES_PER_BLOCK
    <3>1. NextDeltaPage = <<pba_delta + 1, 0>> /\ pba_delta' = pba_delta + 1 /\ ipa_delta' = 1
      BY <2>2 DEF create_one_delta_chkpt, NextDeltaPage
    <3> QED
      BY <1>2, <2>1, <2>2, <3>1 DEF Written
  <2>3. CASE ipa_delta # PAGES_PER_BLOCK
    <3>1. /\ NextDeltaPage = <<pba_delta, ipa_delta>>
          /\ pba_delta' = pba_delta /\ ipa_delta' = ipa_delta + 1
      BY <2>3 DEF create_one_delta_chkpt, NextDeltaPage
    <3> QED
      BY <1>2, <2>1, <2>3, <3>1 DEF Written
  <2> QED
    BY <2>2, <2>3
<1>10. WrittenPages' = WrittenPages \cup {NextDeltaPage}
  BY <1>5, <1>9 DEF WrittenPages
<1>11. ASSUME NEW a \in DeltaPages
       PROVE  IF Written(a)' THEN delta'.page[a].flag # FLAG_NEITHER
                             ELSE delta'.page[a] = ErasedPage
  <2>1. CASE a = NextDeltaPage
    BY SMTT(30), <1>3, <1>6, <1>9, <2>1
  <2>2. CASE a # NextDeltaPage
    BY <1>1, <1>6, <1>9, <2>2 DEF LogGrows
  <2> QED
    BY <2>1, <2>2
<1> QED
  BY <1>6, <1>7, <1>8, <1>10, <1>11

\* While the log grows recovery replays only written pages, and at least one.
LEMMA LogIsReplayed ==
  ASSUME ChkptInv, Logging
  PROVE  /\ ~ first_delta_page_erased(delta)
         /\ CommittedPages(delta) \in SUBSET WrittenPages
         /\ WrittenPages \in SUBSET DeltaPages
<1> USE SizesArePositive DEF ChkptInv
<1>1. pba_delta \in Nat /\ ipa_delta \in 1 .. PAGES_PER_BLOCK
  BY DEF ChkptTypeOK, LogGrows
<1>2. Written(<<0, 0>>)
  BY <1>1 DEF Written
<1>3. delta.page[<<0, 0>>].flag \in Flags
  BY FirstPage DEF ChkptTypeOK, DeltaRegion, DeltaPage
<1>4. ~ first_delta_page_erased(delta)
  BY <1>2, <1>3, FirstPage DEF LogGrows, first_delta_page_erased, Flags
<1>5. ASSUME NEW c \in DeltaPages, delta.page[c].flag = FLAG_DELTA_COMMITTED
      PROVE  Written(c)
  BY <1>5 DEF LogGrows, ErasedPage, FLAG_DELTA_COMMITTED, FLAG_NEITHER
<1>6. ASSUME NEW a \in DeltaPages, NEW c \in DeltaPages, Written(c), Earlier(a, c)
      PROVE  Written(a)
  <2>1. PICK b \in 0 .. BLOCKS_DELTA - 1, p \in 0 .. PAGES_PER_BLOCK - 1 : a = <<b, p>>
    BY DEF DeltaPages, Pages
  <2>2. PICK e \in 0 .. BLOCKS_DELTA - 1, q \in 0 .. PAGES_PER_BLOCK - 1 : c = <<e, q>>
    BY DEF DeltaPages, Pages
  <2> QED
    BY <1>1, <1>6, <2>1, <2>2 DEF Written, Earlier
<1> QED
  BY <1>4, <1>5, <1>6 DEF CommittedPages, WrittenPages

-----------------------------------------------------------------------------
(* ChkptInv is inductive: one lemma for each action *)

\* append_delta_pair keeps the log in step with l2p, in ftl_write and ftl_gc_copy.
LEMMA RemapInv ==
  ASSUME ChkptInv, NEW o \in {"write", "gc"}, NEW la \in LSA, NEW pa \in PSA,
         Remap(o, la, pa), o = "write" => wcnt < MAX_WCNT, o = "gc" => gcprog < MAX_GCPROG
  PROVE  ChkptInv'
<1> DEFINE pair == [la |-> la, pa |-> pa]
<1> USE DEF ChkptInv
<1>1. pc = "idle" /\ Logging /\ op = "none" /\ pair \in Pair
  BY DEF Remap, Logging, Recovering, AfterCommit, PcMatchesOp, Pair
<1>2. /\ l2p' = [l2p EXCEPT ![la] = pa]
      /\ UNCHANGED <<pba_delta, ipa_delta, ptr_full, delta, full, commit>>
  BY DEF Remap, flashVars
<1>3. \/ /\ delta_chkpt_buf_full
         /\ pc' = "delta" /\ op' = o /\ pending' = pair
         /\ UNCHANGED <<delta_buf, wcnt, gcprog>>
      \/ /\ ~ delta_chkpt_buf_full
         /\ delta_buf' = Append(delta_buf, pair)
         /\ CountUpdate(o)
         /\ UNCHANGED <<pc, op, pending>>
  BY DEF Remap
<1>4. ChkptTypeOK'
  <2>1. l2p' \in Table
    BY <1>2 DEF ChkptTypeOK, Table
  <2>2. CASE delta_chkpt_buf_full
    BY <1>1, <1>2, <1>3, <2>1, <2>2 DEF ChkptTypeOK, PCs, Ops
  <2>3. CASE ~ delta_chkpt_buf_full
    <3>1. delta_buf' \in Seq(Pair) /\ Len(delta_buf') <= N_DELTA_PAIR
      BY <1>1, <1>3, <2>3, SizesArePositive DEF ChkptTypeOK, delta_chkpt_buf_full
    <3>2. wcnt' \in 0 .. MAX_WCNT /\ gcprog' \in 0 .. MAX_GCPROG
      BY <1>3, <2>3, SizesArePositive DEF ChkptTypeOK, CountUpdate
    <3> QED
      BY <1>2, <1>3, <2>1, <2>3, <3>1, <3>2 DEF ChkptTypeOK
  <2> QED
    BY <2>2, <2>3
<1>5. PcMatchesOp'
  BY <1>1, <1>3 DEF PcMatchesOp
<1>6. Logging'
  BY <1>1, <1>3 DEF Logging, Recovering, AfterCommit
<1>7. LogGrows'
  BY SMTT(30), <1>1, <1>2 DEF LogGrows, Written
<1>8. LogHoldsL2P'
  <2> SUFFICES ASSUME NEW x \in LSA
               PROVE  l2p'[x] = IF pc' = "delta" /\ x = pending'.la THEN pending'.pa
                                ELSE IF Mentions(delta_buf', x) # {} THEN LastPsa(delta_buf', x)
                                ELSE Replay(full.page[1 - ptr_full], delta, WrittenPages)[x]
    BY ZenonT(30), <1>2 DEF LogHoldsL2P, WrittenPages, Written
  <2>1. l2p[x] = IF Mentions(delta_buf, x) # {} THEN LastPsa(delta_buf, x)
                 ELSE Replay(full.page[1 - ptr_full], delta, WrittenPages)[x]
    BY <1>1 DEF LogHoldsL2P
  <2>2. l2p'[x] = IF x = la THEN pa ELSE l2p[x]
    BY <1>2 DEF ChkptTypeOK, Table
  <2>3. CASE delta_chkpt_buf_full
    <3>1. pc' = "delta" /\ pending'.la = la /\ pending'.pa = pa /\ delta_buf' = delta_buf
      BY SMTT(30), <1>3, <2>3
    <3>2. CASE x = la
      BY SMTT(30), <2>2, <3>1, <3>2
    <3>3. CASE x # la
      BY <2>1, <2>2, <3>1, <3>3
    <3> QED
      BY <3>2, <3>3
  <2>4. CASE ~ delta_chkpt_buf_full
    <3>1. delta_buf' = Append(delta_buf, pair) /\ pc' = "idle" /\ pair.la = la /\ pair.pa = pa
      BY <1>1, <1>3, <2>4
    <3>2. delta_buf \in Seq(Pair)
      BY SMTT(30) DEF ChkptTypeOK
    <3> HIDE DEF pair
    <3>3. CASE x = la
      BY SMTT(30), <1>1, <2>2, <3>1, <3>2, <3>3, AppendedPairWins
    <3>4. CASE x # la
      BY <1>1, <2>1, <2>2, <3>1, <3>2, <3>4, AppendedPairKeepsOthers
    <3> QED
      BY <3>3, <3>4
  <2> QED
    BY SMTT(30), <2>3, <2>4
<1>9. LogIsBounded'
  <2>1. PICK t \in 0 .. MAX_WCNT + MAX_GCPROG :
          /\ pba_delta * PAGES_PER_BLOCK + ipa_delta <= THRESHOLD_DELTA_WB * PAGES_PER_BLOCK + t
          /\ N_DELTA_PAIR * t + Len(delta_buf) = wcnt + gcprog
          /\ t > 0 => Len(delta_buf) > 0
    BY <1>1 DEF LogIsBounded
  <2>2. CASE delta_chkpt_buf_full
    BY <1>1, <1>2, <1>3, <2>1, <2>2 DEF LogIsBounded, delta_chkpt_buf_full
  <2>3. CASE ~ delta_chkpt_buf_full
    <3>1. Len(delta_buf') = Len(delta_buf) + 1 /\ Len(delta_buf) \in Nat /\ pc' # "delta"
      BY <1>1, <1>3, <2>3 DEF ChkptTypeOK
    <3>2. wcnt' + gcprog' = wcnt + gcprog + 1
      BY <1>3, <2>3 DEF CountUpdate, ChkptTypeOK
    <3>3. N_DELTA_PAIR * t \in Int /\ wcnt \in Int /\ gcprog \in Int
      BY SizesArePositive DEF ChkptTypeOK
    <3>4. N_DELTA_PAIR * t + Len(delta_buf') = wcnt' + gcprog'
      BY SMTT(30), <2>1, <3>1, <3>2, <3>3
    <3> QED
      BY <1>2, <2>1, <3>1, <3>4 DEF LogIsBounded
  <2> QED
    BY <2>2, <2>3
<1>10. FullCheckpoints' /\ CommittedFullIsDurable'
  BY SMTT(30), <1>1, <1>2, <1>3 DEF FullCheckpoints, CommittedFullIsDurable
<1>11. DeltaIsDurable' /\ ReplaysOnlyWrittenPages'
  BY <1>1, <1>2, <1>3, <1>6 DEF DeltaIsDurable, ReplaysOnlyWrittenPages, Logging
<1>12. StableIsUnique'
  BY <1>2, <1>3, <1>1, <1>6, StableSame DEF Logging, Recovering
<1> QED
  BY <1>4, <1>5, <1>7, <1>8, <1>9, <1>10, <1>11, <1>12

\* A tentative page extends the log; recovery does not replay it yet.
LEMMA TentativeDeltaInv ==
  ASSUME ChkptInv, TentativeDelta
  PROVE  ChkptInv' /\ StableL2P' = StableL2P
<1> USE DEF ChkptInv
<1>1. /\ pc = "delta" /\ Logging /\ op \in {"write", "gc"}
      /\ create_one_delta_chkpt(FLAG_DELTA_TENTATIVE)
      /\ delta_buf' = <<pending>> /\ CountUpdate(op)
      /\ pc' = "idle" /\ op' = "none" /\ pending' = NoPair
      /\ UNCHANGED <<l2p, ptr_full, full, commit>>
  BY DEF TentativeDelta, PcMatchesOp, Logging, Recovering, AfterCommit
<1> DEFINE w == NextDeltaPage
<1>2. w \in DeltaPages /\ w \notin WrittenPages /\ \A a \in WrittenPages : Earlier(a, w)
  BY SMTT(30), <1>1, NextPageIsFree
<1>3. /\ delta' \in DeltaRegion
      /\ pba_delta' \in Nat /\ ipa_delta' \in 1 .. PAGES_PER_BLOCK
      /\ pba_delta' * PAGES_PER_BLOCK + ipa_delta'
           = pba_delta * PAGES_PER_BLOCK + ipa_delta + 1
      /\ delta'.page[w] = [flag |-> FLAG_DELTA_TENTATIVE, pairs |-> delta_buf]
      /\ \A a \in DeltaPages \ {w} : delta'.page[a] = delta.page[a]
      /\ \A a \in DeltaPages : delta'.synced[a]
      /\ WrittenPages' = WrittenPages \cup {w}
      /\ \A a \in DeltaPages : IF Written(a)' THEN delta'.page[a].flag # FLAG_NEITHER
                                            ELSE delta'.page[a] = ErasedPage
  BY <1>1, PageAppended
<1>4. Logging'
  BY <1>1 DEF Logging, Recovering, AfterCommit
<1>5. pending \in Pair /\ delta_buf \in Seq(Pair)
  BY SMTT(30) DEF ChkptTypeOK
<1>6. ChkptTypeOK'
  <2>1. wcnt' \in 0 .. MAX_WCNT /\ gcprog' \in 0 .. MAX_GCPROG
    BY <1>1, SizesArePositive DEF ChkptTypeOK, CountUpdate, LogIsBounded
  <2>2. delta_buf' \in Seq(Pair) /\ Len(delta_buf') <= N_DELTA_PAIR
    BY <1>1, <1>5, SizesArePositive
  <2>3. NoPair \in Pair
    BY CrashContents, SizesArePositive DEF NoPair, Pair, LSA
  <2>4. ipa_delta' \in 0 .. PAGES_PER_BLOCK
    BY <1>3, SizesArePositive
  <2> QED
    BY <1>1, <1>3, <2>1, <2>2, <2>3, <2>4 DEF ChkptTypeOK, PCs, Ops
<1>7. PcMatchesOp'
  BY SMTT(30), <1>1 DEF PcMatchesOp
<1>8. LogGrows'
  BY SMTT(30), <1>3 DEF LogGrows
<1>9. LogHoldsL2P'
  <2> DEFINE m == full.page[1 - ptr_full]
  <2> SUFFICES ASSUME NEW x \in LSA
               PROVE  l2p[x] = IF Mentions(<<pending>>, x) # {} THEN LastPsa(<<pending>>, x)
                               ELSE Replay(m, delta', WrittenPages \cup {w})[x]
    BY ZenonT(30), <1>1, <1>3 DEF LogHoldsL2P
  <2>1. l2p[x] = IF x = pending.la THEN pending.pa
                 ELSE IF Mentions(delta_buf, x) # {} THEN LastPsa(delta_buf, x)
                 ELSE Replay(m, delta, WrittenPages)[x]
    BY ZenonT(30), <1>1 DEF LogHoldsL2P
  <2> HIDE DEF m, w
  <2>2. CASE x = pending.la
    <3>1. <<pending>> = Append(<< >>, pending) /\ << >> \in Seq(Pair)
      BY <1>5
    <3>2. Mentions(<<pending>>, x) # {} /\ LastPsa(<<pending>>, x) = pending.pa
      BY <1>5, <2>2, <3>1, AppendedPairWins
    <3> QED
      BY <2>1, <2>2, <3>2
  <2>3. CASE x # pending.la
    <3>1. Mentions(<<pending>>, x) = {}
      BY SMTT(30), <2>3 DEF Mentions
    <3>2. Replay(m, delta', WrittenPages \cup {w})[x]
            = IF Mentions(delta_buf, x) = {} THEN Replay(m, delta', WrittenPages)[x]
              ELSE LastPsa(delta_buf, x)
      <4>1. delta'.page[w].pairs = delta_buf
        BY <1>3
      <4>2. WrittenPages \in SUBSET DeltaPages
        BY <1>1, LogIsReplayed
      <4>3. Replay(m, delta', WrittenPages \cup {w})[x]
              = IF Mentions(delta'.page[w].pairs, x) = {} THEN Replay(m, delta', WrittenPages)[x]
                ELSE LastPsa(delta'.page[w].pairs, x)
        BY <1>2, <4>2, ReplayAppend
      <4> QED
        BY SMTT(30), <4>1, <4>3
    <3>3. Replay(m, delta', WrittenPages) = Replay(m, delta, WrittenPages)
      <4>1. WrittenPages \in SUBSET DeltaPages
        BY <1>1, LogIsReplayed
      <4>2. \A a \in WrittenPages : delta'.page[a] = delta.page[a]
        BY <1>2, <1>3, <4>1
      <4> QED
        BY <4>1, <4>2, ReplayLocal
    <3> QED
      BY <2>1, <2>3, <3>1, <3>2, <3>3
  <2> QED
    BY <2>2, <2>3
<1>10. LogIsBounded'
  <2>1. PICK t \in 0 .. MAX_WCNT + MAX_GCPROG :
          /\ pba_delta * PAGES_PER_BLOCK + ipa_delta <= THRESHOLD_DELTA_WB * PAGES_PER_BLOCK + t
          /\ N_DELTA_PAIR * t + Len(delta_buf) = wcnt + gcprog
          /\ t > 0 => Len(delta_buf) > 0
    BY <1>1 DEF LogIsBounded
  <2>2. Len(delta_buf) = N_DELTA_PAIR /\ Len(delta_buf') = 1
    BY <1>1 DEF LogIsBounded
  <2>3. wcnt' + gcprog' = wcnt + gcprog + 1
    BY <1>1 DEF CountUpdate, ChkptTypeOK
  <2>4. /\ N_DELTA_PAIR * (t + 1) = N_DELTA_PAIR * t + N_DELTA_PAIR
        /\ N_DELTA_PAIR * (t + 1) \in Nat /\ N_DELTA_PAIR * t >= t
    BY SizesArePositive
  <2>5. N_DELTA_PAIR * (t + 1) + Len(delta_buf') = wcnt' + gcprog'
    BY <2>1, <2>2, <2>3, <2>4, SizesArePositive DEF ChkptTypeOK
  <2>6. t + 1 \in 0 .. MAX_WCNT + MAX_GCPROG
    BY SMTT(30), <1>6, <2>1, <2>2, <2>3, <2>4, <2>5, SizesArePositive DEF ChkptTypeOK
  <2>7. pba_delta' * PAGES_PER_BLOCK + ipa_delta'
          <= THRESHOLD_DELTA_WB * PAGES_PER_BLOCK + (t + 1)
    <3>1. /\ pba_delta * PAGES_PER_BLOCK + ipa_delta \in Int
          /\ THRESHOLD_DELTA_WB * PAGES_PER_BLOCK \in Int
      BY SMTT(30), SizesArePositive, DeltaRegionHasRoom DEF ChkptTypeOK
    <3> QED
      BY <1>3, <2>1, <3>1
  <2> QED
    BY <1>1, <2>2, <2>5, <2>6, <2>7 DEF LogIsBounded
<1>11. FullCheckpoints' /\ CommittedFullIsDurable'
  BY <1>1 DEF FullCheckpoints, CommittedFullIsDurable
<1>12. CommittedPages(delta') = CommittedPages(delta)
  <2>1. ~ first_delta_page_erased(delta) /\ ~ first_delta_page_erased(delta')
    BY SMTT(30), <1>1, <1>2, <1>3, NextPageIsFree, LogIsReplayed, FirstPage DEF first_delta_page_erased
  <2>2. \A c \in DeltaPages : delta'.page[c].flag = FLAG_DELTA_COMMITTED
                                <=> delta.page[c].flag = FLAG_DELTA_COMMITTED
    BY SMTT(30), <1>1, <1>3, NextPageIsFree
       DEF ErasedPage, FLAG_DELTA_TENTATIVE, FLAG_DELTA_COMMITTED, FLAG_NEITHER
  <2> QED
    BY SMTT(30), <2>1, <2>2 DEF CommittedPages
<1>13. \A a \in CommittedPages(delta) : delta'.page[a] = delta.page[a] /\ a \in DeltaPages
  BY <1>1, <1>2, <1>3, LogIsReplayed
<1>14. DeltaIsDurable' /\ ReplaysOnlyWrittenPages'
  <2>1. ReplaysOnlyWrittenPages'
    BY <1>3, <1>12, <1>13 DEF ReplaysOnlyWrittenPages
  <2>2. DeltaIsDurable'
    BY ZenonT(30), <1>1, <1>3, <1>4, FirstPage DEF DeltaIsDurable, Logging
  <2> QED
    BY SMTT(30), <2>1, <2>2
<1>15. StableL2P' = StableL2P /\ StableIsUnique'
  <2>1. \A m : apply_delta_chkpt(m, delta') = apply_delta_chkpt(m, delta)
    BY <1>12, <1>13, CommittedPagesType, ReplayLocal DEF apply_delta_chkpt
  <2> QED
    BY <1>1, <1>4, <2>1, StableNext
       DEF StableIsUnique, CommittedFullIsDurable, Logging, Recovering
<1> QED
  BY <1>6, <1>7, <1>8, <1>9, <1>10, <1>11, <1>14, <1>15
=============================================================================
