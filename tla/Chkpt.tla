------------------------------- MODULE Chkpt -------------------------------
(***************************************************************************)
(* The checkpoint layer of src/ftl.c: how the logical-to-physical table    *)
(* l2p becomes durable.  Updates of l2p are logged as pairs in delta_buf;  *)
(* a full buffer goes to the delta region as a tentative page, a flush     *)
(* appends a committed page, and when the delta region is almost full the  *)
(* flush replaces the full checkpoint and erases the delta region.         *)
(* Recovery loads the committed full checkpoint, replays the delta pages   *)
(* up to the last committed one and rebuilds both.                         *)
(*                                                                         *)
(* The code is sequential; what interleaves with it is power failure.  A   *)
(* step of the model runs from one synchronous flash operation up to the   *)
(* next one, and Crash may happen in every state.  These are all the crash *)
(* points there are: an asynchronous operation only touches pages that are *)
(* not synced afterwards, so a crash before it leaves nothing that a crash *)
(* after it could not.                                                     *)
(***************************************************************************)
EXTENDS DeltaLog, Flash

CONSTANTS
  PSA,        \* physical sector addresses l2p may hold, N_PAS (unmapped) included
  AnyPage,    \* what a delta page that was not synced may hold after a crash
  AnyTable    \* what a full checkpoint that was not synced may hold after a crash

Table       == [LSA -> PSA]
Pair        == [la : LSA, pa : PSA]
Unmapped    == [la \in LSA |-> PSA_INVALID]
ErasedTable == [la \in LSA |-> -1]

ASSUME CrashContents ==
  /\ PSA \subseteq 0 .. N_PAS
  /\ PSA_INVALID \in PSA
  /\ AnyPage \subseteq DeltaPage
  /\ AnyTable \subseteq [LSA -> Int]

VARIABLES
  pc,          \* the synchronous flash operation that comes next
  op,          \* the FTL operation in progress
  wcnt, gcprog,
  l2p,
  delta_buf,   \* the pairs appended since reset_delta_buf; the rest of the
               \* buffer is padded with LSA_INVALID, which updates nothing
  pending,     \* the pair to append once the tentative page is written
  pba_delta, ipa_delta,
  ptr_full,    \* which of the two full checkpoints the next one replaces
  delta,       \* flash: the delta region
  full,        \* flash: the two full checkpoints
  commit       \* flash: their commit records (all operations on them are
               \* synchronous); TRUE when the record's first word is 0

ramVars   == <<wcnt, gcprog, l2p, delta_buf, pending, pba_delta, ipa_delta, ptr_full>>
flashVars == <<delta, full, commit>>
chkptVars == <<pc, op, ramVars, flashVars>>

NoPair == [la |-> 0, pa |-> PSA_INVALID]

-----------------------------------------------------------------------------
(* What recovery reads *)

\* The first full checkpoint wins when both are committed.
find_committed_full_chkpt == IF commit[0] THEN 0 ELSE 1

\* The table that recovery would rebuild from flash as it is now.
StableL2P == apply_delta_chkpt(full.page[find_committed_full_chkpt], delta)

-----------------------------------------------------------------------------
(* Operations on the checkpoints *)

delta_chkpt_buf_full_OffByOne           == Len(delta_buf) > N_DELTA_PAIR
delta_chkpt_region_almost_full_OffByOne == pba_delta' > THRESHOLD_DELTA_WB

delta_chkpt_buf_full           == Len(delta_buf) = N_DELTA_PAIR
delta_chkpt_region_almost_full == pba_delta' >= THRESHOLD_DELTA_WB
toggle_full_chkpt              == ptr_full' = (ptr_full + 1) % 2

\* The page that the delta pointer moves to before it is programmed.
NextDeltaPage ==
  IF ipa_delta = PAGES_PER_BLOCK THEN <<pba_delta + 1, 0>> ELSE <<pba_delta, ipa_delta>>

create_one_delta_chkpt(flag) ==
  /\ delta' = flash_program(delta, NextDeltaPage, [flag |-> flag, pairs |-> delta_buf], TRUE)
  /\ pba_delta' = NextDeltaPage[1]
  /\ ipa_delta' = NextDeltaPage[2] + 1

\* The table is programmed asynchronously; FullSync and FullCommit complete it.
ProgramFull(f, i) == flash_program(f, i, l2p, FALSE)

\* The commit record goes first, synchronously, then the table.
DeleteFull(f, i) == flash_erase_bulk(f, {i}, ErasedTable)

\* Updating l2p[la] on behalf of o ("write" or "gc"), and logging it.
CountUpdate(o) ==
  /\ wcnt' = IF o = "write" THEN wcnt + 1 ELSE wcnt
  /\ gcprog' = IF o = "gc" THEN gcprog + 1 ELSE gcprog

Remap(o, la, pa) ==
  /\ pc = "idle"
  /\ l2p' = [l2p EXCEPT ![la] = pa]
  /\ IF delta_chkpt_buf_full
       THEN /\ pc' = "delta"
            /\ op' = o
            /\ pending' = [la |-> la, pa |-> pa]
            /\ UNCHANGED <<delta_buf, wcnt, gcprog>>
       ELSE /\ delta_buf' = Append(delta_buf, [la |-> la, pa |-> pa])
            /\ CountUpdate(o)
            /\ UNCHANGED <<pc, op, pending>>
  /\ UNCHANGED <<pba_delta, ipa_delta, ptr_full, flashVars>>

\* create_one_delta_chkpt(TENTATIVE); reset_delta_buf; append_delta_pair
TentativeDelta ==
  /\ pc = "delta"
  /\ create_one_delta_chkpt(FLAG_DELTA_TENTATIVE)
  /\ delta_buf' = <<pending>>
  /\ CountUpdate(op)
  /\ pc' = "idle"
  /\ op' = "none"
  /\ pending' = NoPair
  /\ UNCHANGED <<l2p, ptr_full, full, commit>>

-----------------------------------------------------------------------------
(* ftl_flush *)

FlushBegin ==
  /\ pc = "idle"
  /\ pc' = "sync"
  /\ op' = "flush"
  /\ UNCHANGED <<ramVars, flashVars>>

FlushSync ==
  /\ pc = "sync"
  /\ op = "flush"
  /\ delta' = flash_sync(delta)
  /\ full' = flash_sync(full)
  /\ pc' = "commit"
  /\ UNCHANGED <<op, ramVars, commit>>

\* The operation in progress returns to its caller.
Finish ==
  /\ pc' = "idle"
  /\ op' = "none"
  /\ wcnt' = 0
  /\ gcprog' = 0

\* Without reset_delta_buf.
FlushCommit_NoReset ==
  /\ pc = "commit"
  /\ create_one_delta_chkpt(FLAG_DELTA_COMMITTED)
  /\ IF delta_chkpt_region_almost_full
       THEN /\ full' = ProgramFull(full, ptr_full)
            /\ pc' = "fullsync"
            /\ UNCHANGED <<op, wcnt, gcprog>>
       ELSE /\ Finish
            /\ UNCHANGED full
  /\ UNCHANGED <<delta_buf, l2p, pending, ptr_full, commit>>

FlushCommit ==
  /\ pc = "commit"
  /\ create_one_delta_chkpt(FLAG_DELTA_COMMITTED)
  /\ delta_buf' = <<>>
  /\ IF delta_chkpt_region_almost_full
       THEN /\ full' = ProgramFull(full, ptr_full)
            /\ pc' = "fullsync"
            /\ UNCHANGED <<op, wcnt, gcprog>>
       ELSE /\ Finish
            /\ UNCHANGED full
  /\ UNCHANGED <<l2p, pending, ptr_full, commit>>

-----------------------------------------------------------------------------
(* Replacing the full checkpoint, in ftl_flush and in ftl_recovery *)

\* Committing the full checkpoint without waiting for its pages.
FullSync_NotAwaited ==
  /\ pc = "fullsync"
  /\ pc' = "fullcommit"
  /\ UNCHANGED <<op, ramVars, flashVars>>

FullSync ==
  /\ pc = "fullsync"
  /\ delta' = flash_sync(delta)
  /\ full' = flash_sync(full)
  /\ pc' = "fullcommit"
  /\ UNCHANGED <<op, ramVars, commit>>

FullCommit ==
  /\ pc = "fullcommit"
  /\ commit' = [commit EXCEPT ![ptr_full] = TRUE]
  /\ toggle_full_chkpt
  /\ pc' = "delfull"
  /\ UNCHANGED <<op, wcnt, gcprog, l2p, delta_buf, pending, pba_delta, ipa_delta, delta, full>>

delete_full_chkpt ==
  /\ pc = "delfull"
  /\ commit' = [commit EXCEPT ![ptr_full] = FALSE]
  /\ full' = DeleteFull(full, ptr_full)
  /\ pc' = "deldelta"
  /\ UNCHANGED <<op, ramVars, delta>>

\* Erasing the first block like the others, asynchronously.
EraseDelta_Async ==
  /\ pc = "deldelta"
  /\ delta' = flash_erase_bulk(delta, BulkPages(0, BLOCKS_DELTA), ErasedPage)
  /\ pc' = "deltasync"
  /\ UNCHANGED <<op, ramVars, full, commit>>

\* delete_all_delta_chkpts, up to each of its synchronous operations
EraseDelta ==
  /\ pc = "deldelta"
  /\ delta' = flash_erase_bulk(flash_erase(delta, BlockPages(0), ErasedPage, TRUE),
                               BulkPages(1, BLOCKS_DELTA - 1), ErasedPage)
  /\ pc' = "deltasync"
  /\ UNCHANGED <<op, ramVars, full, commit>>

DeltaSync ==
  /\ pc = "deltasync"
  /\ delta' = flash_sync(delta)
  /\ full' = flash_sync(full)
  /\ pc' = "first"
  /\ UNCHANGED <<op, ramVars, commit>>

\* Leaving the delta pointer on the page just written.
FirstDelta_PointerBehind ==
  /\ pc = "first"
  /\ delta' = flash_program(delta, <<0, 0>>,
                            [flag |-> FLAG_DELTA_COMMITTED, pairs |-> delta_buf], TRUE)
  /\ ipa_delta' = 0
  /\ pba_delta' = 0
  /\ Finish
  /\ UNCHANGED <<l2p, delta_buf, pending, ptr_full, full, commit>>

FirstDelta ==
  /\ pc = "first"
  /\ delta' = flash_program(delta, <<0, 0>>,
                            [flag |-> FLAG_DELTA_COMMITTED, pairs |-> delta_buf], TRUE)
  /\ ipa_delta' = 1
  /\ pba_delta' = 0
  /\ Finish
  /\ UNCHANGED <<l2p, delta_buf, pending, ptr_full, full, commit>>

-----------------------------------------------------------------------------
(* ftl_recovery *)

RecoveryRead ==
  /\ pc = "down"
  /\ l2p' = StableL2P
  /\ ptr_full' = find_committed_full_chkpt
  /\ pc' = "sync"
  /\ op' = "recovery"
  /\ UNCHANGED <<wcnt, gcprog, delta_buf, pending, pba_delta, ipa_delta, flashVars>>

RecoverySync ==
  /\ pc = "sync"
  /\ op = "recovery"
  /\ delta' = flash_sync(delta)
  /\ full' = flash_sync(full)
  /\ delta_buf' = <<>>
  /\ toggle_full_chkpt
  /\ pc' = "delother"
  /\ UNCHANGED <<op, wcnt, gcprog, l2p, pending, pba_delta, ipa_delta, commit>>

\* delete_full_chkpt of the copy not recovered from, then create_full_chkpt
RecoveryReplaceFull ==
  /\ pc = "delother"
  /\ commit' = [commit EXCEPT ![ptr_full] = FALSE]
  /\ full' = ProgramFull(DeleteFull(full, ptr_full), ptr_full)
  /\ pc' = "fullsync"
  /\ UNCHANGED <<op, ramVars, delta>>

-----------------------------------------------------------------------------
(* Power failure: RAM is lost, unsynced pages hold anything. *)

Crash ==
  /\ pc # "down"
  /\ delta' \in flash_crash(delta, AnyPage)
  /\ full' \in flash_crash(full, AnyTable)
  /\ pc' = "down"
  /\ op' = "none"
  /\ wcnt' = 0 /\ gcprog' = 0
  /\ l2p' = Unmapped
  /\ delta_buf' = <<>> /\ pending' = NoPair
  /\ pba_delta' = 0 /\ ipa_delta' = 0 /\ ptr_full' = 0
  /\ UNCHANGED commit

\* ftl_format has written one full checkpoint, everything else is erased.
ChkptInit ==
  /\ pc = "down" /\ op = "none"
  /\ wcnt = 0 /\ gcprog = 0
  /\ l2p = Unmapped
  /\ delta_buf = <<>> /\ pending = NoPair
  /\ pba_delta = 0 /\ ipa_delta = 0 /\ ptr_full = 0
  /\ delta = [page |-> [a \in DeltaPages |-> ErasedPage],
              synced |-> [a \in DeltaPages |-> TRUE]]
  /\ full = [page |-> [i \in {0, 1} |-> IF i = 0 THEN Unmapped ELSE ErasedTable],
             synced |-> [i \in {0, 1} |-> TRUE]]
  /\ commit = [i \in {0, 1} |-> i = 0]

-----------------------------------------------------------------------------
(* The checkpoint layer on its own: the data path is any sequence of       *)
(* updates that ftl_write's and ftl_gc_copy's limits let through.          *)

HostUpdate(la, pa) == wcnt < MAX_WCNT /\ Remap("write", la, pa)
GcUpdate(la, pa)   == gcprog < MAX_GCPROG /\ Remap("gc", la, pa)

ChkptStep ==
  \/ TentativeDelta
  \/ FlushSync \/ FlushCommit
  \/ RecoverySync \/ RecoveryReplaceFull
  \/ FullSync \/ FullCommit \/ delete_full_chkpt
  \/ EraseDelta \/ DeltaSync \/ FirstDelta

ChkptNext ==
  \/ \E la \in LSA, pa \in PSA \ {PSA_INVALID} : HostUpdate(la, pa) \/ GcUpdate(la, pa)
  \/ FlushBegin
  \/ RecoveryRead
  \/ ChkptStep
  \/ Crash

ChkptSpec == ChkptInit /\ [][ChkptNext]_chkptVars

-----------------------------------------------------------------------------
(* Properties *)

PCs == {"idle", "delta", "sync", "commit", "delother", "fullsync", "fullcommit",
        "delfull", "deldelta", "deltasync", "first", "down"}
Ops == {"none", "write", "gc", "flush", "recovery"}

DeltaRegion == [page : [DeltaPages -> DeltaPage], synced : [DeltaPages -> BOOLEAN]]
FullRegion  == [page : [{0, 1} -> [LSA -> Int]], synced : [{0, 1} -> BOOLEAN]]

\* Every variable stays in its C type's range: the counters within their
\* limits, the delta pointer within a block, the tables well formed.
ChkptTypeOK ==
  /\ pc \in PCs
  /\ op \in Ops
  /\ wcnt \in 0 .. MAX_WCNT
  /\ gcprog \in 0 .. MAX_GCPROG
  /\ l2p \in Table
  /\ delta_buf \in Seq(Pair) /\ Len(delta_buf) <= N_DELTA_PAIR
  /\ pending \in Pair
  /\ pba_delta \in Nat
  /\ ipa_delta \in 0 .. PAGES_PER_BLOCK
  /\ ptr_full \in {0, 1}
  /\ delta \in DeltaRegion
  /\ full \in FullRegion
  /\ commit \in [{0, 1} -> BOOLEAN]

\* Between a crash and the end of ftl_recovery the host sees nothing, and what
\* it will see is the stable table; otherwise it sees l2p.
Recovering  == pc = "down" \/ op = "recovery"
VolatileL2P == IF Recovering THEN StableL2P ELSE l2p

\* The updates not yet part of a snapshot: an update in progress counts, and
\* those of a flush stop counting when its committed page is written.
AfterCommit == op = "flush" /\ pc \notin {"sync", "commit"}
UpdatesSinceSnapshot ==
  IF Recovering \/ AfterCommit THEN 0
  ELSE wcnt + gcprog + (IF pc = "delta" THEN 1 ELSE 0)

SnapTable == INSTANCE SnapDisk WITH
  Addr <- LSA, Data <- PSA, Blank <- PSA_INVALID, MAX_WCNT <- MAX_WCNT + MAX_GCPROG,
  vlt <- VolatileL2P, stb <- StableL2P, wcnt <- UpdatesSinceSnapshot

\* Flush, crash and recovery treat the mapping table as one snapshot-consistent
\* object: whatever ftl_flush and ftl_recovery had done when power failed, the
\* table that recovery rebuilds is the one of the last committed flush, entire.
ImplementsSnapTable == SnapTable!spec

\* create_one_delta_chkpt never programs outside the delta region: the
\* threshold test in ftl_flush leaves room for a whole period between flushes.
DeltaPointerInRegion == pc \in {"delta", "commit"} => NextDeltaPage \in DeltaPages

\* Recovery replays no page that is blank or that a crash may have garbled,
\* although it scans the whole delta region for commit flags.
ReplaysOnlyWrittenPages ==
  \A a \in CommittedPages(delta) :
    delta.synced[a] /\ delta.page[a].flag # FLAG_NEITHER

\* At every moment a full checkpoint is committed, and a committed one is
\* durable: the two are switched without a gap.
CommittedFullIsDurable ==
  /\ commit[0] \/ commit[1]
  /\ \A i \in {0, 1} : commit[i] => full.synced[i]

\* Flash discipline: a page of the delta region is programmed only when it is
\* blank and every earlier page of its block is not.
DeltaProgramDiscipline ==
  [][pc' # "down" =>
       \A a \in DeltaPages :
         \/ delta'.page[a] \in {delta.page[a], ErasedPage}
         \/ /\ delta.page[a] = ErasedPage
            /\ \A p \in 0 .. a[2] - 1 : delta.page[<<a[1], p>>] # ErasedPage]_chkptVars

-----------------------------------------------------------------------------
(* The inductive invariant behind these properties.  Between the end of     *)
(* recovery or of a flush and the next commit the delta region is a log     *)
(* that only grows; otherwise the old log and the new full checkpoint both  *)
(* stand for the same table until one of them is gone.                      *)

Logging == ~ Recovering /\ ~ AfterCommit

PcMatchesOp ==
  /\ pc \in {"idle", "down"} => op = "none"
  /\ pc = "delta" => op \in {"write", "gc"}
  /\ pc = "commit" => op = "flush"
  /\ pc = "delother" => op = "recovery"
  /\ pc \in {"sync", "fullsync", "fullcommit", "delfull", "deldelta", "deltasync", "first"}
       => op \in {"flush", "recovery"}

\* The pages before the delta pointer are written, the others are blank.
Written(a)   == a[1] < pba_delta \/ (a[1] = pba_delta /\ a[2] < ipa_delta)
WrittenPages == {a \in DeltaPages : Written(a)}

LogGrows ==
  Logging =>
    /\ ipa_delta >= 1
    /\ \A a \in DeltaPages :
         /\ delta.synced[a]
         /\ IF Written(a) THEN delta.page[a].flag # FLAG_NEITHER
                          ELSE delta.page[a] = ErasedPage

\* Full checkpoint, written pages and buffered pairs add up to l2p.
LogHoldsL2P ==
  Logging =>
    \A la \in LSA :
      l2p[la] = IF pc = "delta" /\ la = pending.la THEN pending.pa
                ELSE IF Mentions(delta_buf, la) # {} THEN LastPsa(delta_buf, la)
                ELSE Replay(full.page[1 - ptr_full], delta, WrittenPages)[la]

\* With t tentative pages since the last flush, the pages of the log and the
\* pairs in it are bounded by the updates counted.
LogIsBounded ==
  /\ Logging =>
       \E t \in 0 .. MAX_WCNT + MAX_GCPROG :
         /\ pba_delta * PAGES_PER_BLOCK + ipa_delta <= THRESHOLD_DELTA_WB * PAGES_PER_BLOCK + t
         /\ N_DELTA_PAIR * t + Len(delta_buf) = wcnt + gcprog
         /\ t > 0 => Len(delta_buf) > 0
  /\ pc = "delta" => /\ Len(delta_buf) = N_DELTA_PAIR
                     /\ op = "write" => wcnt < MAX_WCNT
                     /\ op = "gc" => gcprog < MAX_GCPROG

\* Which full checkpoint is committed, and which one holds l2p.
FullCheckpoints ==
  /\ pc \in {"idle", "delta", "commit", "fullsync", "fullcommit", "deldelta", "deltasync", "first"}
       \/ (pc = "sync" /\ op = "flush")
       => commit[1 - ptr_full] /\ ~ commit[ptr_full]
  /\ pc \in {"delother", "delfull"} => commit[1 - ptr_full]
  /\ pc = "sync" /\ op = "recovery" => commit[ptr_full]
  /\ pc \in {"fullsync", "fullcommit"} => full.page[ptr_full] = l2p
  /\ pc = "fullcommit" => full.synced[ptr_full]
  /\ pc \in {"delfull", "deldelta", "deltasync", "first"} => full.page[1 - ptr_full] = l2p

\* A crash spares the pages that recovery replays.
DeltaIsDurable ==
  /\ delta.synced[<<0, 0>>]
  /\ first_delta_page_erased(delta) \/ \A a \in DeltaPages : delta.synced[a]
  /\ pc = "deltasync" => \A a \in DeltaPages : delta.page[a] = ErasedPage
  /\ pc = "first" => \A a \in DeltaPages : delta.page[a] = ErasedPage /\ delta.synced[a]
  /\ AfterCommit \/ pc \in {"delother", "fullsync", "fullcommit", "delfull",
                           "deldelta", "deltasync", "first"} => delta_buf = <<>>

\* Every committed full checkpoint replays to the same table.
StableIsUnique ==
  /\ StableL2P \in Table
  /\ \A i \in {0, 1} : commit[i] => apply_delta_chkpt(full.page[i], delta) = StableL2P
  /\ AfterCommit \/ op = "recovery" => l2p = StableL2P

\* The snapshot survives whatever happens next: the invariant from which the
\* crash consistency of ftl_flush and ftl_recovery follows.
ChkptInv ==
  /\ ChkptTypeOK /\ PcMatchesOp
  /\ LogGrows /\ LogHoldsL2P /\ LogIsBounded
  /\ FullCheckpoints /\ CommittedFullIsDurable
  /\ DeltaIsDurable /\ ReplaysOnlyWrittenPages
  /\ StableIsUnique
=============================================================================
