-------------------------------- MODULE Ftl --------------------------------
(***************************************************************************)
(* The whole translation layer of src/ftl.c: the checkpoint layer of Chkpt *)
(* with the data path of DataLog, the reverse map p2l, the counts of valid *)
(* sectors and garbage collection.  Every action is a step of Chkpt joined *)
(* with what the same stretch of code does to the other globals.           *)
(***************************************************************************)
EXTENDS Chkpt, DataLog

VARIABLES
  dlog,     \* block list, write pointer, merge buffer and data region
  p2l, vcnts,
  gc        \* isa_gc, ipa_gc, pba_gc, lsa_gc and enable_gc

dataVars == <<dlog, p2l, vcnts, gc>>
ftlVars  == <<chkptVars, dataVars>>

DataPSA     == PBA_DATA * SECTORS_PER_BLOCK .. N_PAS - 1
NoVictim    == [isa |-> 0, ipa |-> 0, pba |-> PBA_DATA, lsa |-> N_LAS, enable |-> FALSE]
NoSectors   == [psa \in DataPSA \cup {N_PAS} |-> LSA_INVALID]
NoValid     == [b \in DataBlocks \cup {BLOCKS_TOTAL} |-> 0]

get_victim_psa(g) == (g.pba * PAGES_PER_BLOCK + g.ipa) * SECTORS_PER_PAGE + g.isa

ftl_flush_precond_holds_Dropped == TRUE
reach_gc_threshold_OffByOne     == n_used_blks(dlog) > THRESHOLD_GC

ftl_flush_precond_holds == n_ready_blks(dlog) >= MIN_READY
reach_gc_threshold      == n_used_blks(dlog) >= THRESHOLD_GC

-----------------------------------------------------------------------------
(* ftl_write and ftl_gc_copy *)

\* The old physical sector keeps its owner.
MoveP2L_KeepsOld(lsa, psa) == p2l' = [p2l EXCEPT ![psa] = lsa]

\* Sector lsa moves from l2p[lsa] to psa; vcnts are 16 bits wide.
MoveP2L(lsa, psa) ==
  p2l' = [p2l EXCEPT ![l2p[lsa]] = LSA_INVALID, ![psa] = lsa]

MoveVcnts(lsa, psa) ==
  vcnts' = [vcnts EXCEPT ![PSA_TO_PBA(l2p[lsa])] = (@ - 1) % 65536,
                         ![PSA_TO_PBA(psa)] = (@ + 1) % 65536]

\* Room for one more sector at the write pointer.
MakeRoom(s) ==
  persist_merge_buffer_when_full(make_one_erasable_block_free_when_free_blklist_empty(s))

\* Without resetting lsa_gc when GC is at the sector just overwritten.
ftl_write_NoGcReset(lsa, d) ==
  LET s   == MakeRoom(dlog)
      psa == get_active_psa(s)
  IN  /\ lsa < N_LAS
      /\ HostUpdate(lsa, psa)
      /\ dlog' = copy_data_to_merge_buf(s, lsa, d)
      /\ MoveP2L(lsa, psa)
      /\ MoveVcnts(lsa, psa)
      /\ UNCHANGED gc

ftl_write(lsa, d) ==
  LET s   == MakeRoom(dlog)
      psa == get_active_psa(s)
  IN  /\ lsa < N_LAS
      /\ HostUpdate(lsa, psa)
      /\ dlog' = copy_data_to_merge_buf(s, lsa, d)
      /\ MoveP2L(lsa, psa)
      /\ MoveVcnts(lsa, psa)
      /\ gc' = [gc EXCEPT !.lsa = IF lsa = @ THEN N_LAS ELSE @]

\* The GC pointer moves to the next sector of the victim; behind the last one
\* the victim becomes invalid.
NextIpa(g)   == IF g.isa + 1 = SECTORS_PER_PAGE THEN g.ipa + 1 ELSE g.ipa
VictimDone(g) == NextIpa(g) = PAGES_PER_BLOCK

AdvanceGc(s) ==
  LET g == [gc EXCEPT !.isa = (@ + 1) % SECTORS_PER_PAGE,
                      !.ipa = IF VictimDone(gc) THEN 0 ELSE NextIpa(gc),
                      !.enable = ~ VictimDone(gc)]
  IN  /\ gc' = [g EXCEPT !.lsa = p2l'[get_victim_psa(g)]]
      /\ dlog' = IF VictimDone(gc) THEN make_victim_block_invalid(s) ELSE s

GcStart ==
  /\ pc = "idle"
  /\ ~ gc.enable
  /\ reach_gc_threshold
  /\ LET s == swap_victim_block_to_head(dlog, vcnts)
         g == [NoVictim EXCEPT !.pba = s.blk_list[s.used], !.enable = TRUE]
     IN  /\ dlog' = s
         /\ gc' = [g EXCEPT !.lsa = p2l[get_victim_psa(g)]]
  /\ UNCHANGED <<chkptVars, p2l, vcnts>>

\* The victim's sector is read before a block may be erased to make room.
GcCopy ==
  LET d   == dlog.data.page[<<gc.pba, gc.ipa>>][gc.isa]
      s   == MakeRoom(dlog)
      psa == get_active_psa(s)
      t   == copy_data_to_merge_buf(s, gc.lsa, d)
  IN  /\ gc.enable
      /\ gc.lsa < N_LAS
      /\ GcUpdate(gc.lsa, psa)
      /\ MoveP2L(gc.lsa, psa)
      /\ MoveVcnts(gc.lsa, psa)
      /\ IF pc' = "delta" THEN dlog' = t /\ UNCHANGED gc
                          ELSE AdvanceGc(t)

GcSkip ==
  /\ pc = "idle"
  /\ gc.enable
  /\ gcprog < MAX_GCPROG
  /\ gc.lsa = N_LAS
  /\ UNCHANGED <<chkptVars, p2l, vcnts>>
  /\ AdvanceGc(dlog)

ftl_gc_copy == GcStart \/ GcCopy \/ GcSkip

\* The rest of ftl_write or ftl_gc_copy after the tentative page is written.
FinishUpdate ==
  /\ TentativeDelta
  /\ UNCHANGED <<p2l, vcnts>>
  /\ IF op = "gc" THEN AdvanceGc(dlog) ELSE UNCHANGED <<dlog, gc>>

ftl_gc_erase ==
  /\ pc = "idle"
  /\ ~ erasable_blklist_empty(dlog)
  /\ dlog' = make_one_erasable_block_unless_erasable_blklist_empty(dlog)
  /\ UNCHANGED <<chkptVars, p2l, vcnts, gc>>

-----------------------------------------------------------------------------
(* ftl_flush: disk_flush calls it only when its precondition holds *)

ftl_flush ==
  /\ ftl_flush_precond_holds
  /\ FlushBegin
  /\ dlog' = persist_merge_buffer_unless_empty(
               make_one_erasable_block_free_when_free_blklist_empty(dlog))
  /\ UNCHANGED <<p2l, vcnts, gc>>

\* flash_sync makes every region durable.
SyncAll ==
  /\ FlushSync \/ RecoverySync \/ FullSync \/ DeltaSync
  /\ dlog' = [dlog EXCEPT !.data = flash_sync(@)]
  /\ UNCHANGED <<p2l, vcnts, gc>>

\* The end of ftl_flush, from wherever it comes.
FlushDone ==
  /\ op = "flush"
  /\ FlushCommit \/ FirstDelta
  /\ dlog' = IF pc' = "idle" THEN make_all_invalid_blocks_erasable(dlog) ELSE dlog
  /\ UNCHANGED <<p2l, vcnts, gc>>

CheckpointOnly ==
  /\ RecoveryRead \/ RecoveryReplaceFull \/ FullCommit \/ delete_full_chkpt \/ EraseDelta
  /\ UNCHANGED dataVars

-----------------------------------------------------------------------------
(* The end of ftl_recovery *)

remap_valid_sectors(p, m) ==
  [psa \in DOMAIN p |-> IF psa < N_PAS /\ \E la \in LSA : m[la] = psa
                        THEN Max({la \in LSA : m[la] = psa}) ELSE p[psa]]

reconstruct_p2l(m) == remap_valid_sectors(NoSectors, m)

\* vcnts[BLOCKS_TOTAL], the count of unmapped sectors, is not reset first.
reconstruct_vcnts(m) ==
  [b \in DOMAIN vcnts |-> ((IF b = BLOCKS_TOTAL THEN vcnts[b] ELSE 0)
                              + Cardinality({la \in LSA : PSA_TO_PBA(m[la]) = b})) % 65536]

\* The checks at the end of recovery, which only record their outcome.
check_sufficient_avail_blocks(m) ==
  Cardinality(identify_used_blocks(m) \ {BLOCKS_TOTAL}) <= BLOCKS_DATA - MIN_READY
check_l2p_injective(m) ==
  \A x, y \in LSA : m[x] = m[y] /\ m[x] # PSA_INVALID => x = y

RecoveryDone ==
  /\ op = "recovery"
  /\ FirstDelta
  /\ p2l' = reconstruct_p2l(l2p)
  /\ vcnts' = reconstruct_vcnts(l2p)
  /\ dlog' = RecoverLog(dlog, l2p)
  /\ gc' = NoVictim

PowerFailure ==
  /\ Crash
  /\ \E data \in flash_crash(dlog.data, {GarbageData}) : dlog' = BootLog(data)
  /\ p2l' = NoSectors
  /\ vcnts' = NoValid
  /\ gc' = NoVictim

FtlInit ==
  /\ ChkptInit
  /\ dlog = BootLog(FormattedData)
  /\ p2l = NoSectors
  /\ vcnts = NoValid
  /\ gc = NoVictim

FtlStep == FinishUpdate \/ SyncAll \/ FlushDone \/ CheckpointOnly \/ RecoveryDone

FtlNext ==
  \/ \E lsa \in LSA, d \in DATA : ftl_write(lsa, d)
  \/ ftl_gc_copy
  \/ ftl_gc_erase
  \/ ftl_flush
  \/ FtlStep
  \/ PowerFailure

FtlSpec == FtlInit /\ [][FtlNext]_ftlVars

-----------------------------------------------------------------------------
(* Properties *)

HostWrites ==
  IF Recovering \/ AfterCommit THEN 0
  ELSE wcnt + (IF pc = "delta" /\ op = "write" THEN 1 ELSE 0)

StableData   == LET m == StableL2P IN [lsa \in LSA |-> ReadSector(dlog, m[lsa])]
VolatileData == IF Recovering THEN StableData
                ELSE [lsa \in LSA |-> ftl_read(dlog, l2p, lsa)]

Snap == INSTANCE SnapDisk WITH
  Addr <- LSA, Data <- DATA, Blank <- BLANK,
  vlt <- VolatileData, stb <- StableData, wcnt <- HostWrites

\* The FTL is the snapshot-consistent disk: what the host reads is what it
\* wrote last, ftl_flush makes all of it stable in one step, a power failure
\* anywhere brings back the last snapshot, and GC is invisible.
ImplementsSnapDisk == Snap!spec

\* Recovery's own checks (check_sufficient_avail_blocks, check_l2p_injective)
\* would succeed from every state: the blocks that the snapshot refers to leave
\* MIN_READY blocks available, and no two sectors share a physical sector.
SnapshotIsRecoverable ==
  check_sufficient_avail_blocks(StableL2P) /\ check_l2p_injective(StableL2P)

\* The block list stays a permutation of the data blocks, and its pointers
\* stay in ring order: no list overruns the next one.  In particular the
\* MIN_READY blocks that ftl_flush asks for last until the next flush, so that
\* make_one_erasable_block_free, which does not look at invalid, never erases a
\* block that became unused after the last flush.
BlockListWellFormed ==
  ~ Recovering =>
    /\ {dlog.blk_list[i] : i \in Ring} = DataBlocks
    /\ RingDistance(dlog.active, dlog.usable) = 1
    /\ RingDistance(dlog.usable, dlog.erasable) <= RingDistance(dlog.usable, dlog.invalid)
    /\ RingDistance(dlog.usable, dlog.invalid) <= RingDistance(dlog.usable, dlog.used)
    /\ RingDistance(dlog.usable, dlog.used) + RingDistance(dlog.used, dlog.active)
         = BLOCKS_DATA - 1

\* Outside recovery the reverse map and the counts of valid sectors, which
\* ftl_write, ftl_gc_copy and recovery maintain each in its own way, agree
\* with l2p.
TablesAgree ==
  ~ Recovering =>
    /\ \A psa \in DataPSA :
         p2l[psa] = (IF \E la \in LSA : l2p[la] = psa
                     THEN CHOOSE la \in LSA : l2p[la] = psa ELSE LSA_INVALID)
    /\ \A b \in DataBlocks : vcnts[b] = Cardinality({la \in LSA : PSA_TO_PBA(l2p[la]) = b})

\* The sector that GC is about to copy is the current one: an overwrite by the
\* host in between resets lsa_gc.
GcCopiesCurrentSector ==
  pc = "idle" /\ gc.enable /\ gc.lsa # N_LAS => l2p[gc.lsa] = get_victim_psa(gc)

\* Flash discipline: a data page is programmed only when it is erased and the
\* pages before it in its block are not.
DataProgramDiscipline ==
  [][pc' # "down" =>
       \A a \in DataBlocks \X Pages :
         LET before == dlog.data.page
             after  == dlog'.data.page
         IN  \/ after[a] \in {before[a], ErasedData}
             \/ /\ before[a] = ErasedData
                /\ \A p \in 0 .. a[2] - 1 : before[<<a[1], p>>] # ErasedData]_ftlVars
=============================================================================
