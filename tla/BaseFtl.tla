------------------------------ MODULE BaseFtl ------------------------------
(***************************************************************************)
(* The FTLs that the snapshot-consistent one is compared with: they keep   *)
(* the mapping table in RAM only, so that a restart forgets it, and erase  *)
(* a GC victim at once.  src/ftl-async.c programs pages asynchronously and *)
(* flushes; src/ftl-sync.c programs them synchronously and its flush does  *)
(* nothing (sync).  No read reaches a page from before a restart, so what  *)
(* a power failure spares does not matter: a page is programmed as in      *)
(* DataLog, and a disk operation is one step.  The block list and the      *)
(* merge buffer are those of DataLog; [usable, used) is free, erasable and *)
(* invalid are not used.                                                   *)
(***************************************************************************)
EXTENDS DataLog

CONSTANT GC_PER_WRITE   \* ftl_gc_copy calls after a write: 4 in src/disk.c

ASSUME GcPerWriteAssumption == GC_PER_WRITE \in Nat

VARIABLES
  ftl,    \* l2p, p2l, vcnts, gc, and the data side dlog
  sync    \* which of the two is linked

DataPSA == PBA_DATA * SECTORS_PER_BLOCK .. N_PAS - 1

get_victim_psa(g) == (g.pba * PAGES_PER_BLOCK + g.ipa) * SECTORS_PER_PAGE + g.isa

reach_gc_threshold(f) == n_used_blks(f.dlog) >= THRESHOLD_GC

\* The old physical sector keeps its owner.
Move_KeepsOld(f, lsa, d) ==
  LET s   == persist_merge_buffer_when_full(f.dlog)
      psa == get_active_psa(s)
      old == f.l2p[lsa]
  IN  [f EXCEPT !.dlog = copy_data_to_merge_buf(s, lsa, d),
                !.l2p = [@ EXCEPT ![lsa] = psa],
                !.p2l = [@ EXCEPT ![psa] = lsa],
                !.vcnts = [@ EXCEPT ![PSA_TO_PBA(old)] = (@ - 1) % 65536,
                                    ![PSA_TO_PBA(psa)] = (@ + 1) % 65536]]

\* Sector lsa moves to the write pointer with contents d.
Move(f, lsa, d) ==
  LET s   == persist_merge_buffer_when_full(f.dlog)
      psa == get_active_psa(s)
      old == f.l2p[lsa]
  IN  [f EXCEPT !.dlog = copy_data_to_merge_buf(s, lsa, d),
                !.l2p = [@ EXCEPT ![lsa] = psa],
                !.p2l = [@ EXCEPT ![old] = LSA_INVALID, ![psa] = lsa],
                !.vcnts = [@ EXCEPT ![PSA_TO_PBA(old)] = (@ - 1) % 65536,
                                    ![PSA_TO_PBA(psa)] = (@ + 1) % 65536]]

\* GC still copies the sector that the host has overwritten.
ftl_write_NoGcReset(f, lsa, d) == Move(f, lsa, d)

ftl_write(f, lsa, d) ==
  [Move(f, lsa, d) EXCEPT !.gc.lsa = IF lsa = @ THEN N_LAS ELSE @]

-----------------------------------------------------------------------------
(* ftl_gc_copy *)

GcStart(f) ==
  LET s == swap_victim_block_to_head(f.dlog, f.vcnts)
      g == [isa |-> 0, ipa |-> 0, pba |-> s.blk_list[s.used], enable |-> TRUE, lsa |-> N_LAS]
  IN  [f EXCEPT !.dlog = s, !.gc = [g EXCEPT !.lsa = f.p2l[get_victim_psa(g)]]]

\* make_victim_block_free
FreeVictim(s, pba) ==
  [s EXCEPT !.data = flash_erase(@, BlockPages(pba), ErasedData, FALSE),
            !.used = BLK_LIST_NEXT(@)]

\* After every page.
VictimDone_AfterPage(g) == g.isa + 1 = SECTORS_PER_PAGE

VictimDone(g) == g.isa + 1 = SECTORS_PER_PAGE /\ g.ipa + 1 = PAGES_PER_BLOCK

\* On to the next sector of the victim; behind the last one it is erased.
GcAdvance(f) ==
  LET done == VictimDone(f.gc)
      g    == [f.gc EXCEPT !.isa = (@ + 1) % SECTORS_PER_PAGE,
                           !.ipa = IF done THEN 0
                                   ELSE IF f.gc.isa + 1 = SECTORS_PER_PAGE THEN @ + 1 ELSE @,
                           !.enable = ~ done]
  IN  [f EXCEPT !.gc = [g EXCEPT !.lsa = f.p2l[get_victim_psa(g)]],
                !.dlog = IF done THEN FreeVictim(@, g.pba) ELSE @]

ftl_gc_copy(f) ==
  IF ~ f.gc.enable THEN IF reach_gc_threshold(f) THEN GcStart(f) ELSE f
  ELSE GcAdvance(IF f.gc.lsa = N_LAS THEN f
                 ELSE Move(f, f.gc.lsa, f.dlog.data.page[<<f.gc.pba, f.gc.ipa>>][f.gc.isa]))

-----------------------------------------------------------------------------
(* ftl_recovery and the operations of src/disk.c *)

Unmapped == [lsa \in LSA |-> PSA_INVALID]

\* ftl_recovery in a new process, over the data region that flash holds:
\* "Dont do L2P recovery", and no block is erased.
ftl_recovery(data) ==
  [l2p   |-> Unmapped,
   p2l   |-> [psa \in DataPSA \cup {N_PAS} |-> LSA_INVALID],
   vcnts |-> [b \in DataBlocks \cup {BLOCKS_TOTAL} |->
                IF b = BLOCKS_TOTAL THEN N_LAS % 65536 ELSE 0],
   gc    |-> [isa |-> 0, ipa |-> 0, pba |-> PBA_DATA, enable |-> FALSE, lsa |-> N_LAS],
   dlog  |-> reset_data_pointer(invalidate_merge_buffer(
               reconstruct_block_list(BootLog(data), Unmapped)))]

\* A write beyond the last sector only lets GC run.
disk_write(lsa, d) ==
  LET loop[n \in 0 .. GC_PER_WRITE] ==
        IF n > 0 THEN ftl_gc_copy(loop[n - 1])
        ELSE IF lsa < N_LAS THEN ftl_write(ftl, lsa, d) ELSE ftl
  IN  ftl' = loop[GC_PER_WRITE] /\ UNCHANGED sync

\* The precondition of the flush always holds.
disk_flush ==
  /\ ftl' = IF sync THEN ftl
            ELSE [ftl EXCEPT !.dlog = [persist_merge_buffer_unless_empty(@) EXCEPT
                                         !.data = flash_sync(@)]]
  /\ UNCHANGED sync

Restart ==
  /\ \E data \in flash_crash(ftl.dlog.data, {GarbageData}) : ftl' = ftl_recovery(data)
  /\ UNCHANGED sync

BaseInit == ftl = ftl_recovery(FormattedData) /\ sync \in BOOLEAN

BaseNext ==
  \/ \E lsa \in 0 .. N_LAS, d \in DATA : disk_write(lsa, d)
  \/ disk_flush
  \/ Restart

BaseSpec == BaseInit /\ [][BaseNext]_<<ftl, sync>>

-----------------------------------------------------------------------------
(* Properties *)

View == [lsa \in LSA |-> ftl_read(ftl.dlog, ftl.l2p, lsa)]

\* A read returns the last write since the restart, whatever the merge buffer
\* holds, GC copies, moves and erases, and flushes leave half-filled: a write
\* changes its sector and nothing else, although GC runs before it returns, a
\* flush changes nothing, and a restart forgets everything.
ReadsReturnLastWrite ==
  [][/\ \A lsa \in 0 .. N_LAS, d \in DATA :
          disk_write(lsa, d) => View' = [a \in LSA |-> IF a = lsa THEN d ELSE View[a]]
     /\ disk_flush => View' = View
     /\ Restart => View' = [a \in LSA |-> BLANK]]_<<ftl, sync>>

\* choose_free_block does not look whether a block is free: the ring must never
\* run out of blocks, and a free block holds no sector that l2p refers to.
FreeBlocksAreFree ==
  LET s    == ftl.dlog
      Free == {s.blk_list[(s.usable + k) % BLOCKS_DATA] : k \in 0 .. n_ready_blks(s) - 1}
  IN  /\ {s.blk_list[i] : i \in Ring} = DataBlocks
      /\ s.pba_active \notin Free
      /\ \A lsa \in LSA : PSA_TO_PBA(ftl.l2p[lsa]) \notin Free

\* The tables that ftl_write and ftl_gc_copy maintain by hand agree: p2l and
\* vcnts with l2p, and the sector that GC copies next with its place.
TablesAgree ==
  /\ \A psa \in DataPSA, lsa \in LSA : ftl.p2l[psa] = lsa <=> ftl.l2p[lsa] = psa
  /\ \A b \in DataBlocks : ftl.vcnts[b] = Cardinality({lsa \in LSA : PSA_TO_PBA(ftl.l2p[lsa]) = b})
  /\ ftl.gc.enable /\ ftl.gc.lsa # N_LAS => ftl.l2p[ftl.gc.lsa] = get_victim_psa(ftl.gc)
=============================================================================
