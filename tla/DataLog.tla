------------------------------ MODULE DataLog ------------------------------
(***************************************************************************)
(* The data side of src/ftl.c: the circular block list, the merge buffer   *)
(* that collects sectors into a page, and the data region of flash.  The   *)
(* C functions change these globals one after the other, so each is an     *)
(* operator on the record of the globals it works on:                      *)
(*   blk_list, usable, erasable, invalid, used, active   the block list    *)
(*   pba_active, ipa_active, isa_active                  the write pointer *)
(*   lsas_merge, buf_merge                               the merge buffer  *)
(*   data                                                the data region   *)
(* The block list is a ring of the data blocks, cut by its five pointers:  *)
(*   [usable, erasable)  erased, ready to be written                       *)
(*   [erasable, invalid) unused since the last flush, may be erased        *)
(*   [invalid, used)     unused since after the last flush                 *)
(*   [used, active)      full of data                                      *)
(*   [active, usable)    being written                                     *)
(***************************************************************************)
EXTENDS FtlBase, Flash

CONSTANTS
  DATA,      \* what the host may write in a sector
  BLANK,     \* what the host reads from a sector it never wrote
  ERASED,    \* a sector of an erased page
  GARBAGE    \* a sector lost in a crash, or left over in the merge buffer

Slots    == 0 .. SECTORS_PER_PAGE - 1
Ring     == 0 .. BLOCKS_DATA - 1
Sector   == DATA \cup {BLANK, ERASED, GARBAGE}

BlankPage   == [i \in Slots |-> BLANK]
ErasedData  == [i \in Slots |-> ERASED]
GarbageData == [i \in Slots |-> GARBAGE]

\* Pages of data blocks, and the page that ftl_format fills for unmapped sectors.
DataPages == (DataBlocks \X Pages) \cup {<<BLOCKS_TOTAL, 0>>}

BLK_LIST_NEXT(ptr) == IF ptr = BLOCKS_DATA - 1 THEN 0 ELSE ptr + 1
RingDistance(from, to) == IF from <= to THEN to - from ELSE to + BLOCKS_DATA - from

-----------------------------------------------------------------------------
(* Block management *)

choose_free_block(s) ==
  [s EXCEPT !.pba_active = s.blk_list[s.usable],
            !.active = s.usable,
            !.usable = BLK_LIST_NEXT(s.usable)]

make_all_invalid_blocks_erasable(s) == [s EXCEPT !.invalid = s.used]

\* Freeing a block without erasing it.
make_one_erasable_block_free_NotErased(s) == [s EXCEPT !.erasable = BLK_LIST_NEXT(s.erasable)]

make_one_erasable_block_free(s) ==
  [s EXCEPT !.data = flash_erase(s.data, BlockPages(s.blk_list[s.erasable]), ErasedData, FALSE),
            !.erasable = BLK_LIST_NEXT(s.erasable)]

free_blklist_empty(s)     == s.usable = s.erasable
erasable_blklist_empty(s) == s.erasable = s.invalid

make_one_erasable_block_free_when_free_blklist_empty(s) ==
  IF free_blklist_empty(s) THEN make_one_erasable_block_free(s) ELSE s

make_one_erasable_block_unless_erasable_blklist_empty(s) ==
  IF erasable_blklist_empty(s) THEN s ELSE make_one_erasable_block_free(s)

make_victim_block_invalid(s) == [s EXCEPT !.used = BLK_LIST_NEXT(s.used)]

\* Blocks that will be available before the next flush commits.
n_ready_blks(s) == RingDistance(s.usable, s.used)
n_used_blks(s)  == RingDistance(s.used, s.active)

\* Half of the swap.
swap_victim_block_to_head_Half(s, vcnts) ==
  LET K == {(s.used + k) % BLOCKS_DATA : k \in 0 .. n_used_blks(s) - 1}
      v == CHOOSE i \in K : \A j \in K : vcnts[s.blk_list[i]] <= vcnts[s.blk_list[j]]
  IN  [s EXCEPT !.blk_list = [@ EXCEPT ![s.used] = s.blk_list[v]]]

\* The first used block with the fewest valid sectors goes to the head of the
\* used blocks.
swap_victim_block_to_head(s, vcnts) ==
  LET At(k)  == (s.used + k) % BLOCKS_DATA
      Cnt(k) == vcnts[s.blk_list[At(k)]]
      K      == 0 .. n_used_blks(s) - 1
      v      == At(CHOOSE k \in K : /\ \A j \in K : Cnt(k) <= Cnt(j)
                                    /\ \A j \in 0 .. k - 1 : Cnt(k) < Cnt(j))
  IN  [s EXCEPT !.blk_list = [@ EXCEPT ![v] = s.blk_list[s.used],
                                       ![s.used] = s.blk_list[v]]]

\* Used blocks are swapped to the front, in the order of their numbers.
categorize_used_and_erasable_blocks(list0, is_used) ==
  LET loop[n \in 0 .. BLOCKS_DATA] ==
        IF n = 0 THEN [list |-> list0, erasable |-> 0]
        ELSE LET p     == loop[n - 1]
                 idx   == n - 1
                 blkid == PBA_DATA + idx
             IN  IF blkid \in is_used
                 THEN [list |-> [p.list EXCEPT ![idx] = p.list[p.erasable],
                                               ![p.erasable] = blkid],
                       erasable |-> p.erasable + 1]
                 ELSE [p EXCEPT !.list = [@ EXCEPT ![idx] = blkid]]
  IN  loop[BLOCKS_DATA]

identify_used_blocks(l2p) == {PSA_TO_PBA(l2p[la]) : la \in LSA}

reconstruct_block_list(s, l2p) ==
  LET c == categorize_used_and_erasable_blocks(s.blk_list, identify_used_blocks(l2p))
  IN  [s EXCEPT !.invalid = 0, !.used = 0, !.blk_list = c.list,
                !.erasable = c.erasable, !.usable = c.erasable]

-----------------------------------------------------------------------------
(* Merge buffer *)

\* The data stays in buf_merge but no slot refers to it: modelled as GARBAGE.
invalidate_merge_buffer(s) ==
  [s EXCEPT !.lsas_merge = [i \in Slots |-> LSA_INVALID],
            !.buf_merge = GarbageData,
            !.isa_active = 0]

\* Without advancing the write pointer.
persist_merge_buffer_NoAdvance(s) ==
  [invalidate_merge_buffer(s) EXCEPT
     !.data = flash_program(s.data, <<s.pba_active, s.ipa_active>>, s.buf_merge, FALSE)]

persist_merge_buffer(s) ==
  LET t == [invalidate_merge_buffer(s) EXCEPT
              !.data = flash_program(s.data, <<s.pba_active, s.ipa_active>>, s.buf_merge, FALSE),
              !.ipa_active = s.ipa_active + 1]
  IN  IF t.ipa_active = PAGES_PER_BLOCK
      THEN choose_free_block([t EXCEPT !.ipa_active = 0])
      ELSE t

merge_buf_full(s)  == s.isa_active = SECTORS_PER_PAGE
merge_buf_empty(s) == s.isa_active = 0

persist_merge_buffer_when_full(s) ==
  IF merge_buf_full(s) THEN persist_merge_buffer(s) ELSE s

\* A half-filled page stays in RAM.
persist_merge_buffer_unless_empty_WhenFull(s) ==
  IF merge_buf_full(s) THEN persist_merge_buffer(s) ELSE s

persist_merge_buffer_unless_empty(s) ==
  IF merge_buf_empty(s) THEN s ELSE persist_merge_buffer(s)

copy_data_to_merge_buf(s, lsa, d) ==
  [s EXCEPT !.buf_merge[s.isa_active] = d,
            !.lsas_merge[s.isa_active] = lsa,
            !.isa_active = @ + 1]

get_active_psa(s) ==
  (s.pba_active * PAGES_PER_BLOCK + s.ipa_active) * SECTORS_PER_PAGE + s.isa_active

ReadSector(s, psa) == s.data.page[<<PSA_TO_PBA(psa), PSA_TO_IPA(psa)>>][PSA_TO_ISA(psa)]

\* The older of two buffered versions.
ftl_read_OldestFirst(s, l2p, lsa) ==
  IF lsa = s.lsas_merge[0] THEN s.buf_merge[0]
  ELSE IF lsa = s.lsas_merge[1] THEN s.buf_merge[1]
  ELSE ReadSector(s, l2p[lsa])

ftl_read(s, l2p, lsa) ==
  IF lsa = s.lsas_merge[1] THEN s.buf_merge[1]
  ELSE IF lsa = s.lsas_merge[0] THEN s.buf_merge[0]
  ELSE ReadSector(s, l2p[lsa])

reset_data_pointer(s) == choose_free_block([s EXCEPT !.ipa_active = 0])

\* The data side of ftl_recovery once l2p is rebuilt.
RecoverLog(s, l2p) ==
  reset_data_pointer(
    invalidate_merge_buffer(make_one_erasable_block_free(reconstruct_block_list(s, l2p))))

\* The globals at power-up, over the data region that flash holds.
BootLog(data) ==
  [blk_list |-> [i \in Ring |-> 0],
   usable |-> 0, erasable |-> 0, invalid |-> 0, used |-> 0, active |-> 0,
   pba_active |-> 0, ipa_active |-> 0, isa_active |-> 0,
   lsas_merge |-> [i \in Slots |-> LSA_INVALID], buf_merge |-> GarbageData,
   data |-> data]

FormattedData ==
  [page |-> [a \in DataPages |-> IF a[1] = BLOCKS_TOTAL THEN BlankPage ELSE ErasedData],
   synced |-> [a \in DataPages |-> TRUE]]
=============================================================================
