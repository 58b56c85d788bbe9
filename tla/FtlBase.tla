------------------------------ MODULE FtlBase ------------------------------
(***************************************************************************)
(* Parameters, block layout and address arithmetic of the flash            *)
(* translation layer (src/ftl.c:6-50).  Every other FTL module extends     *)
(* this one, so a single set of CONSTANTS describes an instance.           *)
(***************************************************************************)
EXTENDS Integers, Sequences, FiniteSets

CONSTANTS
  BLOCKS_DELTA,     \* blocks of the delta checkpoint region
  BLOCKS_DATA,      \* blocks of the data region
  PAGES_PER_BLOCK,
  N_LAS,            \* number of logical sectors
  N_DELTA_PAIR,     \* mapping updates a delta checkpoint page holds
  MAX_WCNT,         \* host writes accepted between two flushes
  MAX_GCPROG,       \* sectors GC may copy between two flushes
  THRESHOLD_GC,     \* used blocks at which GC starts
  MIN_READY         \* ready blocks a flush needs (36 in the code)

BLOCKS_FULL       == 1
SECTORS_PER_PAGE  == 2
SECTORS_PER_BLOCK == PAGES_PER_BLOCK * SECTORS_PER_PAGE
BLOCKS_TOTAL      == BLOCKS_DELTA + (2 * (BLOCKS_FULL + 1)) + BLOCKS_DATA
N_PAS             == BLOCKS_TOTAL * PAGES_PER_BLOCK * SECTORS_PER_PAGE
PBA_DATA          == BLOCKS_DELTA + (2 * (BLOCKS_FULL + 1))
LSA_INVALID       == N_LAS
PSA_INVALID       == N_PAS

\* The delta block from which on a flush replaces the full checkpoint.
THRESHOLD_DELTA_WB ==
  BLOCKS_DELTA - (MAX_WCNT \div (N_DELTA_PAIR * PAGES_PER_BLOCK) + 2)

\* Logical sectors, pages of a block, data blocks.
LSA        == 0 .. N_LAS - 1
Pages      == 0 .. PAGES_PER_BLOCK - 1
DataBlocks == PBA_DATA .. BLOCKS_TOTAL - 1

PSA_TO_PBA(psa) == psa \div SECTORS_PER_BLOCK
PSA_TO_IPA(psa) == (psa % SECTORS_PER_BLOCK) \div SECTORS_PER_PAGE
PSA_TO_ISA(psa) == psa % SECTORS_PER_PAGE

\* The pages of one block, and of a range of blocks, as addresses <<pba, ipa>>.
BlockPages(b)        == {b} \X Pages
BulkPages(b, nblks)  == (b .. b + nblks - 1) \X Pages

ASSUME SizesArePositive ==
  /\ BLOCKS_DELTA \in Nat \ {0}
  /\ BLOCKS_DATA \in Nat \ {0}
  /\ PAGES_PER_BLOCK \in Nat \ {0}
  /\ N_LAS \in Nat \ {0}
  /\ N_DELTA_PAIR \in Nat \ {0}
  /\ MAX_WCNT \in Nat \ {0}
  /\ MAX_GCPROG \in Nat
  /\ THRESHOLD_GC \in Nat
  /\ MIN_READY \in Nat

(***************************************************************************)
(* The blocks from THRESHOLD_DELTA_WB on hold the delta pages of one whole *)
(* period between two flushes: the tentative pages that MAX_WCNT host      *)
(* writes and MAX_GCPROG copies fill, and the committed page.  With the    *)
(* code's numbers: 34815 \div 1023 + 1 = 35 pages, in two blocks of 512.   *)
(***************************************************************************)
ASSUME DeltaRegionHasRoom ==
  /\ THRESHOLD_DELTA_WB \in Nat \ {0}
  /\ (MAX_WCNT + MAX_GCPROG - 1) \div N_DELTA_PAIR + 1
       <= (BLOCKS_DELTA - THRESHOLD_DELTA_WB) * PAGES_PER_BLOCK
=============================================================================
