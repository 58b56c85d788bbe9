---------------------------- MODULE WriteAheadLog ----------------------------
(***************************************************************************)
(* The write-ahead logs of xv6 for disks without snapshots: asynclog.c,    *)
(* which flushes the disk before and after it writes the log header, and   *)
(* synclog.c, the same code with the flushes commented out, each linked    *)
(* with its own disk (Makefile: xv6fs, xv6fs-xflush).  A commit copies the *)
(* changed blocks to the log, writes the header, installs the blocks in    *)
(* place and clears the header.  A restart installs what the header says   *)
(* and clears it.  The sectors are the file system's blocks, the header    *)
(* HEAD and the log slots 1 .. size - 1.  The FUSE server runs             *)
(* single-threaded: one system call at a time.                             *)
(***************************************************************************)
EXTENDS Bio, CachedDisk

CONSTANTS
  BLOCK, CONTENT,
  MAXOPBLOCKS,    \* blocks a system call may change (10 in the code)
  LOGSIZE,        \* thelog.size, the sectors of the log (30); the header is one
  HEAD            \* the sector thelog.start

ASSUME WalSizes == MAXOPBLOCKS \in Nat \ {0} /\ LOGSIZE \in Nat \ {0}

VARIABLES
  disk,
  bcache,
  sectors,        \* thelog.lh
  outstanding,
  pc,             \* what the log does next
  tail            \* the loops of write_log and install_trans

walVars == <<disk, bcache, sectors, outstanding, pc, tail>>

Slot(i)   == i + 1             \* the log block of entry i, from 0
AllSector == BLOCK \cup {HEAD} \cup 1 .. LOGSIZE - 1

On(s) == disk_read(disk, s)
Get(c, s) == bread(c, s, On(s))

panic == pc' = "panic" /\ UNCHANGED <<disk, bcache, sectors, outstanding, tail>>

InCall == pc = "user" /\ outstanding > 0
NoCall == pc = "user" /\ outstanding = 0

-----------------------------------------------------------------------------
(* System calls *)

begin_op ==
  /\ NoCall
  /\ Len(sectors) + (outstanding + 1) * MAXOPBLOCKS <= LOGSIZE
  /\ outstanding' = outstanding + 1
  /\ UNCHANGED <<disk, bcache, sectors, pc, tail>>

Read(s) ==
  /\ pc = "user"
  /\ IF CanGet(bcache, s)
     THEN /\ bcache' = brelse(Get(bcache, s), s)
          /\ UNCHANGED <<disk, sectors, outstanding, pc, tail>>
     ELSE panic

Absorb(seq, s) == IF \E i \in DOMAIN seq : seq[i] = s THEN seq ELSE Append(seq, s)

TooBig == Len(sectors) >= LOGSIZE \/ Len(sectors) >= LOGSIZE - 1

log_write(s, v) ==
  /\ InCall
  /\ Len(Absorb(sectors, s)) <= MAXOPBLOCKS
  /\ IF CanGet(bcache, s) /\ ~ TooBig
     THEN /\ bcache' = brelse(MarkDirty(Modify(Get(bcache, s), s, v), s), s)
          /\ sectors' = Absorb(sectors, s)
          /\ UNCHANGED <<disk, outstanding, pc, tail>>
     ELSE panic

HasCommit == Len(sectors) > 0

end_op ==
  /\ InCall
  /\ outstanding' = outstanding - 1
  /\ pc' = IF outstanding' = 0 /\ HasCommit THEN "write_log" ELSE "user"
  /\ tail' = 0
  /\ UNCHANGED <<disk, bcache, sectors>>

-----------------------------------------------------------------------------
(* commit *)

\* One block: from is read after to, and both are busy then.
CopyBlock(from, to, next) ==
  IF CanGet(bcache, to) /\ CanGet(Get(bcache, to), from)
  THEN LET c == Get(Get(bcache, to), from)
           m == Modify(c, to, BufData(c, from))
       IN  /\ disk' = disk_write(disk, to, BufData(m, to))
           /\ bcache' = brelse(brelse(bwrite(m, to), from), to)
           /\ IF tail + 1 < Len(sectors) THEN tail' = tail + 1 /\ UNCHANGED pc
                                         ELSE tail' = 0 /\ pc' = next
           /\ UNCHANGED <<sectors, outstanding>>
  ELSE panic

write_log ==
  /\ pc = "write_log"
  /\ CopyBlock(sectors[tail + 1], Slot(tail), "commit_head")

install_trans ==
  /\ pc \in {"install", "recover"}
  /\ CopyBlock(Slot(tail), sectors[tail + 1], "clear_head")

\* synclog.c does without ideflush.
Flush(d) == IF d.sync THEN d ELSE disk_flush(d)


\* The preceding writes are flushed first.
HeadWrite(lh) == disk_write(Flush(disk), HEAD, lh)

\* write_head up to its second ideflush; sectors is lh from here on.
write_head(lh, next) ==
  IF CanGet(bcache, HEAD)
  THEN /\ disk' = HeadWrite(lh)
       /\ bcache' = brelse(bwrite(Modify(Get(bcache, HEAD), HEAD, lh), HEAD), HEAD)
       /\ sectors' = lh
       /\ pc' = next
       /\ UNCHANGED <<outstanding, tail>>
  ELSE panic

CommitHead ==
  /\ pc = "commit_head"
  /\ write_head(sectors, "commit_sync")

\* The second ideflush of write_head.
CommitSync ==
  /\ pc = "commit_sync"
  /\ disk' = Flush(disk)
  /\ pc' = "install"
  /\ UNCHANGED <<bcache, sectors, outstanding, tail>>

ClearHead ==
  /\ pc = "clear_head"
  /\ write_head(<<>>, "clear_sync")

ClearSync ==
  /\ pc = "clear_sync"
  /\ disk' = Flush(disk)
  /\ pc' = "user"
  /\ UNCHANGED <<bcache, sectors, outstanding, tail>>

-----------------------------------------------------------------------------
(* Restart *)

Crash ==
  /\ \E c \in AfterCrash(disk) : disk' = NewDisk(c, disk.sync)
  /\ bcache' = binit
  /\ sectors' = <<>>
  /\ outstanding' = 0
  /\ pc' = "down"
  /\ tail' = 0

\* initlog: recover_from_log up to install_trans.
read_head ==
  /\ pc = "down"
  /\ bcache' = brelse(Get(bcache, HEAD), HEAD)
  /\ sectors' = On(HEAD)
  /\ pc' = IF sectors' = <<>> THEN "clear_head" ELSE "recover"
  /\ UNCHANGED <<disk, outstanding, tail>>

WalInit ==
  /\ \E v \in CONTENT, sync \in BOOLEAN :
       disk = NewDisk([s \in AllSector |-> IF s = HEAD THEN <<>> ELSE v], sync)
  /\ bcache = binit
  /\ sectors = <<>>
  /\ outstanding = 0
  /\ pc = "down"
  /\ tail = 0

WalNext ==
  \/ begin_op \/ end_op \/ write_log \/ CommitHead \/ CommitSync \/ install_trans
  \/ ClearHead \/ ClearSync \/ Crash \/ read_head
  \/ \E s \in BLOCK : Read(s) \/ \E v \in CONTENT : log_write(s, v)

WalSpec == WalInit /\ [][WalNext]_walVars

-----------------------------------------------------------------------------
(* Properties *)

Recovering == pc \in {"down", "recover", "clear_head", "clear_sync"}

\* The blocks as a restart finds and installs them when the disk holds c.
RecoverFrom(c) ==
  [s \in BLOCK |->
     LET I == {i \in DOMAIN c[HEAD] : c[HEAD][i] = s}
     IN  IF I = {} THEN c[s] ELSE c[Slot((CHOOSE i \in I : TRUE) - 1)]]

View == IF Recovering THEN RecoverFrom(Contents(disk))
        ELSE [s \in BLOCK |-> CacheView(bcache, s, On(s))]

Store == INSTANCE AtomicStore WITH
  Block <- BLOCK, Content <- CONTENT,
  mem <- View, old <- RecoverFrom(disk.dur), active <- outstanding

\* System calls are atomic with respect to power failure: whatever unflushed
\* writes the disk loses, a restart, itself interrupted any number of times,
\* brings back the blocks after some whole system call.
ImplementsAtomicStore == Store!store

\* When end_op returns the system call is durable.
DurableWhenReturned == NoCall => View = RecoverFrom(disk.dur)

\* The transaction fits the log, and whoever calls bread gets a buffer.
NeverPanics == pc # "panic"
=============================================================================
