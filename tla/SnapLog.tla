------------------------------- MODULE SnapLog -------------------------------
(***************************************************************************)
(* The logs of xv6 made for the snapshot disk: xv6/sclog.c, which flushes  *)
(* at every commit, and xv6/sclog-gcm.c (GROUP_COMMIT), which flushes at   *)
(* every GROUP-th one.  Neither writes a log to the disk: a commit writes  *)
(* the blocks in place, and the flush of the snapshot disk makes them      *)
(* durable at once.  The disk is SnapDisk, which src/disk.c is shown to    *)
(* implement (module Ftl); between two flushes it accepts MAX_WCNT writes  *)
(* and drops the others.  The FUSE server runs single-threaded (scripts/   *)
(* mount.sh, -s): one system call at a time, and no one else to wait for.  *)
(***************************************************************************)
EXTENDS Bio

CONSTANTS
  BLOCK,          \* the file system's blocks
  CONTENT,        \* what a block may hold
  MAXOPBLOCKS,    \* blocks a system call may change (10 in the code)
  LOGSIZE,        \* blocks a transaction may hold (30)
  MAX_WCNT,       \* writes the disk accepts between two flushes (2048)
  GROUP_COMMIT,   \* sclog-gcm.c rather than sclog.c
  GROUP,          \* commits per flush of sclog-gcm.c (200)
  MKFS_WRITES     \* writes since the last flush when mkfs is done

ASSUME LogSizes ==
  /\ MAXOPBLOCKS \in Nat \ {0} /\ LOGSIZE \in Nat \ {0} /\ MAX_WCNT \in Nat \ {0}
  /\ GROUP_COMMIT \in BOOLEAN /\ GROUP \in Nat \ {0} /\ MKFS_WRITES \in Nat

ASSUME BlocksHaveNumbers == NOSECTOR \notin BLOCK

VARIABLES
  vlt, stb, wcnt,                  \* the disk
  bcache,
  sectors,                         \* thelog.lh
  outstanding, committing,         \* thelog.outstanding, thelog.committing
  tail,                            \* the loop of write_log
  acc_commit,
  running                          \* FALSE once panic has ended the program

diskState == <<vlt, stb, wcnt>>
logVars   == <<diskState, bcache, sectors, outstanding, committing, tail, acc_commit, running>>

Disk == INSTANCE SnapDisk WITH Addr <- BLOCK, Data <- CONTENT, Blank <- NOSECTOR

-----------------------------------------------------------------------------
(* The disk as ide.c uses it *)

unix_write(s, v) ==
  IF wcnt < MAX_WCNT THEN Disk!spec_write(s, v) ELSE UNCHANGED diskState

panic ==
  /\ running' = FALSE
  /\ UNCHANGED <<diskState, bcache, sectors, outstanding, committing, tail, acc_commit>>

-----------------------------------------------------------------------------
(* System calls *)

InCall == running /\ outstanding > 0 /\ ~ committing
NoCall == running /\ outstanding = 0 /\ ~ committing

begin_op ==
  /\ NoCall
  /\ Len(sectors) + (outstanding + 1) * MAXOPBLOCKS <= LOGSIZE
  /\ outstanding' = outstanding + 1
  /\ UNCHANGED <<diskState, bcache, sectors, committing, tail, acc_commit, running>>

\* bread and brelse; readers need no transaction.
Read(s) ==
  /\ InCall \/ NoCall
  /\ IF CanGet(bcache, s)
     THEN /\ bcache' = brelse(bread(bcache, s, vlt[s]), s)
          /\ UNCHANGED <<diskState, sectors, outstanding, committing, tail, acc_commit, running>>
     ELSE panic

Absorb(seq, s) == IF \E i \in DOMAIN seq : seq[i] = s THEN seq ELSE Append(seq, s)

\* The buffer is not pinned: it may be recycled before the commit.
log_write_NotPinned(s, v) ==
  /\ InCall
  /\ Len(Absorb(sectors, s)) <= MAXOPBLOCKS
  /\ IF CanGet(bcache, s)
     THEN /\ bcache' = brelse(Modify(bread(bcache, s, vlt[s]), s, v), s)
          /\ sectors' = Absorb(sectors, s)
          /\ UNCHANGED <<diskState, outstanding, committing, tail, acc_commit, running>>
     ELSE panic

\* The typical use: bread, change the data, log_write, brelse.  A system call
\* changes at most MAXOPBLOCKS blocks (param.h).
log_write(s, v) ==
  /\ InCall
  /\ Len(Absorb(sectors, s)) <= MAXOPBLOCKS
  /\ IF CanGet(bcache, s)
     THEN /\ bcache' = brelse(MarkDirty(Modify(bread(bcache, s, vlt[s]), s, v), s), s)
          /\ sectors' = Absorb(sectors, s)
          /\ UNCHANGED <<diskState, outstanding, committing, tail, acc_commit, running>>
     ELSE panic

end_op ==
  /\ InCall
  /\ outstanding' = outstanding - 1
  /\ committing' = (outstanding' = 0)
  /\ tail' = 0
  /\ UNCHANGED <<diskState, bcache, sectors, acc_commit, running>>

-----------------------------------------------------------------------------
(* commit *)

\* The loop stops one block early.
MoreToWrite_OffByOne == tail + 1 < Len(sectors)

MoreToWrite == tail < Len(sectors)

write_log ==
  /\ running /\ committing
  /\ MoreToWrite
  /\ LET s == sectors[tail + 1]
     IN  IF CanGet(bcache, s)
         THEN LET c == bread(bcache, s, vlt[s])
              IN  /\ unix_write(s, BufData(c, s))
                  /\ bcache' = brelse(bwrite(c, s), s)
                  /\ tail' = tail + 1
                  /\ UNCHANGED <<sectors, outstanding, committing, acc_commit, running>>
         ELSE panic

ideflush == Disk!spec_flush

\* Committing without a flush.
commit_NoFlush == UNCHANGED <<diskState, acc_commit>>

\* The end of commit in sclog.c.
commit == ideflush /\ UNCHANGED acc_commit

\* One commit too many in a group.
commit_gcm_OffByOne ==
  LET n == IF sectors = <<>> THEN acc_commit ELSE acc_commit + 1
  IN  IF n > GROUP THEN ideflush /\ acc_commit' = 0
                   ELSE UNCHANGED diskState /\ acc_commit' = n

\* The end of commit in sclog-gcm.c.
commit_gcm ==
  LET n == IF sectors = <<>> THEN acc_commit ELSE acc_commit + 1
  IN  IF n = GROUP THEN ideflush /\ acc_commit' = 0
                   ELSE UNCHANGED diskState /\ acc_commit' = n

CommitEnd ==
  /\ running /\ committing
  /\ ~ MoreToWrite
  /\ IF GROUP_COMMIT THEN commit_gcm ELSE commit
  /\ sectors' = <<>>
  /\ committing' = FALSE
  /\ UNCHANGED <<bcache, outstanding, tail, running>>

\* fuse_fsync, fuse_fsyncdir and fuse_finalize call disk_flush past the log.
fuse_fsync ==
  /\ NoCall
  /\ ideflush
  /\ UNCHANGED <<bcache, sectors, outstanding, committing, tail, acc_commit, running>>

\* Power failure and restart: disk_recovery, binit, initlog.
Restart ==
  /\ Disk!spec_recovery
  /\ bcache' = binit
  /\ sectors' = <<>>
  /\ outstanding' = 0 /\ committing' = FALSE /\ tail' = 0 /\ acc_commit' = 0
  /\ running' = TRUE

\* mkfs has just run; its last writes, if any, are not flushed yet.
LogInit ==
  /\ \E v \in CONTENT : vlt = [s \in BLOCK |-> v]
  /\ stb \in IF MKFS_WRITES = 0 THEN {vlt} ELSE [BLOCK -> CONTENT]
  /\ wcnt = MKFS_WRITES
  /\ bcache = binit
  /\ sectors = <<>>
  /\ outstanding = 0 /\ committing = FALSE /\ tail = 0 /\ acc_commit = 0
  /\ running = TRUE

LogNext ==
  \/ begin_op \/ end_op \/ write_log \/ CommitEnd \/ fuse_fsync \/ Restart
  \/ \E s \in BLOCK : Read(s) \/ \E v \in CONTENT : log_write(s, v)

LogSpec == LogInit /\ [][LogNext]_logVars

-----------------------------------------------------------------------------
(* Properties *)

View == [s \in BLOCK |-> CacheView(bcache, s, vlt[s])]

Store == INSTANCE AtomicStore WITH
  Block <- BLOCK, Content <- CONTENT, mem <- View, old <- stb, active <- outstanding

\* System calls are atomic with respect to power failure although their blocks
\* are written in place and one by one: only ideflush makes blocks durable, and
\* it does so when every block that a completed call changed is on the disk and
\* no block of an unfinished call is.
ImplementsAtomicStore == Store!store

\* sclog.c: when end_op returns the system call is durable: the cache, the disk
\* and the disk's snapshot agree.
DurableWhenReturned ==
  [][committing /\ ~ committing' => View' = stb' /\ vlt' = stb']_logVars

\* A clean buffer holds what the disk holds ("B_DIRTY: the buffer data has been
\* modified and needs to be written to disk"), so that recycling it loses
\* nothing: no write of a commit is dropped by the disk.
CleanBuffersOnDisk ==
  \A i \in 1 .. NBUF :
    bcache[i].flags \cap {"valid", "dirty"} = {"valid"}
      => bcache[i].data = vlt[bcache[i].sector]

\* Whoever calls bread gets a buffer: the blocks pinned by a transaction leave
\* room, and no buffer is asked for while it is busy.
NeverPanics == running

-----------------------------------------------------------------------------
(* The inductive invariant *)

CommitsPerFlush == IF GROUP_COMMIT THEN GROUP ELSE 1

\* What mkfs left unflushed and what the commits up to the next flush write is
\* within what the disk accepts.
WritesFit == MKFS_WRITES + CommitsPerFlush * MAXOPBLOCKS <= MAX_WCNT

\* The place in the transaction of the first block that is not written yet.
FirstUnwritten == IF committing THEN tail + 1 ELSE 1

\* A dirty buffer belongs to the part of the transaction that is not written
\* yet, a clean one holds what the disk holds, and the disk has taken every
\* write since the last flush.  It is an invariant where WritesFit holds.
LogInv ==
  /\ vlt \in [BLOCK -> CONTENT] /\ stb \in [BLOCK -> CONTENT]
  /\ bcache \in Caches(BLOCK, CONTENT)
  /\ sectors \in Seq(BLOCK) /\ Len(sectors) <= MAXOPBLOCKS
  /\ outstanding \in {0, 1} /\ committing \in BOOLEAN /\ running \in BOOLEAN
  /\ wcnt \in Nat /\ tail \in Nat /\ acc_commit \in Nat
  /\ committing => outstanding = 0 /\ tail <= Len(sectors)
  /\ outstanding = 0 /\ ~ committing => sectors = <<>>
  /\ \A i \in 1 .. NBUF : "dirty" \in bcache[i].flags =>
       \E k \in FirstUnwritten .. Len(sectors) : sectors[k] = bcache[i].sector
  /\ CleanBuffersOnDisk
  /\ acc_commit < CommitsPerFlush
  /\ wcnt <= MKFS_WRITES + acc_commit * MAXOPBLOCKS + (IF committing THEN tail ELSE 0)
=============================================================================
