---------------------------------- MODULE Fs ----------------------------------
(***************************************************************************)
(* The file system of xv6 below its system calls (xv6/fs.c): blocks,       *)
(* inodes, the inode cache, directories and paths.  Every C function is an *)
(* operator on the record of the globals it works on:                      *)
(*   dino    the inodes on disk                                            *)
(*   used    the blocks whose bit is set in the bitmap                     *)
(*   tab     the contents of indirect blocks                               *)
(*   dent    the contents of directories, one entry per unit of size       *)
(*   icache  the inode cache                                               *)
(*   logged  the blocks of the current transaction                         *)
(*   outstanding                                                           *)
(*   panic   a panic has ended the program, or it waits for itself         *)
(*   ret     the result of the function                                    *)
(* What files hold is left out; sizes and offsets count units, BSIZE to a  *)
(* block, and a directory entry is one unit.  Paths are sequences of names *)
(* and start at the root.  What nothing reads again is forgotten: the rest *)
(* of a cache entry without references, and what a freed block held.       *)
(***************************************************************************)
EXTENDS Integers, Sequences, FiniteSets, SequencesExt

CONSTANTS
  SIZE,           \* blocks of the file system; balloc may use even those of the log
  NINODES,        \* inode numbers are 1 .. NINODES - 1
  NINODE,         \* entries of the inode cache
  BSIZE, IPB, BPB,    \* units, inodes and bitmap bits per block
  NDIRECT, NINDIRECT

\* The root directory's "." and ".." leave room in its block (mkfs).
ASSUME FsSizes ==
  /\ {SIZE, NINODES, NINODE, BSIZE, IPB, BPB, NDIRECT, NINDIRECT} \subseteq Nat \ {0}
  /\ BSIZE > 2

ROOTINO == 1
T_FREE  == 0
T_DIR   == 1
T_FILE  == 2
T_SOCK  == 4

Inums     == 1 .. NINODES - 1
IBLOCK(i) == i \div IPB + 2
BBLOCK(b) == b \div BPB + NINODES \div IPB + 3
nmeta     == 2 + (NINODES \div IPB + 1) + (SIZE \div BPB + 1)
MAXFILE   == NDIRECT + NINDIRECT + NINDIRECT * NINDIRECT

NoTable  == [j \in 0 .. NINDIRECT - 1 |-> 0]
NoInode  == [type |-> T_FREE, nlink |-> 0, size |-> 0, addrs |-> [j \in 0 .. NDIRECT |-> 0]]
NoEntry  == [ref |-> 0, inum |-> 0, busy |-> FALSE, valid |-> FALSE, ino |-> NoInode]
FreeSlot == [inum |-> 0, name |-> ""]

Panic(s) == [s EXCEPT !.panic = TRUE]

\* F goes on from s, unless the program has ended.
Then(s, F(_)) == IF s.panic THEN s ELSE F(s)

log_write(s, b) ==
  IF s.outstanding < 1 THEN Panic(s) ELSE [s EXCEPT !.logged = @ \cup {b}]

-----------------------------------------------------------------------------
(* Blocks *)

balloc(s) ==
  LET F == 0 .. SIZE - 1 \ s.used
  IN  IF F = {} THEN Panic(s)
      ELSE LET b == Min(F)
           IN  [log_write(log_write(s, BBLOCK(b)), b) EXCEPT
                  !.used = @ \cup {b}, !.tab[b] = NoTable, !.ret = b]

\* bfree of every block of B.
bfree(s, B) ==
  IF B = {} THEN s
  ELSE IF s.outstanding < 1 \/ ~ B \subseteq s.used THEN Panic(s)
  ELSE [s EXCEPT !.used = @ \ B, !.logged = @ \cup {BBLOCK(b) : b \in B},
                 !.tab = [b \in DOMAIN @ |-> IF b \in B THEN NoTable ELSE @[b]]]

-----------------------------------------------------------------------------
(* Inodes.  An inode is named by its place in the cache. *)

iupdate(s, k) ==
  LET e == s.icache[k]
  IN  [log_write(s, IBLOCK(e.inum)) EXCEPT !.dino[e.inum] = e.ino]

iget(s, inum) ==
  LET Cached == {k \in 1 .. NINODE : s.icache[k].ref > 0 /\ s.icache[k].inum = inum}
      Empty  == {k \in 1 .. NINODE : s.icache[k].ref = 0}
  IN  IF Cached # {} THEN LET k == Min(Cached) IN [s EXCEPT !.icache[k].ref = @ + 1, !.ret = k]
      ELSE IF Empty = {} THEN Panic(s)
      ELSE LET k == Min(Empty)
           IN  [s EXCEPT !.icache[k] = [NoEntry EXCEPT !.inum = inum, !.ref = 1], !.ret = k]

\* Nobody else is there to unlock a busy inode.
ilock(s, k) ==
  IF s.panic THEN s
  ELSE LET e == s.icache[k]
           d == s.dino[e.inum]
       IN  IF e.ref < 1 \/ e.busy \/ (~ e.valid /\ d.type = T_FREE) THEN Panic(s)
           ELSE [s EXCEPT !.icache[k] = [e EXCEPT !.busy = TRUE, !.valid = TRUE,
                                                  !.ino = IF e.valid THEN @ ELSE d]]

iunlock(s, k) ==
  IF s.panic THEN s
  ELSE IF s.icache[k].ref < 1 \/ ~ s.icache[k].busy THEN Panic(s)
  ELSE [s EXCEPT !.icache[k].busy = FALSE]

\* The direct blocks, the blocks of the indirect block, the indirect block.
Direct(s, i)   == {i.addrs[j] : j \in 0 .. NDIRECT - 1} \ {0}
Indirect(s, i) == IF i.addrs[NDIRECT] = 0 THEN {}
                  ELSE {s.tab[i.addrs[NDIRECT]][j] : j \in 0 .. NINDIRECT - 1} \ {0}
FileBlocks(s, i) == Direct(s, i) \cup Indirect(s, i) \cup ({i.addrs[NDIRECT]} \ {0})

\* The blocks behind the indirect block are forgotten.
itrunc_DirectOnly(s, k) ==
  LET e == s.icache[k]
  IN  iupdate([bfree(s, Direct(s, e.ino)) EXCEPT
                 !.icache[k].ino = [@ EXCEPT !.addrs = NoInode.addrs, !.size = 0],
                 !.dent[e.inum] = <<>>], k)

itrunc(s, k) ==
  LET e == s.icache[k]
  IN  iupdate([bfree(s, FileBlocks(s, e.ino)) EXCEPT
                 !.icache[k].ino = [@ EXCEPT !.addrs = NoInode.addrs, !.size = 0],
                 !.dent[e.inum] = <<>>], k)


LastReference(e) == e.ref = 1 /\ e.valid /\ e.ino.nlink = 0

DropRef(s, k) ==
  IF s.panic THEN s
  ELSE [s EXCEPT !.icache[k] = IF @.ref = 1 THEN NoEntry ELSE [@ EXCEPT !.ref = @ - 1]]

iput(s, k) ==
  IF s.panic \/ ~ LastReference(s.icache[k]) THEN DropRef(s, k)
  ELSE IF s.icache[k].busy THEN Panic(s)
  ELSE LET t == iupdate([itrunc(s, k) EXCEPT !.icache[k].ino.type = T_FREE], k)
       IN  DropRef([t EXCEPT !.icache[k].valid = FALSE], k)

iunlockput(s, k) == iput(iunlock(s, k), k)

ialloc(s, type) ==
  LET F == {i \in Inums : s.dino[i].type = T_FREE}
  IN  IF F = {} THEN Panic(s)
      ELSE LET i == Min(F)
           IN  iget([log_write(s, IBLOCK(i)) EXCEPT
                       !.dino[i] = [NoInode EXCEPT !.type = type], !.dent[i] = <<>>], i)

-----------------------------------------------------------------------------
(* Inode contents *)

SetAddr(s, k, j) == [s EXCEPT !.icache[k].ino.addrs[j] = s.ret]

SetTable(s, b, j) == [log_write(s, b) EXCEPT !.tab[b][j] = s.ret]

\* Entry j of the indirect block b.
IndirectAddr(s, b, j) ==
  IF s.tab[b][j] # 0 THEN [s EXCEPT !.ret = s.tab[b][j]] ELSE SetTable(balloc(s), b, j)

\* The cached inode has no element for the address of the doubly indirect
\* block (file.h): what follows is undefined and ends the behaviour here.
bmap(s, k, bn) ==
  LET addrs == s.icache[k].ino.addrs
  IN  IF s.panic THEN s
      ELSE IF bn < NDIRECT
      THEN IF addrs[bn] # 0 THEN [s EXCEPT !.ret = addrs[bn]] ELSE SetAddr(balloc(s), k, bn)
      ELSE IF bn >= NDIRECT + NINDIRECT THEN Panic(s)
      ELSE Then(IF addrs[NDIRECT] # 0 THEN s ELSE SetAddr(balloc(s), k, NDIRECT),
                LAMBDA t : IndirectAddr(t, t.icache[k].ino.addrs[NDIRECT], bn - NDIRECT))

\* The blocks that units off .. off + n - 1 lie in.
BlockRange(off, n) ==
  IF n = 0 THEN <<>>
  ELSE [j \in 1 .. (off + n - 1) \div BSIZE - off \div BSIZE + 1 |-> off \div BSIZE + j - 1]

WriteBlock(s, k, bn) == Then(bmap(s, k, bn), LAMBDA t : log_write(t, t.ret))

WriteBlocks(s, k, off, n) ==
  FoldLeft(LAMBDA t, bn : WriteBlock(t, k, bn), s, BlockRange(off, n))

\* The new size stays in the cache.
SetSize_NoUpdate(s, k, n) == [s EXCEPT !.icache[k].ino.size = n]

SetSize(s, k, n) == iupdate([s EXCEPT !.icache[k].ino.size = n], k)

\* readi allocates nothing as long as a file has no holes.
readi(s, k) ==
  FoldLeft(LAMBDA t, bn : bmap(t, k, bn), s, BlockRange(0, s.icache[k].ino.size))

Grow(s, k, n) == IF n > s.icache[k].ino.size THEN SetSize(s, k, n) ELSE s

writei(s, k, off, n) ==
  IF s.panic THEN s
  ELSE IF off > s.icache[k].ino.size \/ off + n > MAXFILE * BSIZE THEN [s EXCEPT !.ret = -1]
  ELSE [Grow(WriteBlocks(s, k, off, n), k, off + n) EXCEPT !.ret = n]

zeroi(s, k, off, n) == SetSize(WriteBlocks(s, k, off, n), k, off + n)

-----------------------------------------------------------------------------
(* Directories *)

Entries(s, k) == s.dent[s.icache[k].inum]
Lookup(s, k, name) ==
  {j \in DOMAIN Entries(s, k) : Entries(s, k)[j].inum # 0 /\ Entries(s, k)[j].name = name}

\* The inode of the first of the entries J.
GetEntry(s, k, J) ==
  IF J = {} THEN [s EXCEPT !.ret = 0] ELSE iget(s, Entries(s, k)[Min(J)].inum)

\* ret is the inode found, or 0.
dirlookup(s, k, name) ==
  IF s.panic \/ s.icache[k].ino.type # T_DIR THEN Panic(s)
  ELSE Then(readi(s, k), LAMBDA t : GetEntry(t, k, Lookup(t, k, name)))

SetEntry(s, k, j, e) ==
  Then(writei(s, k, j - 1, 1), LAMBDA t :
    IF t.ret # 1 THEN Panic(t)
    ELSE [t EXCEPT !.dent[t.icache[k].inum] =
                     IF j <= Len(@) THEN [@ EXCEPT ![j] = e] ELSE Append(@, e)])

FirstEmpty(d) == Min({j \in DOMAIN d : d[j].inum = 0} \cup {Len(d) + 1})

\* ret is 0, or -1 when the name is there already.
dirlink(s, k, name, inum) ==
  Then(dirlookup(s, k, name), LAMBDA t :
    IF t.ret # 0 THEN [iput(t, t.ret) EXCEPT !.ret = -1]
    ELSE [SetEntry(t, k, FirstEmpty(Entries(t, k)), [inum |-> inum, name |-> name])
            EXCEPT !.ret = 0])

-----------------------------------------------------------------------------
(* Paths *)

\* ret is the inode that path names from inode k on, or with parent the
\* directory of its last name, or 0.
RECURSIVE Walk(_, _, _, _)
Walk(s, k, path, parent) ==
  IF s.panic THEN s
  ELSE IF path = <<>> THEN IF parent THEN [iput(s, k) EXCEPT !.ret = 0] ELSE [s EXCEPT !.ret = k]
  ELSE Then(ilock(s, k), LAMBDA l :
         IF l.icache[k].ino.type # T_DIR THEN [iunlockput(l, k) EXCEPT !.ret = 0]
         ELSE IF parent /\ Len(path) = 1 THEN [iunlock(l, k) EXCEPT !.ret = k]
         ELSE Then(dirlookup(l, k, Head(path)), LAMBDA d :
                IF d.ret = 0 THEN [iunlockput(d, k) EXCEPT !.ret = 0]
                ELSE Walk(iunlockput(d, k), d.ret, Tail(path), parent)))

namei(s, path)       == Then(iget(s, ROOTINO), LAMBDA r : Walk(r, r.ret, path, FALSE))
nameiparent(s, path) == Then(iget(s, ROOTINO), LAMBDA r : Walk(r, r.ret, path, TRUE))

-----------------------------------------------------------------------------
(* mkfs: an empty root directory of one block. *)

mkfs ==
  LET root   == [type |-> T_DIR, nlink |-> 1, size |-> (2 \div BSIZE + 1) * BSIZE,
                 addrs |-> [NoInode.addrs EXCEPT ![0] = nmeta]]
      Dot(n) == [inum |-> ROOTINO, name |-> n]
  IN  [dino |-> [i \in Inums |-> IF i = ROOTINO THEN root ELSE NoInode],
       used |-> 0 .. nmeta,
       tab  |-> [b \in 0 .. SIZE - 1 |-> NoTable],
       dent |-> [i \in Inums |->
                   IF i = ROOTINO
                   THEN <<Dot("."), Dot("..")>> \o [j \in 1 .. root.size - 2 |-> FreeSlot]
                   ELSE <<>>]]
=============================================================================
