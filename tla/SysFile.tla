------------------------------- MODULE SysFile -------------------------------
(***************************************************************************)
(* The system calls of xv6 (xv6/sysfile.c, xv6/file.c) as the FUSE server  *)
(* (xv6/fuse.c) issues them, one at a time: the server is single-threaded  *)
(* (scripts/mount.sh, -s).  Every transaction, from begin_op to end_op, is *)
(* one step; a call of several transactions leaves the ones to come in     *)
(* work.  A commit makes the transaction durable as a whole: this is what  *)
(* the logs promise (module AtomicStore).  The server makes a new file     *)
(* system whenever it starts (main calls mkfs), so a restart is an initial *)
(* state, and what a power failure leaves behind is stable.                *)
(***************************************************************************)
EXTENDS Fs

CONSTANTS
  PATHS,          \* the paths calls are made with
  WRITES,         \* the offsets and lengths of writes
  NFILE,          \* entries of the file table
  CHUNK,          \* units filewrite writes in a transaction (its max)
  MAXOPBLOCKS,    \* "max # of blocks any FS op writes" (param.h)
  MAXHOLE,        \* units by which a write may start past the end of its file
  RENAME_DIRS     \* whether directories are renamed, too

ASSUME SysFileSizes ==
  /\ {NFILE, CHUNK, MAXOPBLOCKS} \subseteq Nat \ {0} /\ MAXHOLE \in Nat
  /\ RENAME_DIRS \in BOOLEAN

VARIABLES
  fs,             \* the record of module Fs, with ftable, stable and overrun
                  \* (a transaction was larger than MAXOPBLOCKS)
  work            \* the transactions that the current call has still to do

fsVars == <<fs, work>>

NoFile == [ref |-> 0, ip |-> 0, writable |-> FALSE]

Image(s) == [dino |-> s.dino, used |-> s.used, tab |-> s.tab, dent |-> s.dent]

begin_op(s) == [s EXCEPT !.outstanding = @ + 1]

end_op(s) ==
  LET o == s.outstanding - 1
  IN  IF s.panic THEN s
      ELSE IF o # 0 THEN [s EXCEPT !.outstanding = o, !.ret = 0]
      ELSE [s EXCEPT !.outstanding = o, !.ret = 0, !.stable = Image(s), !.logged = {},
                     !.overrun = @ \/ Cardinality(s.logged) > MAXOPBLOCKS]

-----------------------------------------------------------------------------
(* create, sys_open *)

\* The entries "." and ".." of the new directory k in d.
MakeDots(s, d, k) ==
  dirlink(dirlink(iupdate([s EXCEPT !.icache[d].ino.nlink = @ + 1], d),
                  k, ".", s.icache[k].inum),
          k, "..", s.icache[d].inum)

\* Inode k, locked, becomes an entry of the locked directory d.
LinkInode(s, d, k, name, type) ==
  Then(dirlink(IF type = T_DIR THEN MakeDots(s, d, k) ELSE s, d, name, s.icache[k].inum),
       LAMBDA t : IF t.ret < 0 THEN Panic(t) ELSE [iunlockput(t, d) EXCEPT !.ret = k])

\* A new inode of the given type, locked, in the locked directory d.
NewInode(s, d, name, type) ==
  Then(ialloc(s, type), LAMBDA a :
    Then(ilock(a, a.ret), LAMBDA l :
      LinkInode(iupdate([l EXCEPT !.icache[a.ret].ino.nlink = 1], a.ret),
                d, a.ret, name, type)))

\* ret is the inode, locked, or 0.
create(s, path, type) ==
  Then(nameiparent(s, path), LAMBDA p :
    IF p.ret = 0 THEN p
    ELSE Then(dirlookup(ilock(p, p.ret), p.ret, Last(path)), LAMBDA f :
           IF f.ret = 0 THEN NewInode(f, p.ret, Last(path), type)
           ELSE Then(ilock(iunlockput(f, p.ret), f.ret), LAMBDA e :
                  IF type = T_FILE /\ e.icache[f.ret].ino.type = T_FILE
                  THEN [e EXCEPT !.ret = f.ret]
                  ELSE [iunlockput(e, f.ret) EXCEPT !.ret = 0])))

\* The inode stays referenced when there is no file to refer to it.
NoFileLeft_Leak(s, k) == iunlock(s, k)

NoFileLeft(s, k) == iunlockput(s, k)

\* The file that filealloc takes, or 0.
filealloc(s) ==
  LET F == {f \in 1 .. NFILE : s.ftable[f].ref = 0} IN IF F = {} THEN 0 ELSE Min(F)

\* The end of sys_open, with inode k locked.
OpenInode(s, k, writable) ==
  LET f == filealloc(s)
  IN  IF s.panic THEN s
      ELSE IF f = 0 THEN NoFileLeft(s, k)
      ELSE [iunlock(s, k) EXCEPT
              !.ftable[f] = [ref |-> 1, ip |-> k, writable |-> writable]]

sys_open(s, path, writable) ==
  end_op(Then(namei(begin_op(s), path), LAMBDA n :
    IF n.ret = 0 THEN n
    ELSE Then(ilock(n, n.ret), LAMBDA l :
           IF l.icache[n.ret].ino.type = T_DIR /\ writable THEN iunlockput(l, n.ret)
           ELSE OpenInode(l, n.ret, writable))))

\* sys_open with O_CREATE.
sys_create(s, path, writable) ==
  end_op(Then(create(begin_op(s), path, T_FILE), LAMBDA c :
    IF c.ret = 0 THEN c ELSE OpenInode(c, c.ret, writable)))

\* sys_mkdir and sys_mksock.
sys_make(s, path, type) ==
  end_op(Then(create(begin_op(s), path, type), LAMBDA c :
    IF c.ret = 0 THEN c ELSE iunlockput(c, c.ret)))

-----------------------------------------------------------------------------
(* unlink, rename *)

isdirempty(s, k) == \A j \in DOMAIN Entries(s, k) : j <= 2 \/ Entries(s, k)[j].inum = 0

ENOENT == -2

\* The directory keeps counting the ".." of the directory removed from it.
ParentLinks_Kept(s, d, k) == s

\* nlink of the parent d of a directory k that is removed.
ParentLinks(s, d, k) ==
  IF s.panic \/ s.icache[k].ino.type # T_DIR THEN s
  ELSE iupdate([s EXCEPT !.icache[d].ino.nlink = @ - 1], d)

\* The entry of the locked inode k is removed from the locked directory d.
RemoveEntry(s, d, k, name) ==
  Then(iunlockput(ParentLinks(SetEntry(s, d, Min(Lookup(s, d, name)), FreeSlot), d, k), d),
       LAMBDA t : [iunlockput(iupdate([t EXCEPT !.icache[k].ino.nlink = @ - 1], k), k)
                     EXCEPT !.ret = 0])

UnlinkInode(s, d, k, name) ==
  Then(ilock(s, k), LAMBDA e :
    IF e.icache[k].ino.nlink < 1 THEN Panic(e)
    ELSE IF e.icache[k].ino.type = T_DIR /\ ~ isdirempty(e, k)
    THEN [iunlockput(iunlockput(e, k), d) EXCEPT !.ret = -1]
    ELSE RemoveEntry(e, d, k, name))

sys_dounlink(s, path) ==
  Then(nameiparent(s, path), LAMBDA p :
    IF p.ret = 0 THEN [p EXCEPT !.ret = -1]
    ELSE Then(ilock(p, p.ret), LAMBDA l :
      IF Last(path) \in {".", ".."} THEN [iunlockput(l, p.ret) EXCEPT !.ret = -1]
      ELSE Then(dirlookup(l, p.ret, Last(path)), LAMBDA f :
        IF f.ret = 0 THEN [iunlockput(f, p.ret) EXCEPT !.ret = ENOENT]
        ELSE UnlinkInode(f, p.ret, f.ret, Last(path)))))

sys_unlink(s, path) == end_op(sys_dounlink(begin_op(s), path))

\* The label bad: the link counted for inode k is taken back.
TakeLinkBack(s, k) ==
  Then(ilock(s, k), LAMBDA b :
    [iunlockput(iupdate([b EXCEPT !.icache[k].ino.nlink = @ - 1], k), k) EXCEPT !.ret = -1])

\* The name new for inode k, whose link is counted already.
LinkName(s, k, new) ==
  Then(nameiparent(s, new), LAMBDA p :
    IF p.ret = 0 THEN TakeLinkBack(p, k)
    ELSE Then(dirlink(ilock(p, p.ret), p.ret, Last(new), p.icache[k].inum), LAMBDA t :
           IF t.ret < 0 THEN TakeLinkBack(iunlockput(t, p.ret), k)
           ELSE [iput(iunlockput(t, p.ret), k) EXCEPT !.ret = 0]))

\* The end_op of the two early returns is the code's.
sys_dolink(s, old, new) ==
  Then(namei(s, old), LAMBDA n :
    IF n.ret = 0 THEN [end_op(n) EXCEPT !.ret = -1]
    ELSE Then(ilock(n, n.ret), LAMBDA l :
      IF l.icache[n.ret].ino.type = T_DIR
      THEN [end_op(iunlockput(l, n.ret)) EXCEPT !.ret = -1]
      ELSE LinkName(iunlock(iupdate([l EXCEPT !.icache[n.ret].ino.nlink = @ + 1], n.ret), n.ret),
                    n.ret, new)))

sys_rename(s, path1, path2) ==
  end_op(Then(sys_dounlink(begin_op(s), path2), LAMBDA u :
    IF u.ret \notin {0, ENOENT} THEN u
    ELSE Then(sys_dolink(u, path1, path2), LAMBDA l :
           IF l.ret # 0 THEN l ELSE sys_dounlink(l, path1))))

-----------------------------------------------------------------------------
(* Open files *)

fileclose(s, f) ==
  [end_op(iput(begin_op(s), s.ftable[f].ip)) EXCEPT !.ftable[f] = NoFile]

\* The next two run outside transactions.
filestat(s, f) == iunlock(ilock(s, s.ftable[f].ip), s.ftable[f].ip)

\* Of the whole file.
fileread(s, f) ==
  Then(ilock(s, s.ftable[f].ip), LAMBDA l :
    [iunlock(readi(l, s.ftable[f].ip), s.ftable[f].ip) EXCEPT !.ret = 0])

\* The loop of fuse_readdir: sys_readdirent fails on what is no directory.
ReadEntries(s, f) ==
  IF s.icache[s.ftable[f].ip].ino.type = T_DIR THEN fileread(s, f) ELSE s

\* The transaction of sys_truncate, which does not lock the inode.
TruncateFile(s, f) == end_op(itrunc(begin_op(s), s.ftable[f].ip))

\* The transaction of sys_utime.
TouchFile(s, f) ==
  LET k == s.ftable[f].ip
  IN  Then(ilock(begin_op(s), k), LAMBDA l : end_op(iunlock(iupdate(l, k), k)))

\* The hole in front of a write is filled in one transaction.
FillHole(s, f, off) ==
  LET k == s.ftable[f].ip
  IN  Then(ilock(begin_op(s), k), LAMBDA l :
        end_op(iunlock(zeroi(l, k, l.icache[k].ino.size, off - l.icache[k].ino.size), k)))


\* What filewrite writes of n units in its next transaction.
Part(n) == IF n > CHUNK THEN CHUNK ELSE n

\* ret is kept: a write that fails ends the call.
WritePart(s, f, off, n) ==
  LET k == s.ftable[f].ip
  IN  Then(ilock(begin_op(s), k), LAMBDA l :
        Then(writei(l, k, off, n), LAMBDA w : [end_op(iunlock(w, k)) EXCEPT !.ret = w.ret]))

-----------------------------------------------------------------------------
(* The calls of the server *)

Idle    == work = <<>> /\ ~ fs.panic
Opened  == {f \in 1 .. NFILE : fs.ftable[f].ref > 0}
FileSize(f) == fs.icache[fs.ftable[f].ip].ino.size

\* A call that is a single transaction.
Call(s) == Idle /\ fs' = s /\ UNCHANGED work

\* A call that opens path and does the steps todo with the file.
ByPath(path, writable, todo) ==
  /\ Idle
  /\ fs' = sys_open(fs, path, writable)
  /\ work' = IF fs'.ftable = fs.ftable THEN <<>>
             ELSE [i \in DOMAIN todo |-> [op |-> todo[i], f |-> filealloc(fs)]]

fuse_open(path, writable) == Call(sys_open(fs, path, writable))
fuse_create(path, writable) == Call(sys_create(fs, path, writable))
fuse_mkdir(path)          == Call(sys_make(fs, path, T_DIR))
fuse_mknod(path)          == Call(sys_make(fs, path, T_SOCK))
fuse_unlink(path)         == Call(sys_unlink(fs, path))
fuse_release(f)           == f \in Opened /\ Call(fileclose(fs, f))
fuse_read(f)              == f \in Opened /\ Call(fileread(fs, f))
fuse_getattr(path)        == ByPath(path, FALSE, <<"stat", "close">>)
fuse_readdir(path)        == ByPath(path, FALSE, <<"readdir", "close">>)
fuse_truncate(path)       == ByPath(path, TRUE, <<"truncate", "close">>)
fuse_utimens(path)        == ByPath(path, TRUE, <<"utime", "close">>)

\* The inode number that a path names, 0 if there is none.
Names(path) ==
  LET In(i, name) == IF i = 0 \/ fs.dino[i].type # T_DIR THEN 0
                     ELSE LET J == {j \in DOMAIN fs.dent[i] :
                                      fs.dent[i][j].inum # 0 /\ fs.dent[i][j].name = name}
                          IN  IF J = {} THEN 0 ELSE fs.dent[i][Min(J)].inum
  IN  FoldLeft(In, ROOTINO, path)

IsDir(path) == Names(path) # 0 /\ fs.dino[Names(path)].type = T_DIR

\* The kernel passes a rename on when the source exists, and a target that
\* exists is another object of the same kind and not inside the source.
fuse_rename(path1, path2) ==
  /\ Names(path1) # 0
  /\ Names(path1) # Names(path2)
  /\ ~ IsPrefix(path1, path2)
  /\ Names(path2) # 0 => IsDir(path1) = IsDir(path2)
  /\ RENAME_DIRS \/ ~ IsDir(path1)
  /\ Call(sys_rename(fs, path1, path2))

\* sys_write and filewrite up to the first transaction.  Bounded to the files
\* that direct and indirect blocks can hold.
fuse_write(f, off, n) ==
  /\ Idle
  /\ off + n <= (NDIRECT + NINDIRECT) * BSIZE
  /\ f \in Opened /\ fs.ftable[f].writable
  /\ off <= FileSize(f) + MAXHOLE
  /\ work' = (IF off > FileSize(f) THEN <<[op |-> "hole", f |-> f, off |-> off]>> ELSE <<>>)
             \o <<[op |-> "write", f |-> f, off |-> off, n |-> n]>>
  /\ UNCHANGED fs

\* The next transaction of the current call.
Step ==
  /\ work # <<>> /\ ~ fs.panic
  /\ LET w == Head(work)
     IN  \/ /\ w.op = "stat"
            /\ fs' = filestat(fs, w.f) /\ work' = Tail(work)
         \/ /\ w.op = "readdir"
            /\ fs' = ReadEntries(fs, w.f) /\ work' = Tail(work)
         \/ /\ w.op = "close"
            /\ fs' = fileclose(fs, w.f) /\ work' = Tail(work)
         \/ /\ w.op = "truncate"
            /\ fs' = TruncateFile(fs, w.f) /\ work' = Tail(work)
         \/ /\ w.op = "utime"
            /\ fs' = TouchFile(fs, w.f) /\ work' = Tail(work)
         \/ /\ w.op = "hole"
            /\ fs' = FillHole(fs, w.f, w.off) /\ work' = Tail(work)
         \/ /\ w.op = "write"
            /\ LET m == Part(w.n)
                   t == WritePart(fs, w.f, w.off, m)
               IN  /\ fs' = [t EXCEPT !.ret = 0]
                   /\ work' = IF t.ret < 0 \/ m = w.n THEN <<>>
                              ELSE <<[w EXCEPT !.off = @ + m, !.n = @ - m]>>

FsInit ==
  /\ fs = mkfs @@ [icache |-> [k \in 1 .. NINODE |-> NoEntry],
                   logged |-> {}, outstanding |-> 0, panic |-> FALSE, ret |-> 0,
                   ftable |-> [f \in 1 .. NFILE |-> NoFile], stable |-> mkfs,
                   overrun |-> FALSE]
  /\ work = <<>>

\* Calls that change what exists and what is open.
NameCall ==
  \/ \E p \in PATHS :
       \/ fuse_unlink(p)
       \/ \E writable \in BOOLEAN : fuse_create(p, writable) \/ fuse_open(p, writable)
       \/ \E q \in PATHS : fuse_rename(p, q)
  \/ \E f \in 1 .. NFILE : fuse_release(f)

\* Calls about directories and sockets.
TreeCall ==
  \E p \in PATHS : fuse_mkdir(p) \/ fuse_mknod(p) \/ fuse_readdir(p)

\* Calls about the contents of files.
FileCall ==
  \/ \E p \in PATHS : fuse_getattr(p) \/ fuse_truncate(p) \/ fuse_utimens(p)
  \/ \E f \in 1 .. NFILE :
       \/ fuse_read(f)
       \/ \E w \in WRITES : fuse_write(f, w[1], w[2])

FsNext == Step \/ NameCall \/ TreeCall \/ FileCall

FsSpec == FsInit /\ [][FsNext]_fsVars

-----------------------------------------------------------------------------
(* Properties *)

\* How often inode i is linked to: by an entry of a directory, and by the ".."
\* of every directory in it; the root has one link more.
Links(im, i) ==
  LET Linked  == {d \in Inums : im.dino[d].type = T_DIR /\ im.dino[d].nlink > 0}
      Counts(d, e) == /\ e.inum = i
                      /\ e.name # "."
                      /\ e.name = ".." => d # ROOTINO
      Entry   == UNION {{<<d, j>> : j \in {x \in DOMAIN im.dent[d] : Counts(d, im.dent[d][x])}} :
                          d \in Linked}
  IN  Cardinality(Entry) + (IF i = ROOTINO THEN 1 ELSE 0)

\* The blocks of a file of n units: data blocks and the indirect block.
BlocksFor(n) ==
  LET b == (n + BSIZE - 1) \div BSIZE IN b + (IF b > NDIRECT THEN 1 ELSE 0)

\* Whatever transaction a power failure follows, the disk holds a consistent
\* file system: link counts are right (no entry names a free inode), every
\* inode has exactly the blocks its size calls for, no block has two uses,
\* and the bitmap is the set of blocks in use, so that no block is lost.  This
\* spans create, mkdir, unlink, rename, filewrite and iput.
ImageConsistent ==
  LET im == fs.stable
      Of(i) == FileBlocks(im, im.dino[i])
  IN  /\ \A i \in Inums :
           /\ im.dino[i].nlink = Links(im, i)
           /\ Cardinality(Of(i)) = BlocksFor(im.dino[i].size)
           /\ im.dino[i].type = T_DIR => Len(im.dent[i]) = im.dino[i].size
      /\ \A i, j \in Inums : i # j => Of(i) \cap Of(j) = {}
      /\ im.used = 0 .. nmeta - 1 \cup UNION {Of(i) : i \in Inums}
      /\ Cardinality(im.used) = nmeta + Cardinality(UNION {Of(i) : i \in Inums})

\* Between calls the references of the inode cache are those of open files
\* ("ip->ref tracks the number of in-memory pointers to the entry", fs.c), no
\* inode is locked, and an inode is allocated exactly while it has a link or
\* a file on it is open: no error path leaks a reference, and unlinking an open
\* file frees it when, and only when, the last file is closed.
RefsAreOpenFiles ==
  Idle =>
    LET e(k)      == fs.icache[k]
        Files(k)  == {f \in Opened : fs.ftable[f].ip = k}
        InUse(i)  == \E k \in 1 .. NINODE : e(k).ref > 0 /\ e(k).inum = i
    IN  /\ \A k \in 1 .. NINODE : e(k).ref = Cardinality(Files(k)) /\ ~ e(k).busy
        /\ \A i \in Inums :
             fs.dino[i].type # T_FREE <=> (fs.dino[i].nlink > 0 \/ InUse(i))

\* Between calls a cached inode is the inode on disk, and everything is
\* committed: no path changes ip->xxx, in bmap for one, without iupdate.
CachedInodesAgree ==
  Idle => /\ \A k \in 1 .. NINODE :
               fs.icache[k].valid => fs.icache[k].ino = fs.dino[fs.icache[k].inum]
          /\ Image(fs) = fs.stable


\* No call panics or waits for a lock it holds itself: reads never allocate,
\* no free block or inode is freed or used, no inode is put outside of a
\* transaction that has to free it, and the inode cache has room.
NeverPanics == ~ fs.panic

\* "how many FS sys calls are executing" (sclog.c): none, between calls.
OutstandingIsZero == Idle => fs.outstanding = 0
=============================================================================
