--------------------------- MODULE SnapLogProofs ---------------------------
(***************************************************************************)
(* The logs for the snapshot disk make system calls atomic, for every      *)
(* number of blocks and buffers, if the disk takes the writes between two  *)
(* flushes (WritesFit).                                                    *)
(***************************************************************************)
EXTENDS SnapLog, BioProofs, FiniteSetTheorems

\* The invariant's two clauses on buffers, over the set of buffers.
Clean(c, d) ==
  \A b \in Bufs(c) : "valid" \in b.flags /\ "dirty" \notin b.flags => b.data = d[b.sector]

DirtyIn(c, Q) == \A b \in Bufs(c) : "dirty" \in b.flags => b.sector \in Q

Pending == {sectors[k] : k \in FirstUnwritten .. Len(sectors)}

LEMMA CleanIsOnDisk ==
  ASSUME NEW c, NEW d
  PROVE  (\A i \in 1 .. NBUF : c[i].flags \cap {"valid", "dirty"} = {"valid"}
                                  => c[i].data = d[c[i].sector])
         <=> Clean(c, d)
<1>1. \A F : F \cap {"valid", "dirty"} = {"valid"} <=> "valid" \in F /\ "dirty" \notin F
  OBVIOUS
<1> QED
  BY <1>1 DEF Clean, Bufs

\* An operation on sector s keeps the clean buffers equal to the disk, whose
\* sector s may have changed with it, and the dirty ones in the transaction.
LEMMA BuffersAfterTouch ==
  ASSUME NEW c \in Caches(BLOCK, CONTENT), NEW e \in Caches(BLOCK, CONTENT),
         NEW s \in BLOCK, NEW F, NEW v, NEW d, NEW f, NEW Q, NEW R,
         Touch(c, e, s, [sector |-> s, flags |-> F, data |-> v]),
         Clean(c, d), DirtyIn(c, Q),
         "dirty" \notin F => v = f[s],
         "dirty" \in F => s \in R,
         \A t \in BLOCK : t # s => f[t] = d[t],
         \A t \in Q : t # s => t \in R
  PROVE  Clean(e, f) /\ DirtyIn(e, R)
<1> DEFINE b == [sector |-> s, flags |-> F, data |-> v]
<1>1. b.sector = s /\ b.flags = F /\ b.data = v
  OBVIOUS
<1>2. \A x \in Bufs(e) : x = b \/ (x \in Bufs(c) /\ x.sector # s)
  BY DEF Touch
<1>3. \A x \in Bufs(c) : "valid" \in x.flags => x.sector \in BLOCK
  BY DEF Caches, Bufs
<1> HIDE DEF b
<1>4. Clean(e, f)
  BY <1>1, <1>2, <1>3 DEF Clean
<1>5. DirtyIn(e, R)
  BY <1>1, <1>2 DEF DirtyIn
<1> QED
  BY <1>4, <1>5

\* The view after an operation on sector s of a cache that Clean holds of.
LEMMA ViewOfTouched ==
  ASSUME NEW c \in Caches(BLOCK, CONTENT), NEW e \in Caches(BLOCK, CONTENT),
         NEW s \in BLOCK, NEW F, NEW v, NEW d, NEW t \in BLOCK,
         Touch(c, e, s, [sector |-> s, flags |-> F, data |-> v]), "valid" \in F,
         Clean(c, d)
  PROVE  CacheView(e, t, d[t]) = IF t = s THEN v ELSE CacheView(c, t, d[t])
<1> DEFINE b == [sector |-> s, flags |-> F, data |-> v]
<1>1. b.sector = s /\ b.flags = F /\ b.data = v
  OBVIOUS
<1>2. Touch(c, e, s, b) /\ s # NOSECTOR /\ t # NOSECTOR
  BY BlocksHaveNumbers
<1>3. \A x \in Bufs(c) :
        x.sector = t /\ "valid" \in x.flags /\ "dirty" \notin x.flags => x.data = d[t]
  BY DEF Clean
<1> HIDE DEF b
<1> QED
  BY <1>1, <1>2, <1>3, ViewAfterTouch

\* A cache that nothing is dirty in shows what the disk holds.
LEMMA CleanViewIsDisk ==
  ASSUME NEW c \in Caches(BLOCK, CONTENT), NEW d, Clean(c, d), DirtyIn(c, {}), NEW t \in BLOCK
  PROVE  CacheView(c, t, d[t]) = d[t]
<1>0. Distinct(c) /\ t # NOSECTOR
  BY BlocksHaveNumbers DEF Caches
<1>1. CASE \E b \in Bufs(c) : b.sector = t
  <2>1. PICK b \in Bufs(c) : b.sector = t
    BY <1>1
  <2>2. CacheView(c, t, d[t]) = IF "valid" \in b.flags THEN b.data ELSE d[t]
    BY <1>0, <2>1, ViewOfBuffer
  <2> QED
    BY <2>1, <2>2 DEF Clean, DirtyIn
<1>2. CASE \A b \in Bufs(c) : b.sector # t
  BY <1>2, ViewWithoutBuffer
<1> QED
  BY <1>1, <1>2

\* The empty cache.
LEMMA EmptyCache ==
  /\ binit \in Caches(BLOCK, CONTENT)
  /\ \A d : Clean(binit, d) /\ DirtyIn(binit, {})
  /\ \A t \in BLOCK : \A x : CacheView(binit, t, x) = x
<1> DEFINE r == [sector |-> NOSECTOR, flags |-> {}, data |-> NOSECTOR]
<1>1. r \in Buffers(BLOCK, CONTENT)
  BY DEF Buffers
<1>2. r.sector = NOSECTOR /\ r.flags = {}
  OBVIOUS
<1>3. \A i \in 1 .. NBUF : binit[i] = r
  BY DEF binit
<1>4. binit \in [1 .. NBUF -> Buffers(BLOCK, CONTENT)]
  <2> HIDE DEF r
  <2> QED
    BY <1>1 DEF binit, r
<1>5. Distinct(binit)
  BY <1>2, <1>3 DEF Distinct
<1> HIDE DEF r
<1>6. binit \in Caches(BLOCK, CONTENT)
  BY <1>2, <1>3, <1>4, <1>5 DEF Caches
<1>7. \A b \in Bufs(binit) : b = r
  BY <1>3 DEF Bufs
<1>8. \A d : Clean(binit, d) /\ DirtyIn(binit, {})
  BY <1>2, <1>7 DEF Clean, DirtyIn
<1>9. \A t \in BLOCK : \A x : CacheView(binit, t, x) = x
  BY <1>2, <1>7, ViewWithoutBuffer, BlocksHaveNumbers
<1> QED
  BY <1>6, <1>8, <1>9

-----------------------------------------------------------------------------
(* The invariant *)

\* LogInv with its clauses on buffers restated.
BufferInv ==
  /\ vlt \in [BLOCK -> CONTENT] /\ stb \in [BLOCK -> CONTENT]
  /\ bcache \in Caches(BLOCK, CONTENT)
  /\ sectors \in Seq(BLOCK) /\ Len(sectors) <= MAXOPBLOCKS
  /\ outstanding \in {0, 1} /\ committing \in BOOLEAN /\ running \in BOOLEAN
  /\ wcnt \in Nat /\ tail \in Nat /\ acc_commit \in Nat
  /\ committing => outstanding = 0 /\ tail <= Len(sectors)
  /\ outstanding = 0 /\ ~ committing => sectors = <<>>
  /\ Clean(bcache, vlt) /\ DirtyIn(bcache, Pending)
  /\ acc_commit < CommitsPerFlush
  /\ wcnt <= MKFS_WRITES + acc_commit * MAXOPBLOCKS + (IF committing THEN tail ELSE 0)

LEMMA LogInvOverBuffers == (LogInv <=> BufferInv) /\ (LogInv' <=> BufferInv')
<1>1. CleanBuffersOnDisk <=> Clean(bcache, vlt)
  BY CleanIsOnDisk DEF CleanBuffersOnDisk
<1>2. CleanBuffersOnDisk' <=> Clean(bcache, vlt)'
  BY CleanIsOnDisk DEF CleanBuffersOnDisk
<1>3. (\A i \in 1 .. NBUF : "dirty" \in bcache[i].flags =>
         \E k \in FirstUnwritten .. Len(sectors) : sectors[k] = bcache[i].sector)
      <=> DirtyIn(bcache, Pending)
  BY DEF DirtyIn, Bufs, Pending
<1>4. (\A i \in 1 .. NBUF : "dirty" \in bcache[i].flags =>
         \E k \in FirstUnwritten .. Len(sectors) : sectors[k] = bcache[i].sector)'
      <=> DirtyIn(bcache, Pending)'
  BY DEF DirtyIn, Bufs, Pending
<1>5. LogInv <=> BufferInv
  BY <1>1, <1>3, Zenon DEF LogInv, BufferInv
<1>6. LogInv' <=> BufferInv'
  BY <1>2, <1>4, Zenon DEF LogInv, BufferInv
<1> QED
  BY <1>5, <1>6

LEMMA CommitsAreCounted == CommitsPerFlush \in Nat /\ CommitsPerFlush > 0
  BY LogSizes DEF CommitsPerFlush

\* Products of the number of commits with the size of a transaction.
LEMMA Products ==
  ASSUME NEW m \in Nat, NEW n \in Nat, NEW g \in Nat, n < g
  PROVE  /\ n * m \in Nat /\ g * m \in Nat
         /\ (n + 1) * m = n * m + m
         /\ n * m + m <= g * m
<1>1. (n + 1) * m = n * m + m /\ n * m \in Nat /\ g * m \in Nat
  OBVIOUS
<1>2. PICK k \in Nat : g = (n + 1) + k
  <2>1. g - (n + 1) \in Nat /\ g = (n + 1) + (g - (n + 1))
    OBVIOUS
  <2> QED
    BY <2>1
<1>3. ((n + 1) + k) * m = (n + 1) * m + k * m /\ k * m \in Nat
  OBVIOUS
<1> QED
  BY <1>1, <1>2, <1>3

\* Nothing is dirty between system calls, nor when a commit has written its
\* last block.
LEMMA NothingDirty ==
  ASSUME LogInv, (~ committing /\ outstanding = 0) \/ (committing /\ ~ MoreToWrite)
  PROVE  DirtyIn(bcache, {})
<1>1. DirtyIn(bcache, Pending)
  BY LogInvOverBuffers DEF BufferInv
<1>2. Pending = {}
  <2>1. CASE ~ committing /\ outstanding = 0
    BY <2>1 DEF LogInv, Pending, FirstUnwritten
  <2>2. CASE committing /\ ~ MoreToWrite
    <3>1. Len(sectors) \in Nat /\ tail \in Nat /\ Len(sectors) < tail + 1
      BY <2>2 DEF LogInv, MoreToWrite
    <3>2. FirstUnwritten .. Len(sectors) = {}
      BY <2>2, <3>1 DEF FirstUnwritten
    <3> QED
      BY <3>2 DEF Pending
  <2> QED
    BY <2>1, <2>2
<1> QED
  BY <1>1, <1>2

LEMMA LogInvInit == LogInit => LogInv
<1> SUFFICES ASSUME LogInit PROVE LogInv
  OBVIOUS
<1> USE LogSizes DEF LogInit
<1>1. vlt \in [BLOCK -> CONTENT] /\ stb \in [BLOCK -> CONTENT]
  OBVIOUS
<1>2. DirtyIn(bcache, Pending) /\ Clean(bcache, vlt) /\ bcache \in Caches(BLOCK, CONTENT)
  BY EmptyCache DEF DirtyIn
<1>3. sectors \in Seq(BLOCK) /\ Len(sectors) <= MAXOPBLOCKS
  OBVIOUS
<1>4. outstanding \in {0, 1} /\ committing \in BOOLEAN /\ running \in BOOLEAN
  OBVIOUS
<1>5. wcnt \in Nat /\ tail \in Nat /\ acc_commit \in Nat /\ acc_commit < CommitsPerFlush
  BY CommitsAreCounted
<1>6. wcnt <= MKFS_WRITES + acc_commit * MAXOPBLOCKS + (IF committing THEN tail ELSE 0)
  <2>1. MAXOPBLOCKS \in Nat /\ MKFS_WRITES \in Nat
    OBVIOUS
  <2>2. wcnt = MKFS_WRITES /\ acc_commit = 0 /\ tail = 0
    OBVIOUS
  <2> QED
    BY ONLY <2>1, <2>2
<1> QED
  BY <1>1, <1>2, <1>3, <1>4, <1>5, <1>6, LogInvOverBuffers DEF BufferInv

\* panic stops the program and changes nothing else.
LEMMA LogInvPanic == LogInv /\ panic => LogInv'
<1> SUFFICES ASSUME LogInv, panic PROVE LogInv'
  OBVIOUS
<1>1. /\ vlt' = vlt /\ stb' = stb /\ wcnt' = wcnt /\ bcache' = bcache /\ sectors' = sectors
      /\ outstanding' = outstanding /\ committing' = committing /\ tail' = tail
      /\ acc_commit' = acc_commit /\ running' = FALSE
  BY DEF panic, diskState
<1>2. CleanBuffersOnDisk' /\ FirstUnwritten' = FirstUnwritten
  BY <1>1 DEF LogInv, CleanBuffersOnDisk, FirstUnwritten
<1> QED
  BY <1>1, <1>2, Zenon DEF LogInv

\* Recording a block in the transaction.
LEMMA AbsorbProperties ==
  ASSUME NEW q \in Seq(BLOCK), NEW s \in BLOCK
  PROVE  /\ Absorb(q, s) \in Seq(BLOCK)
         /\ Len(q) <= Len(Absorb(q, s))
         /\ \A k \in 1 .. Len(q) : Absorb(q, s)[k] = q[k]
         /\ \E k \in 1 .. Len(Absorb(q, s)) : Absorb(q, s)[k] = s
<1>0. Len(q) \in Nat /\ DOMAIN q = 1 .. Len(q)
  BY LenProperties
<1>1. CASE \E i \in DOMAIN q : q[i] = s
  BY <1>0, <1>1 DEF Absorb
<1>2. CASE ~ \E i \in DOMAIN q : q[i] = s
  <2>1. Absorb(q, s) = Append(q, s)
    BY <1>2 DEF Absorb
  <2>2. /\ Append(q, s) \in Seq(BLOCK) /\ Len(Append(q, s)) = Len(q) + 1
        /\ \A k \in 1 .. Len(q) : Append(q, s)[k] = q[k]
        /\ Append(q, s)[Len(q) + 1] = s
    BY AppendProperties
  <2> QED
    BY <1>0, <2>1, <2>2
<1> QED
  BY <1>1, <1>2

-----------------------------------------------------------------------------
(* Each action keeps the invariant and is a step of the atomic store *)

StoreStep == [Store!store_next]_<<View, stb, outstanding>>

\* Where neither the cache nor the disk changes, the system calls' view does not.
LEMMA SameView == UNCHANGED <<vlt, bcache>> => View' = View
  BY DEF View

LEMMA BeginOp == BufferInv /\ begin_op => BufferInv' /\ StoreStep
<1> SUFFICES ASSUME BufferInv, begin_op PROVE BufferInv' /\ StoreStep
  OBVIOUS
<1>1. /\ outstanding = 0 /\ ~ committing /\ outstanding' = 1
      /\ UNCHANGED <<vlt, stb, wcnt, bcache, sectors, committing, tail, acc_commit, running>>
  BY DEF begin_op, NoCall, diskState
<1>2. Pending' = Pending
  BY <1>1 DEF Pending, FirstUnwritten
<1>3. BufferInv'
  BY <1>1, <1>2 DEF BufferInv
<1>4. Store!call
  BY <1>1, SameView DEF Store!call
<1> QED
  BY <1>3, <1>4 DEF StoreStep, Store!store_next

LEMMA EndOp == BufferInv /\ end_op => BufferInv' /\ StoreStep
<1> SUFFICES ASSUME BufferInv, end_op PROVE BufferInv' /\ StoreStep
  OBVIOUS
<1>1. /\ outstanding = 1 /\ ~ committing /\ outstanding' = 0 /\ committing' = TRUE /\ tail' = 0
      /\ UNCHANGED <<vlt, stb, wcnt, bcache, sectors, acc_commit, running>>
  <2>1. outstanding = 1 /\ outstanding' = 0
    BY DEF end_op, InCall, BufferInv
  <2>2. committing' = TRUE
    BY <2>1, Zenon DEF end_op
  <2> QED
    BY <2>1, <2>2 DEF end_op, InCall, diskState
<1>2. Pending' = Pending
  BY <1>1 DEF Pending, FirstUnwritten
<1>3. wcnt' <= MKFS_WRITES + acc_commit' * MAXOPBLOCKS + tail'
  <2>1. wcnt <= MKFS_WRITES + acc_commit * MAXOPBLOCKS + 0
    BY <1>1 DEF BufferInv
  <2> QED
    BY <1>1, <2>1
<1>4. Len(sectors) \in Nat
  BY DEF BufferInv
<1>5. BufferInv'
  BY <1>1, <1>2, <1>3, <1>4 DEF BufferInv
<1>6. Store!return
  BY <1>1, SameView DEF Store!return
<1> QED
  BY <1>5, <1>6 DEF StoreStep, Store!store_next

\* The flush makes durable what the system calls see, when nothing is dirty.
LEMMA FlushHardens ==
  ASSUME BufferInv, DirtyIn(bcache, {}), ideflush, outstanding = 0,
         UNCHANGED <<bcache, outstanding>>
  PROVE  StoreStep /\ View' = stb' /\ vlt' = stb'
<1>1. stb' = vlt /\ vlt' = vlt
  BY DEF ideflush, Disk!spec_flush
<1>2. \A t \in BLOCK : CacheView(bcache, t, vlt[t]) = vlt[t]
  BY CleanViewIsDisk DEF BufferInv
<1>3. View = vlt
  BY <1>2 DEF View, BufferInv
<1>4. View' = View
  BY <1>1, SameView
<1>5. Store!harden
  BY <1>1, <1>3, <1>4 DEF Store!harden
<1> QED
  BY <1>1, <1>3, <1>4, <1>5 DEF StoreStep, Store!store_next

LEMMA FuseFsync == BufferInv /\ fuse_fsync => BufferInv' /\ StoreStep
<1> SUFFICES ASSUME BufferInv, fuse_fsync PROVE BufferInv' /\ StoreStep
  OBVIOUS
<1>1. /\ outstanding = 0 /\ ~ committing /\ ideflush
      /\ UNCHANGED <<bcache, sectors, outstanding, committing, tail, acc_commit, running>>
  BY DEF fuse_fsync, NoCall
<1>2. stb' = vlt /\ vlt' = vlt /\ wcnt' = 0
  BY <1>1 DEF ideflush, Disk!spec_flush
<1>3. DirtyIn(bcache, {})
  <2>1. LogInv
    BY LogInvOverBuffers
  <2>2. (~ committing /\ outstanding = 0) \/ (committing /\ ~ MoreToWrite)
    BY <1>1
  <2> QED
    BY <2>1, <2>2, NothingDirty
<1>4. Pending' = Pending
  BY <1>1 DEF Pending, FirstUnwritten
<1>5. wcnt' <= MKFS_WRITES + acc_commit' * MAXOPBLOCKS
  <2>1. acc_commit * MAXOPBLOCKS \in Nat
    BY Products, LogSizes, CommitsAreCounted DEF BufferInv
  <2> QED
    BY <1>1, <1>2, <2>1, LogSizes
<1>6. BufferInv'
  <2>1. wcnt' <= MKFS_WRITES + acc_commit' * MAXOPBLOCKS + (IF committing' THEN tail' ELSE 0)
    <3>1. acc_commit' * MAXOPBLOCKS \in Nat /\ MKFS_WRITES \in Nat /\ ~ committing'
      BY <1>1, Products, LogSizes, CommitsAreCounted DEF BufferInv
    <3> QED
      BY <1>5, <3>1
  <2> QED
    BY <1>1, <1>2, <1>4, <2>1 DEF BufferInv
<1> QED
  BY <1>1, <1>3, <1>6, FlushHardens

LEMMA Restarts == BufferInv /\ Restart => BufferInv' /\ StoreStep
<1> SUFFICES ASSUME BufferInv, Restart PROVE BufferInv' /\ StoreStep
  OBVIOUS
<1>1. /\ vlt' = stb /\ stb' = stb /\ wcnt' = 0 /\ bcache' = binit /\ sectors' = <<>>
      /\ outstanding' = 0 /\ committing' = FALSE /\ tail' = 0 /\ acc_commit' = 0
      /\ running' = TRUE
  BY DEF Restart, Disk!spec_recovery
<1>2. DirtyIn(bcache, Pending)' /\ Clean(bcache, vlt)' /\ bcache' \in Caches(BLOCK, CONTENT)
  BY <1>1, EmptyCache DEF DirtyIn
<1>3. wcnt' <= MKFS_WRITES + acc_commit' * MAXOPBLOCKS + (IF committing' THEN tail' ELSE 0)
  <2>1. MAXOPBLOCKS \in Nat /\ MKFS_WRITES \in Nat
    BY LogSizes
  <2> QED
    BY ONLY <1>1, <2>1
<1>4. /\ sectors' \in Seq(BLOCK) /\ Len(sectors') <= MAXOPBLOCKS
      /\ wcnt' \in Nat /\ tail' \in Nat /\ acc_commit' \in Nat /\ acc_commit' < CommitsPerFlush
      /\ outstanding' \in {0, 1}
  BY <1>1, CommitsAreCounted, LogSizes
<1>5. BufferInv'
  <2>1. committing' \in BOOLEAN /\ running' \in BOOLEAN /\ ~ committing'
    BY <1>1, Zenon
  <2>2. vlt' \in [BLOCK -> CONTENT] /\ stb' \in [BLOCK -> CONTENT]
    BY <1>1 DEF BufferInv
  <2> QED
    BY <1>1, <1>2, <1>3, <1>4, <2>1, <2>2, Zenon DEF BufferInv
<1>6. View' = stb
  <2>1. View' = [s \in BLOCK |-> CacheView(binit, s, stb[s])]
    BY <1>1 DEF View
  <2> QED
    BY <2>1, EmptyCache DEF BufferInv
<1>7. Store!restart
  BY <1>1, <1>6 DEF Store!restart
<1> QED
  BY <1>5, <1>7 DEF StoreStep, Store!store_next

LEMMA EndOfCommit ==
  ASSUME BufferInv, CommitEnd
  PROVE  BufferInv' /\ StoreStep /\ (~ GROUP_COMMIT => View' = stb' /\ vlt' = stb')
<1>1. /\ committing /\ ~ MoreToWrite /\ sectors' = <<>> /\ committing' = FALSE
      /\ outstanding = 0 /\ UNCHANGED <<bcache, outstanding, tail, running>>
  BY DEF CommitEnd, BufferInv
<1>2. DirtyIn(bcache, {})
  <2>1. LogInv
    BY LogInvOverBuffers
  <2> QED
    BY <1>1, <2>1, NothingDirty
<1>3. vlt' = vlt /\ Clean(bcache, vlt)' /\ DirtyIn(bcache, Pending)'
  <2>1. vlt' = vlt
    BY DEF CommitEnd, commit, commit_gcm, ideflush, Disk!spec_flush, diskState
  <2> QED
    BY <1>1, <1>2, <2>1 DEF DirtyIn, BufferInv
<1>4. wcnt <= MKFS_WRITES + acc_commit * MAXOPBLOCKS + Len(sectors)
  <2>1. /\ wcnt <= MKFS_WRITES + acc_commit * MAXOPBLOCKS + tail
        /\ tail <= Len(sectors) /\ wcnt \in Nat /\ tail \in Nat /\ Len(sectors) \in Nat
    BY <1>1 DEF BufferInv
  <2>2. acc_commit * MAXOPBLOCKS \in Nat /\ MKFS_WRITES \in Nat
    BY Products, LogSizes, CommitsAreCounted DEF BufferInv
  <2> QED
    BY ONLY <2>1, <2>2
<1>5. /\ stb' \in [BLOCK -> CONTENT] /\ wcnt' \in Nat /\ acc_commit' \in Nat
      /\ acc_commit' < CommitsPerFlush
      /\ wcnt' <= MKFS_WRITES + acc_commit' * MAXOPBLOCKS
  <2>0. /\ acc_commit \in Nat /\ MAXOPBLOCKS \in Nat /\ MKFS_WRITES \in Nat
        /\ acc_commit * MAXOPBLOCKS \in Nat
        /\ (acc_commit + 1) * MAXOPBLOCKS = acc_commit * MAXOPBLOCKS + MAXOPBLOCKS
        /\ wcnt \in Nat /\ Len(sectors) \in Nat /\ Len(sectors) <= MAXOPBLOCKS
        /\ acc_commit < CommitsPerFlush
    BY Products, LogSizes, CommitsAreCounted DEF BufferInv
  <2>1. CASE ideflush /\ acc_commit' = 0
    <3>1. stb' = vlt /\ wcnt' = 0
      BY <2>1 DEF ideflush, Disk!spec_flush
    <3> QED
      BY <2>0, <2>1, <3>1, CommitsAreCounted DEF BufferInv
  <2>2. CASE ideflush /\ acc_commit' = acc_commit
    <3>1. stb' = vlt /\ wcnt' = 0
      BY <2>2 DEF ideflush, Disk!spec_flush
    <3> QED
      BY <2>0, <2>2, <3>1 DEF BufferInv
  <2>3. CASE /\ UNCHANGED diskState /\ GROUP_COMMIT
             /\ acc_commit' = IF sectors = <<>> THEN acc_commit ELSE acc_commit + 1
             /\ acc_commit' # GROUP
    <3>1. stb' = stb /\ wcnt' = wcnt /\ CommitsPerFlush = GROUP /\ GROUP \in Nat
      BY <2>3, LogSizes DEF diskState, CommitsPerFlush
    <3>2. CASE sectors = <<>>
      <4>1. Len(sectors) = 0 /\ acc_commit' = acc_commit
        BY <2>3, <3>2
      <4> QED
        BY <1>4, <2>0, <3>1, <4>1 DEF BufferInv
    <3>3. CASE sectors # <<>>
      <4>1. acc_commit' = acc_commit + 1
        BY <2>3, <3>3
      <4> QED
        BY <1>4, <2>0, <2>3, <3>1, <4>1 DEF BufferInv
    <3> QED
      BY <3>2, <3>3
  <2> QED
    BY <2>1, <2>2, <2>3 DEF CommitEnd, commit, commit_gcm
<1>6. BufferInv'
  <2>1. wcnt' <= MKFS_WRITES + acc_commit' * MAXOPBLOCKS + (IF committing' THEN tail' ELSE 0)
    <3>1. acc_commit' * MAXOPBLOCKS \in Nat /\ MKFS_WRITES \in Nat
      BY <1>5, Products, LogSizes, CommitsAreCounted
    <3> QED
      BY <1>1, <1>5, <3>1
  <2>2. sectors' \in Seq(BLOCK) /\ Len(sectors') <= MAXOPBLOCKS
    BY <1>1, LogSizes
  <2>3. committing' \in BOOLEAN /\ ~ committing' /\ bcache' = bcache
    BY <1>1, Zenon
  <2> QED
    BY <1>1, <1>3, <1>5, <2>1, <2>2, <2>3, Zenon DEF BufferInv
<1>7. CASE ideflush
  BY <1>1, <1>2, <1>6, <1>7, FlushHardens
<1>8. CASE UNCHANGED diskState /\ GROUP_COMMIT
  BY <1>1, <1>6, <1>8, SameView DEF StoreStep, diskState
<1> QED
  BY <1>7, <1>8 DEF CommitEnd, commit, commit_gcm

\* panic stops the program and changes nothing else.
LEMMA Panics == BufferInv /\ panic => BufferInv' /\ StoreStep
<1> SUFFICES ASSUME BufferInv, panic PROVE BufferInv' /\ StoreStep
  OBVIOUS
<1>1. BufferInv'
  BY LogInvPanic, LogInvOverBuffers
<1>2. View' = View /\ stb' = stb /\ outstanding' = outstanding
  BY SameView DEF panic, diskState
<1> QED
  BY <1>1, <1>2 DEF StoreStep

LEMMA ReadsBlock ==
  ASSUME NEW s \in BLOCK, BufferInv, Read(s)
  PROVE  BufferInv' /\ StoreStep
<1>1. CASE ~ CanGet(bcache, s)
  BY <1>1, Panics DEF Read
<1>2. CASE CanGet(bcache, s)
  <2> DEFINE e == brelse(bread(bcache, s, vlt[s]), s)
             w == CacheView(bcache, s, vlt[s])
  <2>1. /\ bcache' = e
        /\ UNCHANGED <<vlt, stb, wcnt, sectors, outstanding, committing, tail, acc_commit, running>>
    BY <1>2 DEF Read, diskState
  <2>2. /\ bcache \in Caches(BLOCK, CONTENT) /\ s # NOSECTOR /\ vlt[s] \in CONTENT
        /\ vlt \in [BLOCK -> CONTENT] /\ Clean(bcache, vlt) /\ DirtyIn(bcache, Pending)
    BY BlocksHaveNumbers, SMTT(30) DEF BufferInv
  <2>3. PICK F \in SUBSET {"valid", "dirty"} :
          /\ "valid" \in F
          /\ "dirty" \in F <=> \E x \in Bufs(bcache) : x.sector = s /\ "dirty" \in x.flags
          /\ w \in CONTENT
          /\ e \in Caches(BLOCK, CONTENT)
          /\ Touch(bcache, e, s, [sector |-> s, flags |-> F, data |-> w])
    BY <1>2, <2>2, ReadTouches
  <2> HIDE DEF e
  <2>4. "dirty" \in F => s \in Pending
    BY <2>2, <2>3 DEF DirtyIn
  <2>5. "dirty" \notin F => w = vlt[s]
    <3> SUFFICES ASSUME "dirty" \notin F PROVE w = vlt[s]
      OBVIOUS
    <3>1. CASE \E x \in Bufs(bcache) : x.sector = s
      <4>1. PICK x \in Bufs(bcache) : x.sector = s
        BY <3>1
      <4>2. w = IF "valid" \in x.flags THEN x.data ELSE vlt[s]
        BY <2>2, <4>1, ViewOfBuffer DEF Caches
      <4>3. CASE "dirty" \in x.flags
        BY <2>3, <4>1, <4>3
      <4>4. CASE "dirty" \notin x.flags
        BY <2>2, <4>1, <4>2, <4>4 DEF Clean
      <4> QED
        BY <4>3, <4>4
    <3>2. CASE \A x \in Bufs(bcache) : x.sector # s
      BY <3>2, ViewWithoutBuffer
    <3> QED
      BY <3>1, <3>2
  <2>6. Clean(e, vlt) /\ DirtyIn(e, Pending)
    <3> HIDE DEF w
    <3> QED
      BY <2>2, <2>3, <2>4, <2>5, BuffersAfterTouch
  <2>7. \A t \in BLOCK : CacheView(e, t, vlt[t]) = CacheView(bcache, t, vlt[t])
    BY <2>2, <2>3, ViewOfTouched
  <2>8. View' = View
    BY <2>1, <2>7 DEF View
  <2>9. Pending' = Pending
    BY <2>1 DEF Pending, FirstUnwritten
  <2>10. BufferInv'
    BY <2>1, <2>3, <2>6, <2>9 DEF BufferInv
  <2> QED
    BY <2>1, <2>8, <2>10 DEF StoreStep
<1> QED
  BY <1>1, <1>2

LEMMA LogsBlock ==
  ASSUME NEW s \in BLOCK, NEW v \in CONTENT, BufferInv, log_write(s, v)
  PROVE  BufferInv' /\ StoreStep
<1>1. CASE ~ CanGet(bcache, s)
  BY <1>1, Panics DEF log_write
<1>2. CASE CanGet(bcache, s)
  <2> DEFINE e == brelse(MarkDirty(Modify(bread(bcache, s, vlt[s]), s, v), s), s)
  <2>1. /\ bcache' = e /\ sectors' = Absorb(sectors, s) /\ Len(sectors') <= MAXOPBLOCKS
        /\ UNCHANGED <<vlt, stb, wcnt, outstanding, committing, tail, acc_commit, running>>
    BY <1>2 DEF log_write, diskState
  <2>2. /\ bcache \in Caches(BLOCK, CONTENT) /\ s # NOSECTOR /\ vlt[s] \in CONTENT
        /\ vlt \in [BLOCK -> CONTENT] /\ Clean(bcache, vlt) /\ DirtyIn(bcache, Pending)
        /\ sectors \in Seq(BLOCK)
    BY BlocksHaveNumbers DEF BufferInv
  <2>3. /\ e \in Caches(BLOCK, CONTENT)
        /\ Touch(bcache, e, s, [sector |-> s, flags |-> {"valid", "dirty"}, data |-> v])
    BY <1>2, <2>2, LogWriteTouches
  <2> HIDE DEF e
  <2>4. ~ committing /\ outstanding = 1
    BY SMTT(30) DEF log_write, InCall, BufferInv
  <2>5. sectors' \in Seq(BLOCK) /\ s \in Pending' /\ \A t \in Pending : t \in Pending'
    <3>1. Pending = {sectors[k] : k \in 1 .. Len(sectors)}
      BY <2>4, SMTT(30) DEF Pending, FirstUnwritten
    <3>2. Pending' = {sectors'[k] : k \in 1 .. Len(sectors')}
      BY <2>1, <2>4 DEF Pending, FirstUnwritten
    <3>3. /\ sectors' \in Seq(BLOCK) /\ Len(sectors) <= Len(sectors')
          /\ \A k \in 1 .. Len(sectors) : sectors'[k] = sectors[k]
          /\ \E k \in 1 .. Len(sectors') : sectors'[k] = s
      BY <2>1, <2>2, AbsorbProperties, Zenon
    <3>4. Len(sectors) \in Nat /\ Len(sectors') \in Nat
      BY <2>2, <3>3, LenProperties
    <3> QED
      BY <3>1, <3>2, <3>3, <3>4
  <2>6. Clean(e, vlt) /\ DirtyIn(e, Pending')
    BY <2>2, <2>3, <2>5, BuffersAfterTouch
  <2>7. \A t \in BLOCK : CacheView(e, t, vlt[t]) = IF t = s THEN v ELSE CacheView(bcache, t, vlt[t])
    BY <2>2, <2>3, ViewOfTouched
  <2>8. View' = [View EXCEPT ![s] = v]
    BY <2>1, <2>7 DEF View
  <2>9. BufferInv'
    BY <2>1, <2>3, <2>4, <2>5, <2>6 DEF BufferInv
  <2>10. Store!update(s, v)
    BY <2>1, <2>4, <2>8 DEF Store!update
  <2> QED
    BY <2>9, <2>10 DEF StoreStep, Store!store_next
<1> QED
  BY <1>1, <1>2

\* The disk takes every write of a commit.
LEMMA WriteAccepted ==
  ASSUME WritesFit, BufferInv, committing, MoreToWrite
  PROVE  wcnt < MAX_WCNT /\ wcnt + 1 <= MKFS_WRITES + acc_commit * MAXOPBLOCKS + (tail + 1)
<1>1. /\ acc_commit \in Nat /\ MAXOPBLOCKS \in Nat /\ MKFS_WRITES \in Nat /\ MAX_WCNT \in Nat
      /\ wcnt \in Nat /\ tail \in Nat /\ Len(sectors) \in Nat /\ CommitsPerFlush \in Nat
      /\ acc_commit < CommitsPerFlush
  BY LogSizes, CommitsAreCounted DEF BufferInv
<1>2. /\ acc_commit * MAXOPBLOCKS \in Nat /\ CommitsPerFlush * MAXOPBLOCKS \in Nat
      /\ acc_commit * MAXOPBLOCKS + MAXOPBLOCKS <= CommitsPerFlush * MAXOPBLOCKS
  BY <1>1, Products
<1>3. wcnt <= MKFS_WRITES + acc_commit * MAXOPBLOCKS + tail
  BY DEF BufferInv
<1>4. tail < Len(sectors) /\ Len(sectors) <= MAXOPBLOCKS
  BY DEF MoreToWrite, BufferInv
<1>5. MKFS_WRITES + CommitsPerFlush * MAXOPBLOCKS <= MAX_WCNT
  BY DEF WritesFit
<1> QED
  BY ONLY <1>1, <1>2, <1>3, <1>4, <1>5

LEMMA WritesLog ==
  ASSUME WritesFit, BufferInv, write_log
  PROVE  BufferInv' /\ StoreStep
<1> DEFINE s == sectors[tail + 1]
<1>0. committing /\ MoreToWrite
  BY DEF write_log
<1>1. CASE ~ CanGet(bcache, s)
  BY <1>1, Panics DEF write_log
<1>2. CASE CanGet(bcache, s)
  <2> DEFINE e == brelse(bwrite(bread(bcache, s, vlt[s]), s), s)
             w == CacheView(bcache, s, vlt[s])
  <2>1. /\ bcache' = e /\ tail' = tail + 1
        /\ unix_write(s, BufData(bread(bcache, s, vlt[s]), s))
        /\ UNCHANGED <<sectors, outstanding, committing, acc_commit, running>>
    BY <1>2 DEF write_log
  <2>2. /\ tail \in Nat /\ sectors \in Seq(BLOCK) /\ Len(sectors) \in Nat
        /\ tail + 1 \in 1 .. Len(sectors)
    BY <1>0 DEF BufferInv, MoreToWrite
  <2>3. s \in BLOCK
    BY <2>2, ElementOfSeq
  <2>4. /\ bcache \in Caches(BLOCK, CONTENT) /\ s # NOSECTOR /\ vlt[s] \in CONTENT
        /\ vlt \in [BLOCK -> CONTENT] /\ Clean(bcache, vlt) /\ DirtyIn(bcache, Pending)
    BY <2>3, BlocksHaveNumbers DEF BufferInv
  <2>5. /\ e \in Caches(BLOCK, CONTENT) /\ w \in CONTENT
        /\ BufData(bread(bcache, s, vlt[s]), s) = w
        /\ Touch(bcache, e, s, [sector |-> s, flags |-> {"valid"}, data |-> w])
    BY <1>2, <2>3, <2>4, WriteBackTouches
  <2> HIDE DEF e
  <2>6. vlt' = [vlt EXCEPT ![s] = w] /\ wcnt' = wcnt + 1 /\ stb' = stb
    BY <1>0, <2>1, <2>5, WriteAccepted DEF unix_write, Disk!spec_write
  <2>7. vlt' \in [BLOCK -> CONTENT] /\ vlt'[s] = w /\ \A t \in BLOCK : t # s => vlt'[t] = vlt[t]
    BY <2>3, <2>4, <2>5, <2>6
  <2>8. \A t \in Pending : t # s => t \in Pending'
    <3>1. Pending = {sectors[k] : k \in tail + 1 .. Len(sectors)}
      BY <1>0, SMTT(30) DEF Pending, FirstUnwritten
    <3>2. Pending' = {sectors[k] : k \in tail + 2 .. Len(sectors)}
      BY <1>0, <2>1, <2>2 DEF Pending, FirstUnwritten
    <3> QED
      BY <2>2, <3>1, <3>2
  <2> HIDE DEF s, w
  <2>9. Clean(e, vlt') /\ DirtyIn(e, Pending')
    BY <2>3, <2>4, <2>5, <2>7, <2>8, BuffersAfterTouch
  <2>10. \A t \in BLOCK : CacheView(e, t, vlt'[t]) = CacheView(bcache, t, vlt[t])
    <3>1. \A t \in BLOCK : CacheView(e, t, vlt[t]) = IF t = s THEN w ELSE CacheView(bcache, t, vlt[t])
      BY <2>3, <2>4, <2>5, ViewOfTouched
    <3>2. CacheView(e, s, vlt'[s]) = w
      <4> DEFINE b == [sector |-> s, flags |-> {"valid"}, data |-> w]
      <4>1. b \in Bufs(e) /\ b.sector = s /\ "valid" \in b.flags /\ b.data = w
        BY <2>5 DEF Touch
      <4>2. Distinct(e)
        BY <2>5 DEF Caches
      <4> HIDE DEF b
      <4> QED
        BY <2>4, <4>1, <4>2, ViewOfBuffer
    <3> QED
      BY <2>7, <3>1, <3>2 DEF w
  <2>11. View' = View
    BY <2>1, <2>10 DEF View
  <2>12. BufferInv'
    <3>1. wcnt' \in Nat /\ wcnt' <= MKFS_WRITES + acc_commit' * MAXOPBLOCKS + tail'
      BY <1>0, <2>1, <2>6, WriteAccepted DEF BufferInv
    <3>2. tail' \in Nat /\ tail' <= Len(sectors)
      BY <2>1, <2>2
    <3>3. outstanding = 0 /\ stb' \in [BLOCK -> CONTENT] /\ Len(sectors) <= MAXOPBLOCKS
      BY <1>0, <2>6 DEF BufferInv
    <3> QED
      BY <1>0, <2>1, <2>2, <2>5, <2>7, <2>9, <3>1, <3>2, <3>3 DEF BufferInv
  <2> QED
    BY <2>1, <2>6, <2>11, <2>12 DEF StoreStep
<1> QED
  BY <1>1, <1>2

\* Every step of the log.
LEMMA LogStep ==
  ASSUME WritesFit, BufferInv, [LogNext]_logVars
  PROVE  BufferInv' /\ StoreStep
<1>1. CASE begin_op
  BY <1>1, BeginOp
<1>2. CASE end_op
  BY <1>2, EndOp
<1>3. CASE write_log
  BY <1>3, WritesLog
<1>4. CASE CommitEnd
  BY <1>4, EndOfCommit
<1>5. CASE fuse_fsync
  BY <1>5, FuseFsync
<1>6. CASE Restart
  BY <1>6, Restarts
<1>7. CASE \E s \in BLOCK : Read(s)
  BY <1>7, ReadsBlock
<1>8. CASE \E s \in BLOCK, v \in CONTENT : log_write(s, v)
  BY <1>8, LogsBlock
<1>9. CASE UNCHANGED logVars
  <2>1. UNCHANGED <<vlt, stb, wcnt, bcache, sectors, outstanding, committing, tail, acc_commit,
                    running>>
    BY <1>9 DEF logVars, diskState
  <2>2. View' = View /\ Pending' = Pending
    BY <2>1, SameView DEF Pending, FirstUnwritten
  <2>3. BufferInv'
    BY <2>1, <2>2 DEF BufferInv
  <2> QED
    BY <2>1, <2>2, <2>3 DEF StoreStep
<1> QED
  BY <1>1, <1>2, <1>3, <1>4, <1>5, <1>6, <1>7, <1>8, <1>9 DEF LogNext

\* A commit ends with a flush in sclog.c, and a power failure ends it too.
LEMMA CommitStep ==
  ASSUME WritesFit, ~ GROUP_COMMIT, BufferInv, [LogNext]_logVars, committing, ~ committing'
  PROVE  View' = stb' /\ vlt' = stb'
<1>1. CASE CommitEnd
  BY <1>1, EndOfCommit
<1>2. CASE Restart
  <2>1. vlt' = stb /\ stb' = stb /\ bcache' = binit
    BY <1>2 DEF Restart, Disk!spec_recovery
  <2>2. View' = [s \in BLOCK |-> CacheView(binit, s, stb[s])]
    BY <2>1 DEF View
  <2> QED
    BY <2>1, <2>2, EmptyCache DEF BufferInv
<1> QED
  BY <1>1, <1>2, Zenon DEF LogNext, begin_op, end_op, write_log, fuse_fsync, Read, log_write, panic,
                    NoCall, InCall, logVars

-----------------------------------------------------------------------------
(* Theorems *)

\* While the disk takes the writes between two flushes, a dirty buffer belongs
\* to the unwritten part of the transaction, a clean one holds what the disk
\* holds, and the writes since the last flush are counted by the commits.
THEOREM LogInvariant == WritesFit => (LogSpec => []LogInv)
<1> SUFFICES ASSUME WritesFit PROVE LogSpec => []LogInv
  OBVIOUS
<1>1. LogInit => LogInv
  BY LogInvInit
<1>2. LogInv /\ [LogNext]_logVars => LogInv'
  BY LogStep, LogInvOverBuffers
<1> QED
  BY <1>1, <1>2, PTL DEF LogSpec

\* Recycling a clean buffer loses nothing, because no write was dropped.
THEOREM CleanBuffersStayOnDisk == WritesFit => (LogSpec => []CleanBuffersOnDisk)
<1>1. LogInv => CleanBuffersOnDisk
  BY DEF LogInv
<1> QED
  BY <1>1, LogInvariant, PTL

\* The logs without a log on the disk make system calls atomic.
THEOREM LogIsAtomic == WritesFit => (LogSpec => ImplementsAtomicStore)
<1> SUFFICES ASSUME WritesFit PROVE LogSpec => ImplementsAtomicStore
  OBVIOUS
<1>1. LogInit => Store!store_init
  <2> SUFFICES ASSUME LogInit PROVE Store!store_init
    OBVIOUS
  <2>1. vlt \in [BLOCK -> CONTENT] /\ stb \in [BLOCK -> CONTENT] /\ outstanding = 0
    BY LogInvInit DEF LogInv, LogInit
  <2>2. View = [s \in BLOCK |-> vlt[s]]
    BY EmptyCache DEF View, LogInit
  <2> QED
    BY <2>1, <2>2 DEF Store!store_init
<1>2. LogInv /\ [LogNext]_logVars => [Store!store_next]_<<View, stb, outstanding>>
  BY LogStep, LogInvOverBuffers DEF StoreStep
<1> QED
  BY <1>1, <1>2, LogInvariant, PTL DEF LogSpec, ImplementsAtomicStore, Store!store

\* In sclog.c a system call is durable when end_op returns.
THEOREM CommitIsDurable == WritesFit /\ ~ GROUP_COMMIT => (LogSpec => DurableWhenReturned)
<1> SUFFICES ASSUME WritesFit, ~ GROUP_COMMIT PROVE LogSpec => DurableWhenReturned
  OBVIOUS
<1>1. LogInv /\ [LogNext]_logVars => [committing /\ ~ committing' => View' = stb' /\ vlt' = stb']_logVars
  BY CommitStep, LogInvOverBuffers
<1> QED
  BY <1>1, LogInvariant, PTL DEF LogSpec, DurableWhenReturned

\* A transaction never pins every buffer: the pinned ones hold different blocks
\* of a transaction that has fewer blocks than the cache has buffers.
LEMMA BufferToRecycle ==
  ASSUME MAXOPBLOCKS < NBUF, BufferInv, NEW s \in BLOCK
  PROVE  CanGet(bcache, s)
<1>1. /\ bcache \in Caches(BLOCK, CONTENT) /\ DirtyIn(bcache, Pending)
      /\ sectors \in Seq(BLOCK) /\ Len(sectors) \in Nat /\ Len(sectors) <= MAXOPBLOCKS
      /\ tail \in Nat
  BY DEF BufferInv
<1>2. Distinct(bcache) /\ \A i \in 1 .. NBUF : "busy" \notin bcache[i].flags
  BY <1>1 DEF Caches
<1>3. ~ Busy(bcache, s)
  <2> SUFFICES ASSUME Busy(bcache, s) PROVE FALSE
    OBVIOUS
  <2>1. PICK i \in 1 .. NBUF : bcache[i].sector = s
    BY DEF Busy, Has
  <2>2. At(bcache, s) = i
    BY <1>2, <2>1, BlocksHaveNumbers, AtIsUnique
  <2> QED
    BY <1>2, <2>1, <2>2 DEF Busy
<1>4. Recyclable(bcache) # {}
  <2> SUFFICES ASSUME Recyclable(bcache) = {} PROVE FALSE
    OBVIOUS
  <2>1. \A i \in 1 .. NBUF : "dirty" \in bcache[i].flags
    BY <1>2 DEF Recyclable
  <2>2. \A i \in 1 .. NBUF : bcache[i].sector # NOSECTOR
    BY <1>1, <2>1, BlocksHaveNumbers DEF Caches
  <2>3. \A i \in 1 .. NBUF : \E k \in 1 .. Len(sectors) : sectors[k] = bcache[i].sector
    <3>1. \A i \in 1 .. NBUF : bcache[i].sector \in Pending
      BY <1>1, <2>1 DEF DirtyIn, Bufs
    <3>2. FirstUnwritten \in Nat /\ FirstUnwritten >= 1
      BY <1>1 DEF FirstUnwritten
    <3>3. \A p \in Pending : \E k \in 1 .. Len(sectors) : sectors[k] = p
      BY <1>1, <3>2 DEF Pending
    <3> QED
      BY <3>1, <3>3
  <2> DEFINE f == [i \in 1 .. NBUF |-> CHOOSE k \in 1 .. Len(sectors) : sectors[k] = bcache[i].sector]
  <2>4. \A i \in 1 .. NBUF : f[i] \in 1 .. Len(sectors) /\ sectors[f[i]] = bcache[i].sector
    BY <2>3
  <2>5. f \in [1 .. NBUF -> 1 .. Len(sectors)]
    BY <2>4
  <2> HIDE DEF f
  <2>6. /\ IsFiniteSet(1 .. NBUF) /\ Cardinality(1 .. NBUF) = NBUF
        /\ IsFiniteSet(1 .. Len(sectors)) /\ Cardinality(1 .. Len(sectors)) = Len(sectors)
    <3>1. \A n \in Nat : IsFiniteSet(1 .. n) /\ Cardinality(1 .. n) = n
      <4> TAKE n \in Nat
      <4>1. 1 \in Int /\ n \in Int /\ (IF 1 > n THEN 0 ELSE n - 1 + 1) = n
        OBVIOUS
      <4> QED
        BY ONLY <4>1, FS_Interval, Zenon
    <3> QED
      BY <1>1, <3>1, CacheHasBuffers
  <2>7. Len(sectors) < NBUF
    BY <1>1, LogSizes, CacheHasBuffers
  <2>8. PICK i \in 1 .. NBUF, j \in 1 .. NBUF : i # j /\ f[i] = f[j]
    <3> DEFINE S == 1 .. NBUF
               T == 1 .. Len(sectors)
    <3>1. f \in [S -> T] /\ IsFiniteSet(S) /\ IsFiniteSet(T) /\ Cardinality(T) < Cardinality(S)
      BY <2>5, <2>6, <2>7
    <3> HIDE DEF S, T
    <3>2. \E x, y \in S : x # y /\ f[x] = f[y]
      BY <3>1, FS_PigeonHole
    <3> QED
      BY <3>2 DEF S
  <2> QED
    BY <1>2, <2>2, <2>4, <2>8 DEF Distinct
<1> QED
  BY <1>3, <1>4 DEF CanGet

\* With more buffers than blocks in a transaction (NBUF is 3 * MAXOPBLOCKS in
\* param.h) bget never panics for want of a buffer.
THEOREM BuffersSuffice == WritesFit /\ MAXOPBLOCKS < NBUF => (LogSpec => []NeverPanics)
<1> SUFFICES ASSUME WritesFit, MAXOPBLOCKS < NBUF PROVE LogSpec => []NeverPanics
  OBVIOUS
<1>1. LogInit => NeverPanics
  BY DEF LogInit, NeverPanics
<1>2. LogInv /\ NeverPanics /\ [LogNext]_logVars => NeverPanics'
  <2> SUFFICES ASSUME LogInv, NeverPanics, [LogNext]_logVars PROVE NeverPanics'
    OBVIOUS
  <2>1. BufferInv
    BY LogInvOverBuffers
  <2>2. \A s \in BLOCK : CanGet(bcache, s)
    BY <2>1, BufferToRecycle
  <2>3. committing /\ MoreToWrite => sectors[tail + 1] \in BLOCK
    BY <2>1, ElementOfSeq DEF BufferInv, MoreToWrite
  <2> QED
    BY <2>2, <2>3, Zenon DEF NeverPanics, LogNext, begin_op, end_op, write_log, CommitEnd, fuse_fsync,
                      Restart, Read, log_write, logVars
<1> QED
  BY <1>1, <1>2, LogInvariant, PTL DEF LogSpec
=============================================================================
