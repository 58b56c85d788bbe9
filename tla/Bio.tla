--------------------------------- MODULE Bio ---------------------------------
(***************************************************************************)
(* The buffer cache (xv6/bio.c) with its driver (xv6/ide.c).  The cache is *)
(* the sequence of its NBUF buffers, most recently used first; a buffer    *)
(* has a sector number, a set of flags and data.  The disk belongs to the  *)
(* caller: bread takes what the disk holds, and a bwrite of sector s sends *)
(* BufData(c, s) to it.                                                    *)
(***************************************************************************)
EXTENDS Naturals, Sequences, SequencesExt

CONSTANTS
  NBUF,       \* number of buffers
  NOSECTOR    \* what a buffer that was never used refers to

ASSUME CacheHasBuffers == NBUF \in Nat \ {0}

binit == [i \in 1 .. NBUF |-> [sector |-> NOSECTOR, flags |-> {}, data |-> NOSECTOR]]

Has(c, s)     == \E i \in 1 .. NBUF : c[i].sector = s
At(c, s)      == CHOOSE i \in 1 .. NBUF : c[i].sector = s
BufData(c, s) == c[At(c, s)].data
Busy(c, s)    == Has(c, s) /\ "busy" \in c[At(c, s)].flags

\* Buffers that may be recycled: B_DIRTY pins a buffer until the log commits.
Recyclable(c) == {i \in 1 .. NBUF : c[i].flags \cap {"busy", "dirty"} = {}}

\* bget finds a buffer; otherwise it panics (the sector is not cached, nothing
\* can be recycled) or waits for itself (the buffer is busy).
CanGet(c, s) == (Has(c, s) \/ Recyclable(c) # {}) /\ ~ Busy(c, s)

bget(c, s) ==
  IF Has(c, s)
  THEN [c EXCEPT ![At(c, s)].flags = @ \cup {"busy"}]
  ELSE LET i == Max(Recyclable(c))
       IN  [c EXCEPT ![i].sector = s, ![i].flags = {"busy"}]

\* A buffer that is not valid is read from the disk, which holds d.
bread(c, s, d) ==
  LET b == bget(c, s)
      i == At(b, s)
  IN  IF "valid" \in b[i].flags THEN b
      ELSE [b EXCEPT ![i] = [sector |-> s, flags |-> @.flags \cup {"valid"}, data |-> d]]

Modify(c, s, v) == [c EXCEPT ![At(c, s)].data = v]
MarkDirty(c, s) == [c EXCEPT ![At(c, s)].flags = @ \cup {"dirty"}]

\* The buffer stays pinned.
bwrite_StaysDirty(c, s) == MarkDirty(c, s)

\* bwrite sets B_DIRTY, and iderw clears it once the data is sent to the disk.
bwrite(c, s) == [c EXCEPT ![At(c, s)].flags = @ \ {"dirty"}]

\* The released buffer becomes the most recently used one.
brelse(c, s) ==
  LET i == At(c, s)
      b == [c[i] EXCEPT !.flags = @ \ {"busy"}]
  IN  <<b>> \o RemoveAt(c, i)

\* What a system call sees of sector s when the disk holds d.
CacheView(c, s, d) ==
  IF Has(c, s) /\ "valid" \in c[At(c, s)].flags THEN BufData(c, s) ELSE d

-----------------------------------------------------------------------------
(* The states of a cache of sectors S with contents D *)

Buffers(S, D) ==
  [sector : S \cup {NOSECTOR}, flags : SUBSET {"busy", "valid", "dirty"}, data : D \cup {NOSECTOR}]

\* No sector has two buffers.
Distinct(c) ==
  \A i, j \in 1 .. NBUF : c[i].sector = c[j].sector => i = j \/ c[i].sector = NOSECTOR

\* A cache between two operations: nothing is busy, and what is dirty is valid.
Caches(S, D) ==
  {c \in [1 .. NBUF -> Buffers(S, D)] :
     /\ Distinct(c)
     /\ \A i \in 1 .. NBUF :
          /\ "busy" \notin c[i].flags
          /\ "dirty" \in c[i].flags => "valid" \in c[i].flags
          /\ "valid" \in c[i].flags => c[i].sector \in S /\ c[i].data \in D}
=============================================================================
