----------------------------- MODULE CachedDisk -----------------------------
(***************************************************************************)
(* Disks that do not keep snapshots, under the write-ahead logs of xv6.  A *)
(* disk is the record of the durable contents, of the writes not yet       *)
(* durable, oldest first, and of the kind of disk:                         *)
(*   sync = FALSE: a volatile cache, as in src/ftl-async.c (and in         *)
(*     src/disk-pblk.c, pwrite and fsync): after a power failure every     *)
(*     sector holds its durable contents or any later write.               *)
(*   sync = TRUE: the synchronous FTL (src/ftl-sync.c): writes gather in   *)
(*     the merge buffer, and a full buffer is programmed synchronously     *)
(*     before the next write; the flush does nothing.                      *)
(* That the mapping table survives is assumed: neither FTL recovers it     *)
(* (module BaseFtl).                                                       *)
(***************************************************************************)
EXTENDS Naturals, Sequences

CONSTANT SECTORS_PER_PAGE

ASSUME PagesHoldSectors == SECTORS_PER_PAGE \in Nat \ {0}

NewDisk(contents, sync) == [dur |-> contents, pend |-> <<>>, sync |-> sync]

Apply(contents, writes) ==
  [s \in DOMAIN contents |->
     LET W == {i \in DOMAIN writes : writes[i][1] = s}
     IN  IF W = {} THEN contents[s]
         ELSE writes[CHOOSE i \in W : \A j \in W : j <= i][2]]

Contents(d)     == Apply(d.dur, d.pend)
disk_read(d, s) == Contents(d)[s]

Destage(d) == NewDisk(Contents(d), d.sync)


\* disk_write over ftl-sync.c: persist_merge_buffer_when_full comes first.
SyncWrite(d, s, v) ==
  IF Len(d.pend) = SECTORS_PER_PAGE THEN [Destage(d) EXCEPT !.pend = <<<<s, v>>>>]
                                    ELSE [d EXCEPT !.pend = Append(@, <<s, v>>)]

CacheWrite(d, s, v) == [d EXCEPT !.pend = Append(@, <<s, v>>)]

disk_write(d, s, v) == IF d.sync THEN SyncWrite(d, s, v) ELSE CacheWrite(d, s, v)

disk_flush(d) == IF d.sync THEN d ELSE Destage(d)

\* What the disk may hold after a power failure: k[s] is the last write of
\* sector s that made it, 0 if none did.
AfterCrash(d) ==
  LET n        == Len(d.pend)
      Survived == {k \in [{d.pend[i][1] : i \in 1 .. n} -> 0 .. n] :
                     \A s \in DOMAIN k : k[s] = 0 \/ d.pend[k[s]][1] = s}
      After(k) == [s \in DOMAIN d.dur |->
                     IF s \in DOMAIN k /\ k[s] # 0 THEN d.pend[k[s]][2] ELSE d.dur[s]]
  IN  IF d.sync THEN {d.dur} ELSE {After(k) : k \in Survived}
=============================================================================
