-------------------------------- MODULE Disk --------------------------------
(***************************************************************************)
(* The block device that src/disk.c makes of the FTL: every write is       *)
(* followed by a few GC steps, a flush first runs GC until enough blocks   *)
(* are ready, and recovery erases blocks ahead of their use.               *)
(***************************************************************************)
EXTENDS Ftl

CONSTANTS
  GC_PER_WRITE,   \* ftl_gc_copy calls after a write (4 in the code)
  ERASES          \* ftl_gc_erase calls after a recovery (2000 in the code)

ASSUME LoopsAreCounted == GC_PER_WRITE \in Nat \ {0} /\ ERASES \in Nat \ {0}

VARIABLES
  call,     \* the disk operation in progress
  todo      \* the turns left of its loop

diskVars == <<ftlVars, call, todo>>

\* ftl_gc_copy returns without doing anything.
GcHasNothingToDo ==
  /\ pc = "idle"
  /\ IF gc.enable THEN gcprog >= MAX_GCPROG ELSE ~ reach_gc_threshold
  /\ UNCHANGED ftlVars

disk_write(lsa, d) ==
  /\ call = "none"
  /\ pc = "idle"
  /\ \/ ftl_write(lsa, d)
     \/ (lsa >= N_LAS \/ wcnt >= MAX_WCNT) /\ UNCHANGED ftlVars
  /\ call' = "write"
  /\ todo' = GC_PER_WRITE

\* One turn of a counted loop.
Turn ==
  /\ todo > 0
  /\ todo' = todo - 1
  /\ call' = IF todo = 1 THEN "none" ELSE call

WriteLoop ==
  /\ call = "write"
  /\ ftl_gc_copy \/ GcHasNothingToDo
  /\ Turn

disk_flush ==
  /\ call = "none"
  /\ pc = "idle"
  /\ call' = "flush"
  /\ UNCHANGED <<ftlVars, todo>>

FlushLoop ==
  /\ call = "flush"
  /\ ~ ftl_flush_precond_holds
  /\ ftl_gc_copy \/ GcHasNothingToDo
  /\ UNCHANGED <<call, todo>>

CallFlush ==
  /\ call = "flush"
  /\ ftl_flush
  /\ UNCHANGED <<call, todo>>

\* Inside ftl_write, ftl_gc_copy, ftl_flush or ftl_recovery.
InsideFtl ==
  /\ FtlStep
  /\ call' = IF pc = "down" THEN "recovery"
             ELSE IF op = "flush" /\ pc' = "idle" THEN "none" ELSE call
  /\ todo' = IF op = "recovery" /\ pc' = "idle" THEN ERASES ELSE todo

RecoveryLoop ==
  /\ call = "recovery"
  /\ pc = "idle"
  /\ ftl_gc_erase \/ (erasable_blklist_empty(dlog) /\ UNCHANGED ftlVars)
  /\ Turn

DiskCrash ==
  /\ PowerFailure
  /\ call' = "none"
  /\ todo' = 0

DiskInit == FtlInit /\ call = "none" /\ todo = 0

\* What the program does by itself, as opposed to the host and the power supply.
DiskStep == WriteLoop \/ FlushLoop \/ CallFlush \/ InsideFtl \/ RecoveryLoop

DiskNext ==
  \/ \E lsa \in 0 .. N_LAS, d \in DATA : disk_write(lsa, d)
  \/ disk_flush
  \/ DiskStep
  \/ DiskCrash

DiskSpec == DiskInit /\ [][DiskNext]_diskVars /\ WF_diskVars(DiskStep)

-----------------------------------------------------------------------------
(* Properties *)

\* A flush comes to its end unless the power fails first: the loop that waits
\* for ready blocks always finds them within its GC budget.
FlushTerminates == call = "flush" ~> call # "flush"
=============================================================================
