------------------------------- MODULE MCDisk -------------------------------
(* Model-checking instance of the disk: at most FLUSHES flushes and        *)
(* CRASHES power failures, EVENTS of both together, and writes that change *)
(* what a sector holds.                                                    *)
EXTENDS Disk

CONSTANTS FLUSHES, CRASHES, EVENTS,
  HOST_LSAS   \* the host writes to sectors 0 .. HOST_LSAS - 1; N_LAS itself is out of range
VARIABLES flushes, crashes

MCPSA == 0 .. N_PAS
\* After a crash an unsynced delta page looks committed and unmaps sector 0,
\* and an unsynced table is blank (MCChkpt has more of the possible contents).
MCAnyPage  == {[flag |-> FLAG_DELTA_COMMITTED, pairs |-> <<NoPair>>]}
MCAnyTable == {Unmapped}

FirstData == CHOOSE d \in DATA : TRUE
Fresh(lsa) == IF lsa >= N_LAS \/ (lsa < N_LAS /\ VolatileData[lsa] = BLANK)
              THEN {FirstData} ELSE DATA \ {VolatileData[lsa]}

MCInit == DiskInit /\ flushes = 0 /\ crashes = 0

MCNext ==
  \/ /\ \/ \E lsa \in 0 .. HOST_LSAS - 1 : \E d \in Fresh(lsa) : disk_write(lsa, d)
        \/ DiskStep
     /\ UNCHANGED <<flushes, crashes>>
  \/ /\ flushes < FLUSHES /\ flushes + crashes < EVENTS
     /\ disk_flush
     /\ flushes' = flushes + 1
     /\ UNCHANGED crashes
  \/ /\ crashes < CRASHES /\ flushes + crashes < EVENTS
     /\ DiskCrash
     /\ crashes' = crashes + 1
     /\ UNCHANGED flushes

MCSpec == MCInit /\ [][MCNext]_<<diskVars, flushes, crashes>> /\ WF_diskVars(DiskStep)
=============================================================================
