----------------------------- MODULE AtomicStore -----------------------------
(***************************************************************************)
(* What the logs of xv6 promise the file system (the comment that opens    *)
(* every log file: "the logging system only commits when there are no FS   *)
(* system calls active"): the blocks change only inside system calls, they *)
(* become durable only between system calls, and a restart brings back the *)
(* durable blocks, or the current ones if no system call was active.  A    *)
(* system call is therefore never visible in part after a restart.         *)
(***************************************************************************)
EXTENDS Naturals

CONSTANTS Block, Content

VARIABLES
  mem,      \* the blocks as system calls see them
  old,      \* the blocks as of the last durable commit
  active    \* the system calls between begin_op and end_op

store_init == mem \in [Block -> Content] /\ old \in [Block -> Content] /\ active = 0

call == active' = active + 1 /\ UNCHANGED <<mem, old>>

return == active > 0 /\ active' = active - 1 /\ UNCHANGED <<mem, old>>

update(b, v) ==
  /\ active > 0
  /\ mem' = [mem EXCEPT ![b] = v]
  /\ UNCHANGED <<old, active>>

harden == active = 0 /\ old' = mem /\ UNCHANGED <<mem, active>>

restart ==
  /\ mem' \in IF active = 0 THEN {old, mem} ELSE {old}
  /\ old' = mem'
  /\ active' = 0

store_next ==
  \/ call \/ return \/ harden \/ restart
  \/ \E b \in Block, v \in Content : update(b, v)

store == store_init /\ [][store_next]_<<mem, old, active>>
=============================================================================
