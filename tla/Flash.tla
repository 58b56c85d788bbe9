------------------------------- MODULE Flash -------------------------------
(***************************************************************************)
(* The flash operations of src/flashemu.c on a region of the device.  A    *)
(* region r is a record: r.page maps a page address to its content and     *)
(* r.synced tells which pages are known to be durable.  An operation with  *)
(* sync = FALSE may be lost or half done when power fails: flash_crash     *)
(* leaves any content in a page that is not synced.                        *)
(***************************************************************************)

flash_program(r, a, content, sync) ==
  [page   |-> [r.page EXCEPT ![a] = content],
   synced |-> [r.synced EXCEPT ![a] = sync]]

\* Erases the pages in A; blank is what an erased page reads as.
flash_erase(r, A, blank, sync) ==
  [page   |-> [a \in DOMAIN r.page |-> IF a \in A THEN blank ELSE r.page[a]],
   synced |-> [a \in DOMAIN r.synced |-> IF a \in A THEN sync ELSE r.synced[a]]]

\* flash_erase_bulk never waits for the device.
flash_erase_bulk(r, A, blank) == flash_erase(r, A, blank, FALSE)

flash_sync(r) == [r EXCEPT !.synced = [a \in DOMAIN r.synced |-> TRUE]]

\* What the region may hold after a power failure; Any is what an unsynced
\* page may hold then.
flash_crash(r, Any) ==
  LET lost == {a \in DOMAIN r.page : ~ r.synced[a]}
  IN  {[r EXCEPT !.page = [a \in DOMAIN r.page |->
                             IF a \in lost THEN g[a] ELSE r.page[a]]]
         : g \in [lost -> Any]}
=============================================================================
