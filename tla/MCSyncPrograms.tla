--------------------------- MODULE MCSyncPrograms ---------------------------
(* All programs, with loops shorter than theirs.                           *)
EXTENDS SyncPrograms

All == [handshake |-> handshake, shm_dev_zero |-> shm_dev_zero,
        prevent_race |-> prevent_race, deadlock_file |-> deadlock_file,
        mandatory_lock |-> mandatory_lock, forever_lock |-> forever_lock]
=============================================================================
