---------------------------- MODULE WriterMutex ----------------------------
(***************************************************************************)
(* What `with workspace_write_lock` gives to the commands that use it:     *)
(* "Workspace writes are one-writer-at-a-time", until the lock of a live   *)
(* process is taken for an orphan and removed. After that it promises      *)
(* nothing.                                                                *)
(***************************************************************************)
CONSTANTS Proc, Nobody

VARIABLES
    writer,     \* the process inside the write section, or Nobody
    broken      \* a live process has lost its lock

MutexInit == writer = Nobody /\ broken = FALSE

(* Only an empty section is entered.                                       *)
Enter(p) == ~broken /\ writer = Nobody /\ writer' = p /\ UNCHANGED broken

(* A writer leaves when it is done, or by dying.                           *)
Leave(p) == ~broken /\ writer = p /\ writer' = Nobody /\ UNCHANGED broken

Break == ~broken /\ broken' = TRUE /\ writer' = Nobody

MutexNext == (\E p \in Proc : Enter(p) \/ Leave(p)) \/ Break

MutexSpec == MutexInit /\ [][MutexNext]_<<writer, broken>>
=============================================================================
