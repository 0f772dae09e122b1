---------------------------- MODULE ArchiveStore ----------------------------
(***************************************************************************)
(* What an archive promises to the program that keeps one, without a word   *)
(* of blocks, tables or offsets.  A session works on a private view of the  *)
(* archive; sync makes that view the archive, in one step; a reader that    *)
(* opens the file finds the archive of the last sync or is refused.  It     *)
(* never finds a mixture of two archives, nor one that a sync replaced.     *)
(***************************************************************************)
CONSTANTS
    Empty,       \* the view of an archive without entries
    Absent,      \* durable: there is no archive file
    Unreadable,  \* durable: there is a file, and readers refuse it
    Closed       \* pending: no session is open

VARIABLES
    durable,  \* what a reader that opens the file now finds
    kept,     \* what the session can still fall back to when it ends
    pending   \* the view of the open session

storeVars == <<durable, kept, pending>>

StoreInit ==
    /\ durable = Absent
    /\ kept = Absent
    /\ pending = Closed

\* A new archive can be read only once it has been synced.
StoreCreate ==
    /\ durable = Absent
    /\ durable' = Unreadable
    /\ kept' = Unreadable
    /\ pending' = Empty

\* A session starts from what readers find.
StoreOpen ==
    /\ pending = Closed
    /\ durable \notin {Absent, Unreadable}
    /\ pending' = durable
    /\ UNCHANGED <<durable, kept>>

\* The session changes its view; that may spoil the file, never alter it.
StoreChange ==
    /\ pending # Closed
    /\ pending' # Closed
    /\ durable' \in {durable, Unreadable}
    /\ kept' \in {kept, Unreadable}

StoreSync ==
    /\ pending # Closed
    /\ durable' = pending
    /\ kept' = pending
    /\ UNCHANGED pending

\* The session ends: what it spoiled may become readable again, as it was.
StoreEnd ==
    /\ pending # Closed
    /\ pending' = Closed
    /\ durable' \in {kept, Unreadable}
    /\ kept' = durable'

\* The session ends in the middle of a sync, which may have taken effect.
StoreEndInSync ==
    /\ pending # Closed
    /\ pending' = Closed
    /\ durable' = pending
    /\ kept' = pending

StoreNext ==
    \/ StoreCreate \/ StoreOpen \/ StoreChange \/ StoreSync
    \/ StoreEnd \/ StoreEndInSync

StoreSpec == StoreInit /\ [][StoreNext]_storeVars

=============================================================================
