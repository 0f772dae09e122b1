----------------------------- MODULE Compaction -----------------------------
(***************************************************************************)
(* compact and rename_duplicates among other programs that read, write and  *)
(* create the same archive.  Both write a new archive into a temporary file *)
(* beside the old one and rename it over the old one.                       *)
(*                                                                          *)
(* What is shared is the directory (names), the files, and a lock on each   *)
(* file that readers share and writers exclude.  A lock is on the file and  *)
(* not on its name: a process opens the name first and waits for the lock   *)
(* then, and what it has opened may have lost the name meanwhile.           *)
(*                                                                          *)
(* An archive is the set of the processes whose changes it holds, or it is  *)
(* Partial: readers refuse it.                                              *)
(***************************************************************************)
CONSTANTS
    Proc,       \* the processes
    Compactor,  \* those of them that may compact
    Writer,     \* those of them that may write
    File,       \* inodes
    None,       \* no file
    Partial     \* a file that readers refuse

ASSUME CompactionAssumption ==
    /\ Compactor \subseteq Proc
    /\ Writer \subseteq Proc
    /\ None \notin File

\* compact and rename_duplicates, and the names in the archive's directory.
Compacting == {"compact", "rename"}
TempOf == [t \in Compacting |->
             IF t = "compact" THEN ".compact.tmp" ELSE ".rename.tmp"]
Temps == {".compact.tmp", ".rename.tmp"}
Name == Temps \cup {"archive"}

Image == {Partial} \cup SUBSET Proc

Task == Compacting \cup {"none", "read", "write", "create"}

Place == {
    "idle",
    "lockShared",     \* MappedArchive::open waits for the lock
    "reading",
    "guarded",        \* the TempFileGuard exists, the temporary file does not
    "lockTemp",       \* create_with_capacity waits for the lock
    "copying",
    "copied",         \* the writer of the temporary file is gone
    "measured",       \* compact has the compacted size
    "failed",         \* an error: the guard is about to be dropped
    "closing",        \* the reader is about to be dropped
    "lockExclusive",  \* MappedArchiveMut waits for the lock
    "writing" }

\* Where a compaction has its guard, and where it has a temporary file.
Busy == {"guarded", "lockTemp", "copying", "copied", "measured", "failed"}
WithTemp == {"lockTemp", "copying", "copied", "measured"}

VARIABLES
    names,    \* the file each name stands for
    content,  \* what is in each file
    pc,       \* where each process is
    task,     \* what it does
    file,     \* the archive it has opened
    out,      \* the temporary file it has created
    seen      \* what it read there; for a writer, what it has in memory

vars == <<names, content, pc, task, file, out, seen>>

TypeOK ==
    /\ names \in [Name -> File \cup {None}]
    /\ content \in [File -> Image]
    /\ pc \in [Proc -> Place]
    /\ task \in [Proc -> Task]
    /\ file \in [Proc -> File \cup {None}]
    /\ out \in [Proc -> File \cup {None}]
    /\ seen \in [Proc -> SUBSET Proc]

Init ==
    /\ names = [n \in Name |-> None]
    /\ content = [f \in File |-> Partial]
    /\ pc = [p \in Proc |-> "idle"]
    /\ task = [p \in Proc |-> "none"]
    /\ file = [p \in Proc |-> None]
    /\ out = [p \in Proc |-> None]
    /\ seen = [p \in Proc |-> {}]

-----------------------------------------------------------------------------
(* Locks and files *)

\* Mutant: the reader is dropped once everything is copied.
WhileSharedCopying == {"reading", "guarded", "lockTemp", "copying"}

\* The reader lives to the end of compact, past the rename.
WhileShared ==
    {"reading", "guarded", "lockTemp", "copying", "copied", "measured", "failed",
     "closing"}

HoldsShared(p, f) == file[p] = f /\ pc[p] \in WhileShared

HoldsExclusive(p, f) ==
    \/ file[p] = f /\ pc[p] = "writing"
    \/ out[p] = f /\ pc[p] = "copying"

CanShare(p, f) == \A q \in Proc \ {p} : ~HoldsExclusive(q, f)

\* Mutant: an exclusive lock is granted beside shared ones.
CanOwnBesideReaders(p, f) == CanShare(p, f)

CanOwn(p, f) ==
    \A q \in Proc \ {p} : ~HoldsExclusive(q, f) /\ ~HoldsShared(q, f)

InUse == { names[n] : n \in Name } \cup { file[p] : p \in Proc }
         \cup { out[p] : p \in Proc }

\* A file that has no name and is not open is gone.
Freed == content' = [f \in File |-> IF f \in InUse' THEN content[f] ELSE Partial]

\* create_new: the name did not exist; the file is empty.
CreatesNew(name, f) ==
    /\ names[name] = None
    /\ f \in File \ InUse
    /\ f = CHOOSE g \in File : g \notin InUse
    /\ names' = [names EXCEPT ![name] = f]
    /\ content' = [content EXCEPT ![f] = Partial]

\* Mutant: the file stays open.
LeavesOpen(p) ==
    /\ pc' = [pc EXCEPT ![p] = "idle"]
    /\ task' = [task EXCEPT ![p] = "none"]
    /\ out' = [out EXCEPT ![p] = None]
    /\ seen' = [seen EXCEPT ![p] = {}]
    /\ UNCHANGED file

\* The process is done, and its locks are released.
Leaves(p) ==
    /\ pc' = [pc EXCEPT ![p] = "idle"]
    /\ task' = [task EXCEPT ![p] = "none"]
    /\ file' = [file EXCEPT ![p] = None]
    /\ out' = [out EXCEPT ![p] = None]
    /\ seen' = [seen EXCEPT ![p] = {}]

At(p, place) == pc[p] = place
Goes(p, place) == pc' = [pc EXCEPT ![p] = place]

-----------------------------------------------------------------------------
(* Reading, and the reading that a compaction begins with *)

OpenToRead(p) ==
    /\ At(p, "idle")
    /\ names["archive"] # None
    /\ \E t \in Compacting \cup {"read"} :
        /\ t \in Compacting => p \in Compactor
        /\ task' = [task EXCEPT ![p] = t]
    /\ file' = [file EXCEPT ![p] = names["archive"]]
    /\ Goes(p, "lockShared")
    /\ UNCHANGED <<names, content, out, seen>>

LockShared(p) ==
    /\ At(p, "lockShared")
    /\ CanShare(p, file[p])
    /\ content[file[p]] # Partial
    /\ seen' = [seen EXCEPT ![p] = content[file[p]]]
    /\ Goes(p, IF task[p] = "read" THEN "reading" ELSE "guarded")
    /\ UNCHANGED <<names, content, task, file, out>>

\* The lock was granted, but the archive cannot be read; or compact finds the
\* alignment invalid, or rename_duplicates nothing that it could rename.
ReadEnds(p) ==
    /\ At(p, "lockShared")
    /\ CanShare(p, file[p])
    /\ task[p] = "read" => content[file[p]] = Partial
    /\ Leaves(p)
    /\ UNCHANGED names
    /\ Freed

CloseReader(p) ==
    /\ pc[p] \in {"reading", "closing"}
    /\ Leaves(p)
    /\ UNCHANGED names
    /\ Freed

-----------------------------------------------------------------------------
(* compact and rename_duplicates *)

CreateTemp(p) ==
    /\ At(p, "guarded")
    /\ \E f \in File :
        /\ CreatesNew(TempOf[task[p]], f)
        /\ out' = [out EXCEPT ![p] = f]
    /\ Goes(p, "lockTemp")
    /\ UNCHANGED <<task, file, seen>>

\* Mutant: the guard is made once the file has been created.
AfterCreateFailsUnguarded == "closing"

\* The temporary file exists already; the guard will remove it all the same.
AfterCreateFails == "failed"

CreateTempFails(p) ==
    /\ At(p, "guarded")
    /\ names[TempOf[task[p]]] # None
    /\ Goes(p, AfterCreateFails)
    /\ UNCHANGED <<names, content, task, file, out, seen>>

LockTemp(p) ==
    /\ At(p, "lockTemp")
    /\ CanOwn(p, out[p])
    /\ Goes(p, "copying")
    /\ UNCHANGED <<names, content, task, file, out, seen>>

\* The entries are read where the old archive is mapped, and synced.
Copy(p) ==
    /\ At(p, "copying")
    /\ content' = [content EXCEPT ![out[p]] = content[file[p]]]
    /\ Goes(p, "copied")
    /\ UNCHANGED <<names, task, file, out, seen>>

\* Any error of the copy: the disk is full, a path cannot be stored.
CopyFails(p) ==
    /\ At(p, "copying")
    /\ Goes(p, "failed")
    /\ UNCHANGED <<names, content, task, file, out, seen>>

\* Only compact asks for the compacted size.
Measure(p) ==
    /\ At(p, "copied")
    /\ task[p] = "compact"
    /\ Goes(p, IF names[TempOf[task[p]]] = None THEN "failed" ELSE "measured")
    /\ UNCHANGED <<names, content, task, file, out, seen>>

ReadyToRename(p) ==
    \/ task[p] = "compact" /\ At(p, "measured")
    \/ task[p] = "rename" /\ At(p, "copied")

\* fs::rename: whatever file has the temporary name now.
RenameOver(p) ==
    /\ ReadyToRename(p)
    /\ names[TempOf[task[p]]] # None
    /\ names' = [names EXCEPT !["archive"] = names[TempOf[task[p]]],
                              ![TempOf[task[p]]] = None]
    /\ Goes(p, "closing")
    /\ out' = [out EXCEPT ![p] = None]
    /\ UNCHANGED <<task, file, seen>>
    /\ Freed

\* There is no such file any more, or the rename fails for another reason.
RenameFails(p) ==
    /\ ReadyToRename(p)
    /\ Goes(p, "failed")
    /\ UNCHANGED <<names, content, task, file, out, seen>>

\* Mutant: after an error compaction tries again.
AfterFailureRetry == "guarded"

AfterFailure == "closing"

\* TempFileGuard::drop: whoever created the file that has the name.
RemoveTemp(p) ==
    /\ At(p, "failed")
    /\ names' = [names EXCEPT ![TempOf[task[p]]] = None]
    /\ out' = [out EXCEPT ![p] = None]
    /\ Goes(p, AfterFailure)
    /\ UNCHANGED <<task, file, seen>>
    /\ Freed

-----------------------------------------------------------------------------
(* Writing *)

CreateArchive(p) ==
    /\ At(p, "idle")
    /\ p \in Writer
    /\ \E f \in File :
        /\ CreatesNew("archive", f)
        /\ file' = [file EXCEPT ![p] = f]
    /\ task' = [task EXCEPT ![p] = "create"]
    /\ Goes(p, "lockExclusive")
    /\ UNCHANGED <<out, seen>>

OpenToWrite(p) ==
    /\ At(p, "idle")
    /\ p \in Writer
    /\ names["archive"] # None
    /\ file' = [file EXCEPT ![p] = names["archive"]]
    /\ task' = [task EXCEPT ![p] = "write"]
    /\ Goes(p, "lockExclusive")
    /\ UNCHANGED <<names, content, out, seen>>

LockExclusive(p) ==
    /\ At(p, "lockExclusive")
    /\ CanOwn(p, file[p])
    /\ IF task[p] = "create" THEN UNCHANGED seen
       ELSE /\ content[file[p]] # Partial
            /\ seen' = [seen EXCEPT ![p] = content[file[p]]]
    /\ Goes(p, "writing")
    /\ UNCHANGED <<names, content, task, file, out>>

\* The archive that was opened for writing has no valid trailer.
WriteRefused(p) ==
    /\ At(p, "lockExclusive")
    /\ CanOwn(p, file[p])
    /\ task[p] = "write"
    /\ content[file[p]] = Partial
    /\ Leaves(p)
    /\ UNCHANGED names
    /\ Freed

\* A change in memory; the file may become unreadable with it.
Change(p) ==
    /\ At(p, "writing")
    /\ seen' = [seen EXCEPT ![p] = @ \cup {p}]
    /\ content' \in {content, [content EXCEPT ![file[p]] = Partial]}
    /\ UNCHANGED <<names, pc, task, file, out>>

Sync(p) ==
    /\ At(p, "writing")
    /\ content' = [content EXCEPT ![file[p]] = seen[p]]
    /\ UNCHANGED <<names, pc, task, file, out, seen>>

\* The writer is dropped, synced or not.
DropWriter(p) ==
    /\ At(p, "writing")
    /\ Leaves(p)
    /\ UNCHANGED names
    /\ Freed

-----------------------------------------------------------------------------

\* The process is killed, and nothing is cleaned up.  (Where a file is only
\* about to be closed a kill closes it, as CloseReader and DropWriter do.)
Crash(p) ==
    /\ pc[p] \notin {"idle", "reading", "closing", "writing"}
    /\ Leaves(p)
    /\ UNCHANGED names
    /\ Freed

\* What a process that has begun goes on to do.
Step(p) ==
    \/ ReadEnds(p) \/ LockShared(p) \/ CloseReader(p)
    \/ CreateTemp(p) \/ CreateTempFails(p) \/ LockTemp(p)
    \/ Copy(p) \/ CopyFails(p) \/ Measure(p)
    \/ RenameOver(p) \/ RenameFails(p) \/ RemoveTemp(p)
    \/ LockExclusive(p) \/ WriteRefused(p) \/ DropWriter(p)

Begin(p) == OpenToRead(p) \/ CreateArchive(p) \/ OpenToWrite(p)

Next ==
    \E p \in Proc : Begin(p) \/ Step(p) \/ Change(p) \/ Sync(p) \/ Crash(p)

(***************************************************************************)
(* A process that has begun runs to its end, and a lock that is free again  *)
(* and again is granted at last.                                            *)
(***************************************************************************)
Fairness ==
    \A p \in Proc : WF_vars(Step(p)) /\ SF_vars(LockShared(p) \/ ReadEnds(p))

Spec == Init /\ [][Next]_vars /\ Fairness

-----------------------------------------------------------------------------
\* What a reader that opens the name finds.
Found == IF names["archive"] = None THEN None ELSE content[names["archive"]]

(***************************************************************************)
(* The archive a process has locked for reading stays as it was, whatever   *)
(* is written, renamed or removed beside it.                                *)
(***************************************************************************)
ReadersUndisturbed ==
    \A p \in Proc : pc[p] \in WhileShared => content[file[p]] = seen[p]

(***************************************************************************)
(* docs/bale-spec.md: atomic replace is crash-consistent, readers see the   *)
(* old or the new archive and never a partial state.  So the name passes to *)
(* another file only when that one holds what the old one held.             *)
(***************************************************************************)
ReplaceIsAtomic ==
    [][(names["archive"] # None /\ names'["archive"] # names["archive"])
            => Found' = Found]_vars

(***************************************************************************)
(* docs/bale-spec.md: write operations, compaction among them, have         *)
(* exclusive access to the archive.  So what a writer synced is what        *)
(* readers find.                                                            *)
(***************************************************************************)
SyncIsFound == [][\A p \in Proc : Sync(p) => Found' = seen[p]]_vars

(***************************************************************************)
(* Every compaction comes to an end: none waits for ever for a lock, its    *)
(* own included.                                                            *)
(***************************************************************************)
CompactionEnds ==
    \A p \in Compactor : task[p] \in Compacting ~> At(p, "idle")

(***************************************************************************)
(* A killed compaction leaves its temporary file, which makes the next one  *)
(* fail, but not all of them: once no more processes are killed, and        *)
(* compaction is tried again and again, the temporary name becomes free     *)
(* again and again.                                                         *)
(***************************************************************************)
LeftoversGo ==
    (<>[][\A p \in Proc : pc[p] \in Busy => ~Crash(p)]_vars) =>
        \A p \in Compactor, t \in Compacting :
            []<>(At(p, "guarded") /\ task[p] = t) => []<>(names[TempOf[t]] = None)

-----------------------------------------------------------------------------
(* Why readers are undisturbed, and a sole compactor's rename is atomic *)

\* What a process has opened and does fits the place where it is.
PlacesSound ==
    \A p \in Proc :
        /\ At(p, "idle") <=> file[p] = None
        /\ At(p, "idle") => out[p] = None
        /\ At(p, "lockShared") => task[p] \in Compacting \cup {"read"}
        /\ pc[p] \in Busy => task[p] \in Compacting
        /\ task[p] \in Compacting => p \in Compactor
        /\ pc[p] \in WithTemp => out[p] # None
        /\ out[p] # None => p \in Compactor

\* The lock on a file is one writer's or any number of readers'.
LocksSound ==
    \A p, q \in Proc : \A f \in File :
        (p # q /\ HoldsExclusive(p, f)) =>
            ~HoldsExclusive(q, f) /\ ~HoldsShared(q, f)

(***************************************************************************)
(* With one compactor at most: its temporary file is nobody else's and has  *)
(* its name, and the archive it reads has its name, until the rename.       *)
(***************************************************************************)
TempsApart ==
    /\ \A m, n \in Name : names[m] = names[n] => m = n \/ names[m] = None
    /\ \A t \in Temps, p \in Proc : names[t] = file[p] => names[t] = None
    /\ \A p, q \in Proc : out[p] = file[q] => out[p] = None
    /\ \A p \in Proc : out[p] = names["archive"] => out[p] = None

SourceKept ==
    \A p \in Proc :
        /\ (task[p] \in Compacting /\ pc[p] \in {"lockShared", "guarded"} \cup WithTemp)
                => names["archive"] = file[p]
        /\ pc[p] \in WithTemp => names[TempOf[task[p]]] = out[p]
        /\ pc[p] \in {"copied", "measured"} => content[out[p]] = seen[p]

SoleCompactor == \A p, q \in Compactor : p = q

IInv ==
    /\ TypeOK
    /\ PlacesSound
    /\ LocksSound
    /\ ReadersUndisturbed
    /\ SoleCompactor => TempsApart /\ SourceKept

=============================================================================
