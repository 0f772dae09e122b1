--------------------------- MODULE BaleFsRequests ---------------------------
(***************************************************************************)
(* The requests that the kernel sends to a mount, each under the mutex      *)
(* around the state: those that change something, which a mount that is     *)
(* read-only refuses, and what readdir answers for "..".                    *)
(***************************************************************************)
EXTENDS BaleFs

VARIABLE read_only   \* of the mount, FALSE without one

requestVars == <<vars, read_only>>

RequestInit == Init /\ read_only = FALSE

\* The mount reads the archive the same way whether it may write to it or not.
MountAs(ro) == Mount /\ read_only' = ro

-----------------------------------------------------------------------------
(* Requests that change something *)

\* Mutant: a mount that is read-only takes them.
AcceptsAlways == mounted /\ UNCHANGED read_only

\* The check that comes first, and fails with EROFS.
Accepts == mounted /\ ~read_only /\ UNCHANGED read_only

mkdir(d, name) == Accepts /\ CreateDirectory(d, name)
rmdir(d, name) == Accepts /\ RemoveDirectory(d, name)
create(d, name) == Accepts /\ CreateFile(d, name)
symlink(d, name) == Accepts /\ CreateSymlink(d, name)
unlink(d, name) == Accepts /\ RemoveFile(d, name)

\* The flags of the request are not looked at.
rename(d, name, e, to) ==
    Accepts /\ (RenameFile(d, name, e, to) \/ RenameDirectory(d, name, e, to))

write(i, offset, b) == Accepts /\ Write(i, offset, b)

setattr_size(i, n) == Accepts /\ Truncate(i, n)
setattr_mode(p) == Accepts /\ SetMode(p)
setattr_time(p) == Accepts /\ SetTime(p)

\* flush and fsync, which a read-only mount answers without doing anything.
flush ==
    /\ Accepts
    /\ \/ Synced /\ UNCHANGED <<mounted, tree>>
       \/ SyncFails

\* destroy: nobody is told of a sync that fails, and what is buffered is gone.
destroy ==
    /\ mounted
    /\ IF read_only THEN UNCHANGED archive ELSE Synced \/ SyncStops
    /\ modified_data' = NoMap
    /\ modified_modes' = NoMap
    /\ modified_times' = {}
    /\ Dropping
    /\ read_only' = FALSE

RequestNext ==
    \/ \E ro \in BOOLEAN : MountAs(ro)
    \/ flush
    \/ destroy
    \/ \E d \in DirIno, name \in Names :
        \/ mkdir(d, name) \/ rmdir(d, name) \/ create(d, name)
        \/ symlink(d, name) \/ unlink(d, name)
        \/ \E e \in DirIno, to \in Names : rename(d, name, e, to)
    \/ \E i \in FileIno :
        \/ \E offset \in 0..MaxFileSize, b \in Byte : write(i, offset, b)
        \/ \E n \in 0..MaxFileSize : setattr_size(i, n)
    \/ \E p \in AttrPath : setattr_mode(p) \/ setattr_time(p)

Spec == RequestInit /\ [][RequestNext]_requestVars

-----------------------------------------------------------------------------
(* What readdir answers *)

\* readdir: the entry for "..".
get_parent_inode(d) ==
    LET p == PathOf(d)
    IN  IF p # RootPath /\ Parent(p) \in DOMAIN dir_inodes THEN dir_inodes[Parent(p)]
        ELSE Root

-----------------------------------------------------------------------------
(* Properties *)

(***************************************************************************)
(* A directory is listed in one place, the one that readdir calls its       *)
(* parent, whatever was renamed, made and removed: there is one way from    *)
(* the root to it, and ".." leads back.                                     *)
(***************************************************************************)
ParentsAgree ==
    \A d \in DOMAIN dir_contents :
        \A e \in { x \in dir_contents[d] : x.kind = "dir" } :
            /\ get_parent_inode(e.ino) = d
            /\ \A x \in dir_contents[d] : x.kind = "dir" /\ x.ino = e.ino => x = e

(***************************************************************************)
(* While a mount is read-only, and when it ends, the archive stays as it    *)
(* is, and so does everything that is found in it.                          *)
(***************************************************************************)
ReadOnlyKept ==
    [][read_only => archive' = archive /\ (mounted' => UNCHANGED vars)]_requestVars

-----------------------------------------------------------------------------
(* Why the maps hold together *)

\* No inode is given out twice, and none is two directories.
InodesFresh ==
    /\ \A p, q \in DOMAIN dir_inodes : dir_inodes[p] = dir_inodes[q] => p = q
    /\ \A d \in DOMAIN dir_contents : d < next_dir_ino
    /\ \A i \in DOMAIN inode_to_path : i < next_file_ino

\* Without a mount, or while it is read-only, nothing is buffered.
NothingBuffered ==
    /\ read_only => mounted
    /\ read_only \/ ~mounted => modified_data = NoMap /\ attrs = <<NoMap, {}>>

(***************************************************************************)
(* What every request keeps, whatever it does and however it fails: the     *)
(* types, the maps of files, and that no inode is given out again while     *)
(* something has it.                                                        *)
(***************************************************************************)
FsInv == TypeOK /\ InodesSound /\ InodesFresh /\ NothingBuffered

=============================================================================
