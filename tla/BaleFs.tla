------------------------------- MODULE BaleFs -------------------------------
(***************************************************************************)
(* An archive mounted as a file system.  The mount keeps a tree of inodes   *)
(* that it builds from the archive, buffers what programs write, and brings *)
(* its changes to the archive partly at once and partly when it syncs, file *)
(* by file, by deleting and adding the entry anew.  BaleFsRequests has the  *)
(* requests that call these operations, one at a time.                      *)
(*                                                                          *)
(* The archive is the view that its writer's session has of it, rows per    *)
(* path in the order of the table.  Names are inodes to the kernel, which   *)
(* may use any it has been given, also of files that are gone.              *)
(***************************************************************************)
EXTENDS Naturals, Sequences, FiniteSets

CONSTANTS
    Path,         \* the paths that occur: sequences of names
    Full,         \* those that take up the path_size of the archive
    Long,         \* those that are longer
    CutTo,        \* what is left of a long path, RootPath if it is nobody's
    Byte,         \* what programs write
    Nul,          \* what a file is extended with
    MaxFileSize,  \* the limit to which the mount extends a file, in bytes
    Archives,     \* the archives that are mounted first
    MaxFiles,     \* bound: the inodes of files and of symlinks in a mount
    MaxDirs,      \* bound: the inodes of directories, the root's aside
    MaxRows,      \* bound: the rows up to which an add succeeds
    AttrPath      \* bound: the paths whose mode or time is changed

\* Of any length: an archive may have files above the limit.
Content == Seq(Byte \cup {Nul})

\* What the type bits of a mode say; a mode without them is a file's.
Kind == {"file", "dir", "symlink"}

\* A row with its entry; rows with the same link above 0 have one entry.
Node == [kind : Kind \cup {"none"}, data : Content, link : Nat]

\* A row whose entry is gone.
Dangling == [kind |-> "none", data |-> <<>>, link |-> 0]

NewNode(kind, data) == [kind |-> kind, data |-> data, link |-> 0]

RootPath == <<>>
Root == 0
Prefixes(p) == { SubSeq(p, 1, n) : n \in 0..(Len(p) - 1) }
Parent(p) == SubSeq(p, 1, Len(p) - 1)
Name(p) == p[Len(p)]
Names == { Name(p) : p \in Path }

ASSUME BaleFsAssumption ==
    /\ MaxFileSize \in Nat
    /\ MaxFiles \in Nat
    /\ MaxDirs \in Nat
    /\ MaxRows \in Nat
    /\ AttrPath \subseteq Path \cup {RootPath}
    /\ IsFiniteSet(Path)
    /\ \A p \in Path : p \in Seq(Names) /\ Len(p) > 0 /\ Prefixes(p) \subseteq Path \cup {RootPath}
    /\ Full \cup Long \subseteq Path
    /\ Full \cap Long = {}
    /\ CutTo \in [Long -> Full \cup {RootPath}]
    /\ Archives \subseteq [Path -> Seq(Node)]

DirPath == Path \cup {RootPath}
FileIno == 1..MaxFiles
DirIno == 0..MaxDirs

VARIABLES
    mounted,
    archive,         \* the rows of each path
    dir_inodes,      \* path -> inode of the directory
    dir_contents,    \* inode of a directory -> its entries
    inode_to_path,   \* inode of a file or symlink -> path
    path_to_inode,   \* and back
    modified_data,   \* path -> content that is not in the archive
    modified_modes,  \* path -> kind in the mode that is not in the archive
    modified_times,  \* the paths with a time that is not in the archive
    next_file_ino,
    next_dir_ino

tree == <<dir_inodes, dir_contents, inode_to_path, path_to_inode,
          next_file_ino, next_dir_ino>>
attrs == <<modified_modes, modified_times>>
vars == <<mounted, archive, tree, modified_data, attrs>>

-----------------------------------------------------------------------------
(* Maps *)

\* Mutant: the remove is forgotten.
WithoutNothing(f, S) == f

Without(f, S) == [x \in DOMAIN f \ S |-> f[x]]
With(f, x, y) == [z \in DOMAIN f \cup {x} |-> IF z = x THEN y ELSE f[z]]
NoMap == [x \in {} |-> x]

\* The orders in which a HashMap may give its keys.
Orders(S) == { f \in [S -> 1..Cardinality(S)] : \A x, y \in S : f[x] = f[y] => x = y }
Earlier(order, x) == { y \in DOMAIN order : order[y] < order[x] }

\* Vec::push and Vec::retain on the entries of one directory.
Pushed(contents, d, entry) == [contents EXCEPT ![d] = @ \cup {entry}]

\* Mutant: the entry stays listed.
DroppedNothing(contents, d, name) == contents

Dropped(contents, d, name) ==
    [contents EXCEPT ![d] = { e \in @ : e.name # name }]

Entry(name, ino, kind) == [name |-> name, ino |-> ino, kind |-> kind]

-----------------------------------------------------------------------------
(* The writer's session *)

\* Lookups and delete cut a path that is too long, and match what is left.
Cut(p) == IF p \in Long THEN CutTo[p] ELSE p

\* find_entry_with_path: the entry of the path's first row, if it is there.
HasEntry(a, p) ==
    /\ Cut(p) \in Path
    /\ a[Cut(p)] # <<>>
    /\ a[Cut(p)][1].kind # "none"

\* file: that entry is a file.
IsFile(a, p) == HasEntry(a, p) /\ a[Cut(p)][1].kind = "file"

FileData(a, p) == a[Cut(p)][1].data

LinksOf(a, P) ==
    (UNION { { a[q][k].link : k \in DOMAIN a[q] } : q \in P \cap Path }) \ {0}

\* delete: the rows of the paths, and the entries of these rows.
Deleted(a, P) ==
    LET cut == { Cut(p) : p \in P }
        gone == LinksOf(a, cut)
    IN  [q \in Path |->
            IF q \in cut THEN <<>>
            ELSE [k \in DOMAIN a[q] |->
                    IF a[q][k].link \in gone THEN Dangling ELSE a[q][k]]]

\* delete of a path with a slash at its end, which no row has (what is added is
\* normalised, what is looked for is not), unless the slash is cut off.
DeletedDir(a, p) == IF p \in Full \cup Long THEN Deleted(a, {p}) ELSE a

Storable(p) == p \notin Long

\* The rows of the directory table
Rows(a) == UNION { { <<p, k>> : k \in DOMAIN a[p] } : p \in Path }

CanAdd(a, p) == Storable(p) /\ Cardinality(Rows(a)) < MaxRows

Added(a, p, node) == [a EXCEPT ![p] = Append(@, node)]

\* An add, which fails when the disk is full, the IDs are used up or the path
\* is too long.
AddedOrNot(a, p, node) ==
    {a} \cup (IF CanAdd(a, p) THEN {Added(a, p, node)} ELSE {})

-----------------------------------------------------------------------------
(* Mounting *)

Empty ==
    /\ mounted = FALSE
    /\ dir_inodes = NoMap
    /\ dir_contents = NoMap
    /\ inode_to_path = NoMap
    /\ path_to_inode = NoMap
    /\ modified_data = NoMap
    /\ modified_modes = NoMap
    /\ modified_times = {}
    /\ next_file_ino = 1
    /\ next_dir_ino = 1

Init == Empty /\ archive \in Archives

Numbering(S) == CHOOSE f \in Orders(S) : TRUE

RowsOf(kinds) == { r \in Rows(archive) : archive[r[1]][r[2]].kind \in kinds }

\* build_directory_tree: the directories with a row, and those on the way to
\* any entry; an inode for each row of a file or symlink.
Mount ==
    LET files == RowsOf({"file", "symlink"})
        dirs == ({ r[1] : r \in RowsOf({"dir"}) }
                 \cup UNION { Prefixes(r[1]) : r \in RowsOf({"file", "dir", "symlink"}) })
                \ {RootPath}
        f == Numbering(files)
        d == With(Numbering(dirs), RootPath, Root)
        last(p) == CHOOSE r \in files : r[1] = p /\ \A t \in files : t[1] = p => t[2] <= r[2]
    IN  /\ ~mounted
        /\ Cardinality(files) <= MaxFiles
        /\ Cardinality(dirs) <= MaxDirs
        /\ mounted' = TRUE
        /\ dir_inodes' = d
        /\ dir_contents' =
            [i \in 0..Cardinality(dirs) |->
                { Entry(Name(p), d[p], "dir") : p \in { q \in dirs : d[Parent(q)] = i } }
                \cup { Entry(Name(r[1]), f[r], archive[r[1]][r[2]].kind) :
                        r \in { t \in files : d[Parent(t[1])] = i } }]
        /\ inode_to_path' = [i \in 1..Cardinality(files) |->
                                (CHOOSE r \in files : f[r] = i)[1]]
        /\ path_to_inode' = [p \in { r[1] : r \in files } |-> f[last(p)]]
        /\ next_file_ino' = Cardinality(files) + 1
        /\ next_dir_ino' = Cardinality(dirs) + 1
        /\ UNCHANGED <<archive, modified_data, attrs>>

-----------------------------------------------------------------------------
(* Making and removing files and directories *)

\* get_dir_path: the root's for an inode that no directory has.
PathOf(d) ==
    IF \E p \in DOMAIN dir_inodes : dir_inodes[p] = d
    THEN CHOOSE p \in DOMAIN dir_inodes : dir_inodes[p] = d
    ELSE RootPath

\* What create_file, create_directory and create_symlink check first.
IsNew(d, name) ==
    LET p == Append(PathOf(d), name)
    IN  /\ mounted
        /\ d \in DOMAIN dir_contents
        /\ p \in Path
        /\ Storable(p)
        /\ p \notin DOMAIN dir_inodes \cup DOMAIN path_to_inode

\* The tree has the directory, whether the archive could take it or not.
CreateDirectory(d, name) ==
    LET p == Append(PathOf(d), name)
        ino == next_dir_ino
    IN  /\ IsNew(d, name)
        /\ ino <= MaxDirs
        /\ next_dir_ino' = ino + 1
        /\ dir_inodes' = With(dir_inodes, p, ino)
        /\ dir_contents' = Pushed(With(dir_contents, ino, {}), d, Entry(name, ino, "dir"))
        /\ archive' \in AddedOrNot(archive, p, NewNode("dir", <<>>))
        /\ UNCHANGED <<mounted, inode_to_path, path_to_inode, modified_data,
                       attrs, next_file_ino>>

\* What create_file and create_symlink do to the tree.
NewInode(d, name, kind) ==
    LET p == Append(PathOf(d), name)
        ino == next_file_ino
    IN  /\ IsNew(d, name)
        /\ ino <= MaxFiles
        /\ next_file_ino' = ino + 1
        /\ inode_to_path' = With(inode_to_path, ino, p)
        /\ path_to_inode' = With(path_to_inode, p, ino)
        /\ dir_contents' = Pushed(dir_contents, d, Entry(name, ino, kind))
        /\ archive' \in AddedOrNot(archive, p, NewNode(kind, <<>>))
        /\ UNCHANGED <<mounted, dir_inodes, attrs, next_dir_ino>>

CreateFile(d, name) ==
    /\ NewInode(d, name, "file")
    /\ modified_data' = With(modified_data, Append(PathOf(d), name), <<>>)

CreateSymlink(d, name) ==
    /\ NewInode(d, name, "symlink")
    /\ UNCHANGED modified_data

RemoveDirectory(d, name) ==
    LET p == Append(PathOf(d), name)
    IN  /\ mounted
        /\ d \in DOMAIN dir_contents
        /\ p \in DOMAIN dir_inodes \ DOMAIN path_to_inode
        /\ dir_contents[dir_inodes[p]] = {}
        /\ dir_inodes' = Without(dir_inodes, {p})
        /\ dir_contents' = Dropped(Without(dir_contents, {dir_inodes[p]}), d, name)
        /\ archive' = DeletedDir(archive, p)
        /\ UNCHANGED <<mounted, inode_to_path, path_to_inode, modified_data,
                       attrs, next_file_ino, next_dir_ino>>

RemoveFile(d, name) ==
    LET p == Append(PathOf(d), name)
    IN  /\ mounted
        /\ d \in DOMAIN dir_contents
        /\ p \in DOMAIN path_to_inode \ DOMAIN dir_inodes
        /\ inode_to_path' = Without(inode_to_path, {path_to_inode[p]})
        /\ path_to_inode' = Without(path_to_inode, {p})
        /\ dir_contents' = Dropped(dir_contents, d, name)
        /\ modified_data' = Without(modified_data, {p})
        /\ archive' = Deleted(archive, {p})
        /\ UNCHANGED <<mounted, dir_inodes, attrs, next_file_ino, next_dir_ino>>

-----------------------------------------------------------------------------
(* Modes *)

\* Mutant: no default for a path without an entry.
EntryKindOrNone(a, p) == IF HasEntry(a, p) THEN a[Cut(p)][1].kind ELSE "none"

EntryKind(a, p) == IF HasEntry(a, p) THEN a[Cut(p)][1].kind ELSE "file"

\* The type bits of get_file_mode: the buffered ones, whose path nothing but a
\* sync takes away, or those of the path's first row, which may be what is left
\* of a directory that was removed.
ModeKind(a, p) == IF p \in DOMAIN modified_modes THEN modified_modes[p] ELSE EntryKind(a, p)

-----------------------------------------------------------------------------
(* Renaming *)

Below(p, dir) == Len(p) > Len(dir) /\ SubSeq(p, 1, Len(dir)) = dir

Moved(p, old, new) ==
    IF Below(p, old) THEN new \o SubSeq(p, Len(old) + 1, Len(p)) ELSE p

\* A map from paths after a directory's rename.
Rekeyed(f, old, new) ==
    LET under == { p \in DOMAIN f : Below(p, old) }
    IN  [q \in { Moved(p, old, new) : p \in DOMAIN f } |->
            IF \E p \in under : Moved(p, old, new) = q
            THEN f[CHOOSE p \in under : Moved(p, old, new) = q]
            ELSE f[q]]

\* Mutant: what is buffered stays under the old path.
MovedDataLeft(old, new) == modified_data

MovedData(old, new) == Rekeyed(modified_data, old, new)

(***************************************************************************)
(* A file or a symlink.  A file that has the new name is removed first.     *)
(* The data that the archive has for the old path is added under the new    *)
(* one, or else the buffered data; a symlink has neither.  The adds may     *)
(* fail, and nobody is told.  The type bits are the old path's.             *)
(***************************************************************************)
RenameFile(d, name, e, to) ==
    LET old == Append(PathOf(d), name)
        new == Append(PathOf(e), to)
        ino == path_to_inode[old]
        over == {new} \cap DOMAIN path_to_inode
        kept == Without(modified_data, over)
        data == IF old \in DOMAIN kept THEN With(Without(kept, {old}), new, kept[old])
                ELSE kept
        listed == IF over = {} THEN dir_contents ELSE Dropped(dir_contents, e, to)
        a == Deleted(archive, over)
        copied == IF IsFile(a, old) THEN AddedOrNot(a, new, NewNode(ModeKind(a, old), FileData(a, old)))
                  ELSE IF new \in DOMAIN data
                  THEN AddedOrNot(a, new, NewNode("file", data[new]))
                  ELSE {a}
    IN  /\ mounted
        /\ {d, e} \subseteq DOMAIN dir_contents
        /\ old \in DOMAIN path_to_inode
        /\ new # old
        /\ new \in Path
        /\ Storable(new)
        /\ new \notin DOMAIN dir_inodes
        /\ over # {} => old \notin DOMAIN dir_inodes
        /\ path_to_inode' = With(Without(path_to_inode, over \cup {old}), new, ino)
        /\ inode_to_path' =
            With(Without(inode_to_path, { path_to_inode[p] : p \in over }), ino, new)
        /\ modified_data' = data
        /\ dir_contents' = Pushed(Dropped(listed, d, name), e, Entry(to, ino, "file"))
        /\ \E b \in copied : archive' = Deleted(b, {old})
        /\ UNCHANGED <<mounted, dir_inodes, attrs, next_file_ino, next_dir_ino>>

(***************************************************************************)
(* A directory with everything under it; in the archive only its own row.   *)
(* The kernel has seen to it that a directory does not go into itself.  Of  *)
(* two inodes with one path either may be the path's afterwards.            *)
(***************************************************************************)
RenameDirectory(d, name, e, to) ==
    LET old == Append(PathOf(d), name)
        new == Append(PathOf(e), to)
        ino == dir_inodes[old]
        i2p == [i \in DOMAIN inode_to_path |-> Moved(inode_to_path[i], old, new)]
        moved == { i \in DOMAIN inode_to_path : Below(inode_to_path[i], old) }
        stay == { p \in DOMAIN path_to_inode : ~Below(p, old) }
    IN  /\ mounted
        /\ {d, e} \subseteq DOMAIN dir_contents
        /\ old \in DOMAIN dir_inodes \ DOMAIN path_to_inode
        /\ ~Below(new, old)
        /\ new \in Path
        /\ Storable(new)
        /\ new \notin DOMAIN dir_inodes \cup DOMAIN path_to_inode
        /\ \A p \in DOMAIN dir_inodes : Moved(p, old, new) \in DirPath
        /\ \A i \in DOMAIN inode_to_path : i2p[i] \in Path
        /\ dir_inodes' = With(Rekeyed(Without(dir_inodes, {old}), old, new), new, ino)
        /\ dir_contents' = Pushed(Dropped(dir_contents, d, name), e, Entry(to, ino, "dir"))
        /\ inode_to_path' = i2p
        /\ path_to_inode' \in
            { f \in [stay \cup { i2p[i] : i \in moved } -> DOMAIN inode_to_path] :
                \A p \in DOMAIN f :
                    IF \E i \in moved : i2p[i] = p THEN f[p] \in moved /\ i2p[f[p]] = p
                    ELSE f[p] = path_to_inode[p] }
        /\ modified_data' = MovedData(old, new)
        /\ \E a \in AddedOrNot(archive, new, NewNode("dir", <<>>)) :
            archive' = DeletedDir(a, old)
        /\ UNCHANGED <<mounted, attrs, next_file_ino, next_dir_ino>>

-----------------------------------------------------------------------------
(* Reading and writing *)

\* What read finds: the buffered data, or the archive's.
CanRead(i) ==
    /\ i \in DOMAIN inode_to_path
    /\ inode_to_path[i] \in DOMAIN modified_data \/ IsFile(archive, inode_to_path[i])

Data(i) ==
    LET p == inode_to_path[i]
    IN  IF p \in DOMAIN modified_data THEN modified_data[p] ELSE FileData(archive, p)

\* Vec::resize
Resized(data, n) == [k \in 1..n |-> IF k <= Len(data) THEN data[k] ELSE Nul]

\* load_into_modified, which comes before the limit is looked at.
Load(i) == modified_data' = With(modified_data, inode_to_path[i], Data(i))

\* Mutant: a byte more than the limit.
WritePastLimit(i, offset, b) ==
    LET size == IF offset < Len(Data(i)) THEN Len(Data(i)) ELSE offset + 1
    IN  /\ mounted
        /\ CanRead(i)
        /\ IF offset > MaxFileSize THEN Load(i)
           ELSE modified_data' = With(modified_data, inode_to_path[i],
                                      [Resized(Data(i), size) EXCEPT ![offset + 1] = b])
        /\ UNCHANGED <<mounted, archive, tree, attrs>>

\* One byte at an offset.
Write(i, offset, b) ==
    LET size == IF offset < Len(Data(i)) THEN Len(Data(i)) ELSE offset + 1
    IN  /\ mounted
        /\ CanRead(i)
        /\ IF offset >= MaxFileSize THEN Load(i)
           ELSE modified_data' = With(modified_data, inode_to_path[i],
                                      [Resized(Data(i), size) EXCEPT ![offset + 1] = b])
        /\ UNCHANGED <<mounted, archive, tree, attrs>>

\* setattr of a size alone.
Truncate(i, n) ==
    /\ mounted
    /\ CanRead(i)
    /\ n <= MaxFileSize
    /\ modified_data' = With(modified_data, inode_to_path[i], Resized(Data(i), n))
    /\ UNCHANGED <<mounted, archive, tree, attrs>>

\* setattr of a mode: the type bits of a file or symlink stay what they are,
\* a directory's are its own.
SetMode(p) ==
    /\ mounted
    /\ \/ /\ \E i \in DOMAIN inode_to_path : inode_to_path[i] = p
          /\ modified_modes' = With(modified_modes, p, ModeKind(archive, p))
       \/ /\ p \in DOMAIN dir_inodes
          /\ modified_modes' = With(modified_modes, p, "dir")
    /\ UNCHANGED <<mounted, archive, tree, modified_data, modified_times>>

\* setattr of a time, of any inode.
SetTime(p) ==
    /\ mounted
    /\ p \in DOMAIN dir_inodes \cup { inode_to_path[i] : i \in DOMAIN inode_to_path }
    /\ modified_times' = modified_times \cup {p}
    /\ UNCHANGED <<mounted, archive, tree, modified_data, modified_modes>>

-----------------------------------------------------------------------------
(* sync_modified_to_archive *)

\* The entries of the paths deleted and added with their data in turn, and
\* those of gone deleted at the end.  The kind is that of the mode the path has
\* when its turn comes: by then its entry may have gone with another's.
Rewritten(a, order, gone, data) ==
    [q \in Path |->
        IF q \in DOMAIN order /\ q \notin { Cut(p) : p \in gone }
        THEN <<NewNode(ModeKind(Deleted(a, Earlier(order, q)), q), data[q])>>
        ELSE Deleted(a, DOMAIN order \cup gone)[q]]

\* With all that is buffered in it.
DataStored(a, order) == Rewritten(a, order, {}, modified_data)

\* Changed in mode or time only.
AttrsOnly == (DOMAIN modified_modes \cup modified_times) \ DOMAIN modified_data

\* Each must be a file of the archive when its turn comes.
CanRedo(a, order) ==
    \A p \in DOMAIN order : Storable(p) /\ IsFile(Deleted(a, Earlier(order, p)), p)

Redone(a, order) == Rewritten(a, order, {}, [p \in DOMAIN order |-> FileData(a, p)])

Synced ==
    /\ mounted
    /\ \A p \in DOMAIN modified_data : Storable(p)
    /\ \E first \in Orders(DOMAIN modified_data), then \in Orders(AttrsOnly) :
        /\ CanRedo(DataStored(archive, first), then)
        /\ archive' = Redone(DataStored(archive, first), then)
    /\ modified_data' = NoMap
    /\ modified_modes' = NoMap
    /\ modified_times' = {}

\* The state is dropped with the mount.
Dropping ==
    /\ mounted' = FALSE
    /\ dir_inodes' = NoMap
    /\ dir_contents' = NoMap
    /\ inode_to_path' = NoMap
    /\ path_to_inode' = NoMap
    /\ next_file_ino' = 1
    /\ next_dir_ino' = 1

(***************************************************************************)
(* What a sync that returns an error has done: some entries are rewritten,  *)
(* and one is deleted when it cannot be added again, or is no file of the   *)
(* archive, or it is the sync of the archive itself that fails.             *)
(***************************************************************************)
SyncStops ==
    /\ mounted
    /\ \/ \E p \in DOMAIN modified_data :
          \E done \in SUBSET { q \in DOMAIN modified_data : q # p /\ Storable(q) } :
          \E order \in Orders(done) :
            archive' = Rewritten(archive, order, {p}, modified_data)
       \/ /\ \A p \in DOMAIN modified_data : Storable(p)
          /\ \E first \in Orders(DOMAIN modified_data) :
             \E done \in SUBSET AttrsOnly :
             \E then \in Orders(done) :
                LET a == Redone(DataStored(archive, first), then)
                IN  /\ CanRedo(DataStored(archive, first), then)
                    /\ \/ \E p \in AttrsOnly \ done :
                            archive' = IF IsFile(a, p) THEN Deleted(a, {p}) ELSE a
                       \/ done = AttrsOnly /\ archive' = a

\* Mutant: what is buffered is cleared although the sync failed.
SyncFailsCleared ==
    /\ SyncStops
    /\ modified_data' = NoMap
    /\ modified_modes' = NoMap
    /\ modified_times' = {}
    /\ UNCHANGED <<mounted, tree>>

\* flush or fsync return the error, and what is buffered stays.
SyncFails == SyncStops /\ UNCHANGED <<mounted, tree, modified_data, attrs>>

-----------------------------------------------------------------------------
(* Properties *)

\* The types of the tree's maps, of the buffers and of the archive: every mode that
\* is buffered says what kind it is, also of a path without an entry.
TypeOK ==
    /\ mounted \in BOOLEAN
    /\ DOMAIN archive = Path
    /\ \A p \in Path : archive[p] \in Seq(Node)
    /\ DOMAIN dir_inodes \subseteq DirPath
    /\ DOMAIN dir_contents \subseteq DirIno
    /\ \A p \in DOMAIN dir_inodes : dir_inodes[p] \in DOMAIN dir_contents
    /\ \A d \in DOMAIN dir_contents :
        dir_contents[d] \subseteq
            [name : Names, ino : DirIno, kind : {"dir"}]
            \cup [name : Names, ino : FileIno, kind : {"file", "symlink"}]
    /\ DOMAIN inode_to_path \subseteq FileIno
    /\ \A i \in DOMAIN inode_to_path : inode_to_path[i] \in Path
    /\ DOMAIN path_to_inode \subseteq Path
    /\ DOMAIN modified_data \subseteq Path
    /\ \A p \in DOMAIN modified_data : modified_data[p] \in Content
    /\ DOMAIN modified_modes \subseteq DirPath
    /\ \A p \in DOMAIN modified_modes : modified_modes[p] \in Kind
    /\ modified_times \subseteq DirPath
    /\ next_file_ino \in 1..(MaxFiles + 1)
    /\ next_dir_ino \in 1..(MaxDirs + 1)

(***************************************************************************)
(* What a directory lists is found under its own path and the entry's name, *)
(* also after a remount of an archive in which a file and a directory share *)
(* a path.                                                                  *)
(***************************************************************************)
TreeSound ==
    \A p \in DOMAIN dir_inodes : \A e \in dir_contents[dir_inodes[p]] :
        LET q == Append(p, e.name)
        IN  IF e.kind = "dir" THEN q \in DOMAIN dir_inodes /\ dir_inodes[q] = e.ino
            ELSE /\ q \in DOMAIN path_to_inode
                 /\ e.ino \in DOMAIN inode_to_path
                 /\ inode_to_path[e.ino] = q

(***************************************************************************)
(* The two maps of files tell one story: a path's inode has that path,      *)
(* though another may have it too, and what is buffered is some inode's,    *)
(* through every rename of a file or of a directory above it.               *)
(***************************************************************************)
InodesSound ==
    /\ \A p \in DOMAIN path_to_inode :
        /\ path_to_inode[p] \in DOMAIN inode_to_path
        /\ inode_to_path[path_to_inode[p]] = p
    /\ \A p \in DOMAIN modified_data : \E i \in DOMAIN inode_to_path : inode_to_path[i] = p

\* The inode that a lookup of its path gives.
IsNamed(i) ==
    /\ i \in DOMAIN inode_to_path
    /\ inode_to_path[i] \in DOMAIN path_to_inode
    /\ path_to_inode[inode_to_path[i]] = i

\* A request that writes to the inode, or to one that has its path.
WrittenTo(i) ==
    \E j \in DOMAIN inode_to_path :
        /\ inode_to_path[j] = inode_to_path[i]
        /\ \/ \E offset \in 0..MaxFileSize, b \in Byte : Write(j, offset, b)
           \/ \E n \in 0..MaxFileSize : Truncate(j, n)

\* What the path is stored as is a file.
HasFileMode(p) == ModeKind(archive, p) = "file"

KeepsWrites ==
    \A i \in FileIno :
        IsNamed(i) /\ inode_to_path[i] \in DOMAIN modified_data =>
            LET p == inode_to_path[i]
                isStored ==
                    \E kind \in Kind :
                        /\ archive'[p] = <<NewNode(kind, modified_data[p])>>
                        /\ HasFileMode(p) => kind = "file"
            IN  /\ Synced => isStored
                /\ mounted' /\ i \in DOMAIN inode_to_path' =>
                    IF inode_to_path'[i] \in DOMAIN modified_data'
                    THEN Data(i)' = Data(i) \/ WrittenTo(i)
                    ELSE isStored

(***************************************************************************)
(* What has been written to a file and is not yet in the archive is what    *)
(* the file reads until it is written to again, or it is removed: through   *)
(* renames of the file and of the directories above, through syncs that     *)
(* fail half-way, and whatever happens to other files.  It leaves the       *)
(* buffer only for the archive, and then the archive has one row of that    *)
(* path, with that content; or with a mount whose last sync fails.  The row *)
(* is a file's, and so it can be read, when get_file_mode gave a file's     *)
(* mode before; SyncedIsReadable has what happens when it did not.          *)
(***************************************************************************)
WritesKept == [][mounted => KeepsWrites]_vars

\* Has the entry of another path, or a row that another path is cut to.
IsShared(p) ==
    \/ p \in Long
    \/ \E q \in Long : CutTo[q] = p
    \/ LinksOf(archive, {p}) # {}

LeavesOthers ==
    \A i \in FileIno \cap DOMAIN inode_to_path' :
        LET p == inode_to_path[i]
        IN  /\ IsNamed(i) /\ CanRead(i)
            /\ HasFileMode(p)
            /\ p \notin AttrsOnly /\ ~IsShared(p)
            /\ inode_to_path'[i] = p
            => /\ CanRead(i)' /\ (Data(i)' = Data(i) \/ WrittenTo(i))
               /\ HasFileMode(p)' \/ SetMode(p)

(***************************************************************************)
(* A file that can be read and has a file's mode, and that nobody writes    *)
(* to, renames, removes or changes in mode or time, reads the same and      *)
(* keeps that mode after every request for others, syncs that fail among    *)
(* them.  Hard links are beside the point: the sync of one takes the entry  *)
(* of the other.                                                            *)
(***************************************************************************)
OthersLeftAlone == [][mounted /\ mounted' => LeavesOthers]_vars

\* The lengths of all that is buffered or in the archive.
Lengths ==
    { Len(modified_data[p]) : p \in DOMAIN modified_data }
    \cup { Len(archive[r[1]][r[2]].data) : r \in Rows(archive) }

(***************************************************************************)
(* Files "cannot be created or extended beyond this size": what is longer   *)
(* than the limit after a request, in a buffer or in the archive, has the   *)
(* length that something had before it.  Files of the archive above the     *)
(* limit are loaded whole before the limit is looked at, written to,        *)
(* renamed and synced.                                                      *)
(***************************************************************************)
NoneExtended == [][\A n \in Lengths' : n <= MaxFileSize \/ n \in Lengths]_vars

(***************************************************************************)
(* "Syncs all modified files to the archive": a file that is buffered, and  *)
(* so can be read, can be read after a sync that succeeds.                  *)
(***************************************************************************)
SyncedIsReadable ==
    [][mounted' /\ Synced =>
        \A i \in FileIno :
            IsNamed(i) /\ inode_to_path[i] \in DOMAIN modified_data => CanRead(i)']_vars

\* "File permissions (chmod) for files, directories, and symlinks": what has
\* changed in its mode or time is something that a sync can store.
AttrsCanBeSynced ==
    \A p \in AttrsOnly, order \in Orders(DOMAIN modified_data) :
        IsFile(DataStored(archive, order), p)

=============================================================================
