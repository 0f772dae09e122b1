---------------------------- MODULE ArchiveTools ----------------------------
(***************************************************************************)
(* What compact, rename_duplicates and extract make of the tables of an     *)
(* archive.  Compaction tells how these programs share the archive's file;  *)
(* here one runs at a time, and the question is what is in the new archive, *)
(* or on the disk, when it is done.                                         *)
(*                                                                          *)
(* All three list the rows of the directory whose entry is there, in the    *)
(* order of the table, and go through a list of them: todo.  compact and    *)
(* rename_duplicates copy each to a new archive through a writer, which     *)
(* looks paths up as ArchiveWriter does, and replace the old archive when   *)
(* the writer has synced.                                                   *)
(***************************************************************************)
EXTENDS ArchivePath, FiniteSets

CONSTANTS
    Data,      \* contents
    NoData,    \* the empty content
    Archives,  \* the archives that tools may be given
    Requests,  \* sets of paths that extract may be asked for
    Numbered   \* Numbered[name][n]: the name with the number n before its extension

Kind == {"file", "dir", "link"}

\* Entry IDs: a new archive has as many as it has entries.
Id == Nat \ {0}

\* A numbered name for which path_size is too small.
TooLong == 0

\* The rows of a directory table, and the entries that they may name.
Archive == [rows : Seq([path : Path, id : Id]),
            entries : SUBSET [id : Id, kind : Kind, data : Data \cup {NoData}]]

ASSUME ToolsAssumption ==
    /\ \A a \in Archives : a \in Archive
    /\ Requests \subseteq SUBSET Path
    /\ Numbered \in [Names -> Seq(Names \cup {TooLong})]

VARIABLES
    archive,  \* the archive
    tool,     \* what is running
    todo,     \* the rows that are still to be copied or extracted
    out,      \* the tables of the new archive, in the order they were pushed
    written,  \* written_ids: the first path written for each old ID
    wanted,   \* requested: what extract still has to find
    disk      \* the output directory: what is at each path

vars == <<archive, tool, todo, out, written, wanted, disk>>

Copiers == {"compact", "rename"}
Extractors == {"extractAll", "extractSome"}

Nothing == [rows |-> <<>>, entries |-> {}]
EmptyDisk == {}
NoPaths == <<>>

TypeOK ==
    /\ archive \in Archive
    /\ tool \in {"none"} \cup Copiers \cup Extractors
    /\ todo \in Seq([path : Path, id : Id \cup {0}])
    /\ out \in Archive
    /\ DOMAIN written \subseteq Id
    /\ \A id \in DOMAIN written : written[id] \in Path
    /\ wanted \subseteq Path
    /\ disk \subseteq [path : Path, kind : {"file", "dir"}, data : Data \cup {NoData}]

Init ==
    /\ archive \in Archives
    /\ tool = "none"
    /\ todo = <<>>
    /\ out = Nothing
    /\ written = NoPaths
    /\ wanted = {}
    /\ disk = EmptyDisk

-----------------------------------------------------------------------------
(* Tables *)

EntryOf(a, id) == CHOOSE r \in a.entries : r.id = id

\* The positions of the rows that resolve.
Resolving(a) == { i \in DOMAIN a.rows : \E r \in a.entries : r.id = a.rows[i].id }

\* iter_entries: the rows that resolve, in the order of the table.
Listed(a) ==
    LET at == Resolving(a)
    IN  [k \in 1..Cardinality(at) |->
            a.rows[CHOOSE i \in at : Cardinality({ j \in at : j < i }) = k - 1]]

ListedPaths(a) == { Listed(a)[i].path : i \in DOMAIN Listed(a) }

\* sort_by: stable, by path.
StableSort(s) ==
    LET before(i, j) == \/ PathLess(s[i].path, s[j].path)
                        \/ s[i].path = s[j].path /\ i < j
        rank(j) == Cardinality({ i \in DOMAIN s : before(i, j) }) + 1
    IN  [k \in DOMAIN s |-> s[CHOOSE j \in DOMAIN s : rank(j) = k]]

\* The rows of a set, no two of which have the same path, sorted by path.
ByPath(S) ==
    [k \in 1..Cardinality(S) |->
        CHOOSE d \in S : Cardinality({ e \in S : PathLess(e.path, d.path) }) = k - 1]

\* The paths above a path.
Parents(p) == { SubSeq(p, 1, n) : n \in 1..(Len(p) - 1) }

\* with_suffix: the number goes into the last component.
WithSuffix(p, n) ==
    LET names == Numbered[p[Len(p)]]
    IN  [p EXCEPT ![Len(p)] = IF n \in DOMAIN names THEN names[n] ELSE TooLong]

-----------------------------------------------------------------------------
(* The writer of the new archive *)

Pushed(o, path, id) == Append(o.rows, [path |-> path, id |-> id])

\* add_entry, and add_folder: a new archive's IDs are given out in order.
Added(o, path, kind, data) ==
    LET id == Cardinality(o.entries) + 1
    IN  [rows |-> Pushed(o, path, id),
         entries |-> o.entries \cup {[id |-> id, kind |-> kind, data |-> data]}]

\* The first row with the path is the target of a hard link.
TargetOf(o, path) ==
    LET at == { i \in DOMAIN o.rows : o.rows[i].path = path }
    IN  o.rows[CHOOSE i \in at : \A j \in at : i <= j].id

\* hard_link refuses a directory for a target, and a path that is taken.
CanLink(o, target, path) ==
    /\ EntryOf(o, TargetOf(o, target)).kind # "dir"
    /\ \A i \in DOMAIN o.rows : o.rows[i].path # path

Linked(o, target, path) ==
    [rows |-> Pushed(o, path, TargetOf(o, target)), entries |-> o.entries]

-----------------------------------------------------------------------------
(* Starting *)

Idle == tool = "none"

StartsWith(t, rows) ==
    /\ Idle
    /\ tool' = t
    /\ todo' = rows
    /\ out' = Nothing
    /\ written' = NoPaths
    /\ UNCHANGED archive

\* Mutant: the first of the rows that share a path is kept.
FinalEntriesFirst(a) ==
    LET s == Listed(a)
    IN  { s[i] : i \in { i \in DOMAIN s : \A j \in 1..(i - 1) : s[j].path # s[i].path } }

\* The last of the rows that share a path is kept.
FinalEntries(a) ==
    LET s == Listed(a)
    IN  { s[i] : i \in { i \in DOMAIN s :
                            \A j \in (i + 1)..Len(s) : s[j].path # s[i].path } }

\* The directories that paths imply and no entry is for.
MissingDirs(a) ==
    LET final == FinalEntries(a)
        explicit == { d.path : d \in { d \in final : EntryOf(a, d.id).kind = "dir" } }
    IN  (UNION { Parents(d.path) : d \in final }) \ explicit

\* compact: directories that are missing first, and then the entries.
StartCompact ==
    /\ StartsWith("compact",
            ByPath({ [path |-> p, id |-> 0] : p \in MissingDirs(archive) })
            \o ByPath(FinalEntries(archive)))
    /\ UNCHANGED <<wanted, disk>>

Occurrence(s, i) == Cardinality({ j \in 1..i : s[j].path = s[i].path })
Count(s, i) == Cardinality({ j \in DOMAIN s : s[j].path = s[i].path })

\* All but the last of the rows that share a path get a number.
Renamed(s, i) ==
    IF Occurrence(s, i) < Count(s, i) THEN WithSuffix(s[i].path, Occurrence(s, i))
    ELSE s[i].path

RenamedRows(s) == [i \in DOMAIN s |-> [path |-> Renamed(s, i), id |-> s[i].id]]

\* Mutant: the length of a numbered path is not looked at.
StartRenameUnmeasured ==
    LET s == Listed(archive)
    IN  /\ \E i \in DOMAIN s : Count(s, i) > 1
        /\ StartsWith("rename", StableSort(RenamedRows(s)))
        /\ UNCHANGED <<wanted, disk>>

(***************************************************************************)
(* rename_duplicates: without duplicates there is nothing to do, and a      *)
(* numbered path that is too long is an error.                              *)
(***************************************************************************)
StartRename ==
    LET s == Listed(archive)
    IN  /\ \E i \in DOMAIN s : Count(s, i) > 1
        /\ \A i \in DOMAIN s : Storable(Renamed(s, i))
        /\ StartsWith("rename", StableSort(RenamedRows(s)))
        /\ UNCHANGED <<wanted, disk>>

\* extract into a directory that is empty, of everything or of what is asked for.
StartExtract(request) ==
    /\ StartsWith(IF request = {} THEN "extractAll" ELSE "extractSome", Listed(archive))
    /\ wanted' = request
    /\ disk' = EmptyDisk

-----------------------------------------------------------------------------
(* Copying *)

Copying == tool \in Copiers /\ todo # <<>>

\* Mutant: a row whose entry has been written is added once more.
IsWrittenNever(id) == FALSE

IsWritten(id) == id \in DOMAIN written

Advances == todo' = Tail(todo) /\ UNCHANGED <<archive, tool, wanted, disk>>

CopyDir ==
    /\ Copying
    /\ Head(todo).id = 0
    /\ out' = Added(out, Head(todo).path, "dir", NoData)
    /\ Advances
    /\ UNCHANGED written

CopyEntry ==
    LET d == Head(todo)
        r == EntryOf(archive, d.id)
    IN  /\ Copying
        /\ d.id # 0
        /\ ~IsWritten(d.id)
        /\ out' = Added(out, d.path, r.kind, r.data)
        /\ written' = [id \in DOMAIN written \cup {d.id} |->
                        IF id = d.id THEN d.path ELSE written[id]]
        /\ Advances

LinkEntry ==
    LET d == Head(todo)
    IN  /\ Copying
        /\ d.id # 0
        /\ IsWritten(d.id)
        /\ CanLink(out, written[d.id], d.path)
        /\ out' = Linked(out, written[d.id], d.path)
        /\ Advances
        /\ UNCHANGED written

Stops ==
    /\ tool' = "none"
    /\ todo' = <<>>
    /\ out' = Nothing
    /\ written' = NoPaths
    /\ wanted' = {}

\* hard_link is refused: the temporary file goes, the archive stays.
LinkRefused ==
    /\ Copying
    /\ Head(todo).id # 0
    /\ IsWritten(Head(todo).id)
    /\ ~CanLink(out, written[Head(todo).id], Head(todo).path)
    /\ Stops
    /\ UNCHANGED <<archive, disk>>

\* A block, the tables or a file cannot be written.
IoError ==
    /\ ~Idle
    /\ Stops
    /\ UNCHANGED <<archive, disk>>

\* sync, and the new archive replaces the old one.
Replace ==
    /\ tool \in Copiers
    /\ todo = <<>>
    /\ archive' = [rows |-> StableSort(out.rows), entries |-> out.entries]
    /\ Stops
    /\ UNCHANGED disk

-----------------------------------------------------------------------------
(* Extracting *)

Extracting == tool \in Extractors /\ todo # <<>>

\* requested.remove: only the first row with a path is what was asked for.
Found == wanted \ {Head(todo).path}

IsWanted == tool = "extractAll" \/ Head(todo).path \in wanted

ExtractSkip ==
    /\ Extracting
    /\ ~IsWanted
    /\ Advances
    /\ UNCHANGED <<out, written>>

At(kind, p) == \E n \in disk : n.path = p /\ n.kind = kind

\* create_dir_all of the parent, and File::create, which truncates a file.
CanExtract(p) ==
    /\ \A q \in Parents(p) : ~At("file", q)
    /\ ~At("dir", p)

DirsAbove(p) == { [path |-> q, kind |-> "dir", data |-> NoData] : q \in Parents(p) }

\* Mutant: a file that is there is left as it is.
StoredOnce(p, data) ==
    IF At("file", p) THEN disk
    ELSE disk \cup {[path |-> p, kind |-> "file", data |-> data]}

\* What there was in the file is gone.
Stored(p, data) ==
    { n \in disk : n.path # p } \cup {[path |-> p, kind |-> "file", data |-> data]}

\* extract_entry: whatever the entry is, what it leaves is a regular file.
ExtractEntry ==
    LET p == Head(todo).path
    IN  /\ Extracting
        /\ IsWanted
        /\ CanExtract(p)
        /\ disk' = DirsAbove(p) \cup Stored(p, EntryOf(archive, Head(todo).id).data)
        /\ todo' = Tail(todo)
        /\ wanted' = Found
        /\ UNCHANGED <<archive, tool, out, written>>

\* A file is in the way of a directory, or a directory in the way of a file.
ExtractRefused ==
    /\ Extracting
    /\ IsWanted
    /\ ~CanExtract(Head(todo).path)
    /\ Stops
    /\ UNCHANGED <<archive, disk>>

\* EntryNotFound: what was found has been extracted all the same.
ExtractMissing ==
    /\ tool = "extractSome"
    /\ todo = <<>>
    /\ wanted # {}
    /\ Stops
    /\ UNCHANGED <<archive, disk>>

ExtractDone ==
    /\ tool \in Extractors
    /\ todo = <<>>
    /\ tool = "extractSome" => wanted = {}
    /\ Stops
    /\ UNCHANGED <<archive, disk>>

-----------------------------------------------------------------------------
Next ==
    \/ StartCompact \/ StartRename
    \/ \E request \in Requests : StartExtract(request)
    \/ CopyDir \/ CopyEntry \/ LinkEntry \/ LinkRefused
    \/ IoError
    \/ Replace
    \/ ExtractSkip \/ ExtractEntry \/ ExtractRefused \/ ExtractMissing \/ ExtractDone

Spec == Init /\ [][Next]_vars

-----------------------------------------------------------------------------
(* What the tools promise *)

\* The rows with a path that resolve, and the entry that the last of them names.
RowsAt(a, p) == { i \in DOMAIN Listed(a) : Listed(a)[i].path = p }
LastAt(a, p) ==
    EntryOf(a, Listed(a)[CHOOSE i \in RowsAt(a, p) : \A j \in RowsAt(a, p) : j <= i].id)
FirstAt(a, p) ==
    EntryOf(a, Listed(a)[CHOOSE i \in RowsAt(a, p) : \A j \in RowsAt(a, p) : i <= j].id)

Resolves(a) == Len(Listed(a)) = Len(a.rows)
NoDuplicates(a) == \A i, j \in DOMAIN a.rows : a.rows[i].path = a.rows[j].path => i = j

Same(r, s) == r.kind = s.kind /\ r.data = s.data

\* Some path lies under one that is not a directory's.
FileAbove(a) ==
    \E p \in ListedPaths(a) :
        \E q \in Parents(p) \cap ListedPaths(a) : LastAt(a, q).kind # "dir"

(***************************************************************************)
(* compact keeps, under every path that resolves, the kind and the data of  *)
(* the last row that has it; two paths are hard links of one entry after it *)
(* if and only if those rows were; every row resolves; and what is new is a *)
(* directory above another path.  No two rows share a path, unless a file   *)
(* was above another path.                                                  *)
(***************************************************************************)
CompactKeepsLast ==
    [][(Replace /\ tool = "compact") =>
        /\ Resolves(archive')
        /\ \A p \in ListedPaths(archive) :
            /\ p \in ListedPaths(archive')
            /\ Same(LastAt(archive', p), LastAt(archive, p))
        /\ \A p, q \in ListedPaths(archive) :
            LastAt(archive', p).id = LastAt(archive', q).id
                <=> LastAt(archive, p).id = LastAt(archive, q).id
        /\ \A p \in ListedPaths(archive') \ ListedPaths(archive) :
            /\ LastAt(archive', p).kind = "dir"
            /\ \E q \in ListedPaths(archive) : p \in Parents(q)
        /\ FileAbove(archive) \/ NoDuplicates(archive')]_vars

\* A numbered name that the archive has already, or that two rows would get.
Collides(a) ==
    LET s == Listed(a)
    IN  \E i, j \in DOMAIN s : i # j /\ Renamed(s, i) = Renamed(s, j)

(***************************************************************************)
(* rename_duplicates, unless a numbered name is taken, loses no row: each   *)
(* has its new path to itself, under which is the kind and the data of its  *)
(* entry; the last row of a path keeps it; and hard links remain so.        *)
(***************************************************************************)
RenameKeepsAll ==
    [][(Replace /\ tool = "rename" /\ ~Collides(archive)) =>
        LET s == Listed(archive)
        IN  /\ NoDuplicates(archive') /\ Resolves(archive')
            /\ Len(archive'.rows) = Len(s)
            /\ \A i \in DOMAIN s :
                /\ Renamed(s, i) \in ListedPaths(archive')
                /\ Same(LastAt(archive', Renamed(s, i)), EntryOf(archive, s[i].id))
            /\ \A p \in ListedPaths(archive) :
                Same(LastAt(archive', p), LastAt(archive, p))
            /\ \A i, j \in DOMAIN s :
                s[i].id = s[j].id <=>
                    LastAt(archive', Renamed(s, i)).id = LastAt(archive', Renamed(s, j)).id
       ]_vars

(***************************************************************************)
(* What extract leaves when it succeeds: after all entries, a file for each *)
(* path with the data of the last row that has it, and nothing else but the *)
(* directories above; of named entries, which are all there, the data of    *)
(* the first row that has the path.                                         *)
(***************************************************************************)
ExtractRight ==
    [][ExtractDone =>
        LET files == { n \in disk : n.kind = "file" }
            dirs == { n.path : n \in disk \ files }
        IN  /\ dirs = UNION { Parents(n.path) : n \in files }
            /\ \A n \in files :
                n.data = IF tool = "extractAll" THEN LastAt(archive, n.path).data
                         ELSE FirstAt(archive, n.path).data
            /\ tool = "extractAll" => { n.path : n \in files } = ListedPaths(archive)
       ]_vars

-----------------------------------------------------------------------------
(* What the documentation says of the tools, and they do not do *)

(***************************************************************************)
(* rename_duplicates: "the last occurrence keeps the original name", and    *)
(* "this preserves shadowing semantics where the last entry wins".          *)
(***************************************************************************)
RenameKeepsLast ==
    [][(Replace /\ tool = "rename") =>
        \A p \in ListedPaths(archive) :
            Same(LastAt(archive', p), LastAt(archive, p))]_vars

=============================================================================
