---------------------------- MODULE ArchiveReader ----------------------------
(***************************************************************************)
(* Archive<MappedArchive>: what a program that has opened an archive for    *)
(* reading is told about it.  A reader keeps nothing but the mapping; every *)
(* call reads the tables where the trailer locates them.                    *)
(*                                                                          *)
(* Where the code leaves the answer open (a bisection over rows that are    *)
(* equal, or not in order) an operator gives the set of possible answers.   *)
(***************************************************************************)
EXTENDS ArchiveImage

\* The archive in the first len cells of a file.
Reader(cells, len) == [cells |-> cells, len |-> len]

TrailerOf(rd) == rd.cells[rd.len - 1].trailer

EntryTable(rd) ==
    LET tr == TrailerOf(rd)
    IN  [i \in 1..tr.entryCount |-> rd.cells[tr.entryOff + i - 1].row]

DirectoryTable(rd) ==
    LET tr == TrailerOf(rd)
    IN  [i \in 1..tr.dirCount |-> rd.cells[tr.dirOff + i - 1].row]

-----------------------------------------------------------------------------
(* Searching *)

(***************************************************************************)
(* slice::binary_search_by over n elements, of which those in below are     *)
(* less than the key and those in equal match it: the index of some match,  *)
(* or 0 for none.  On elements that are not in order it may answer anything.*)
(***************************************************************************)
InOrder(n, below, equal) ==
    \A j \in 1..n : \A i \in 1..(j - 1) :
        /\ j \in below => i \in below
        /\ j \in equal => i \in below \cup equal

Bisection(n, below, equal) ==
    IF ~InOrder(n, below, equal) THEN 0..n
    ELSE IF equal = {} THEN {0} ELSE equal

\* Mutant: what the key is longer than path_size is not looked at.
MatchesCut(stored, search) == stored = Padded(search)

\* cmp_path_bytes is Equal, or it is Less.
Matches(stored, search) == stored = Padded(search) /\ Len(search) <= PathSize
SortsBefore(stored, search) ==
    \/ PathLess(stored, Padded(search))
    \/ stored = Padded(search) /\ Len(search) > PathSize

\* find_directory_row_by_path: every table that sync wrote has the compacted flag.
RowsFound(rd, search) ==
    LET dirs == DirectoryTable(rd)
    IN  Bisection(Len(dirs),
                  { i \in DOMAIN dirs : SortsBefore(dirs[i].path, search) },
                  { i \in DOMAIN dirs : Matches(dirs[i].path, search) })

\* find_entry_row_by_id
EntriesFound(rd, id) ==
    LET rows == EntryTable(rd)
    IN  Bisection(Len(rows), { i \in DOMAIN rows : rows[i].id < id },
                             { i \in DOMAIN rows : rows[i].id = id })

-----------------------------------------------------------------------------
(* Answers *)

NotFound == [error |-> "EntryNotFound"]
Corrupted == [error |-> "Corrupted"]
WrongKind == [error |-> "WrongKind"]

Hit(path, row) == [path |-> path, row |-> row]

\* The entry that row i of the directory names.
Resolve(rd, i) ==
    LET d == DirectoryTable(rd)[i]
    IN  { IF k = 0 THEN NotFound ELSE Hit(d.path, EntryTable(rd)[k]) :
            k \in EntriesFound(rd, d.id) }

\* find_entry_with_path
Lookup(rd, search) ==
    UNION { IF i = 0 THEN {NotFound} ELSE Resolve(rd, i) :
                i \in RowsFound(rd, search) }

\* read_data of a block that ends beyond the archive is an error.
OutOfBounds(rd, row) == row.off # 0 /\ row.off + row.size > rd.len

\* make_entry: a directory's data is not read.
MakeEntry(rd, hit) ==
    IF hit.row.kind # "dir" /\ OutOfBounds(rd, hit.row) THEN Corrupted
    ELSE [path |-> hit.path, id |-> hit.row.id, kind |-> hit.row.kind,
          data |-> IF hit.row.kind = "dir" THEN <<>> ELSE ReadData(rd.cells, hit.row)]

\* entry (of any kind), and file, folder and symlink, which want one kind.
Accessors == Kind \cup {"any"}
Access(rd, want, hit) ==
    IF hit = NotFound THEN NotFound
    ELSE IF want \notin {"any", hit.row.kind} THEN WrongKind
    ELSE MakeEntry(rd, hit)

\* find_by_id: the entry under the first path that names it.
FindById(rd, id) ==
    LET dirs == DirectoryTable(rd)
        naming == { i \in DOMAIN dirs : dirs[i].id = id }
        first == CHOOSE i \in naming : \A j \in naming : i <= j
    IN  { IF k = 0 \/ naming = {} THEN NotFound
          ELSE LET entry == MakeEntry(rd, Hit(dirs[first].path, EntryTable(rd)[k]))
               IN  IF entry = Corrupted THEN NotFound ELSE entry :
            k \in EntriesFound(rd, id) }

\* iter_entries: the rows whose entry is not there are passed over.
IterEntries(rd) ==
    (UNION { Resolve(rd, i) : i \in DOMAIN DirectoryTable(rd) }) \ {NotFound}

-----------------------------------------------------------------------------
(* Checking *)

IsSorted(rd) ==
    LET dirs == DirectoryTable(rd)
    IN  \A i \in 2..Len(dirs) : ~PathLess(dirs[i].path, dirs[i - 1].path)

\* find_duplicates: equal neighbours.
FindDuplicates(rd) ==
    LET dirs == DirectoryTable(rd)
    IN  { dirs[i].path : i \in { i \in 2..Len(dirs) : dirs[i].path = dirs[i - 1].path } }

\* The places where a block can start.
Boundaries(limit) == { o \in 1..(limit - 1) : o % Alignment = 0 }

\* has_orphaned_data: a boundary at which no entry's block starts.
HasOrphanedData(rd) ==
    LET referenced == { r.off : r \in Elements(EntryTable(rd)) }
    IN  \E o \in Boundaries(TrailerOf(rd).entryOff) : o \notin referenced

IssueIf(found, issue) == IF found THEN {issue} ELSE {}

(***************************************************************************)
(* check::check of an archive that could be opened.                         *)
(***************************************************************************)
Check(rd) ==
    LET crcs == { h \in IterEntries(rd) :
                    \/ OutOfBounds(rd, h.row)
                    \/ ~VerifyCrc(rd.cells, h.row) }
        paths == { h \in IterEntries(rd) : ~Storable(Normalize(h.path)) }
    IN  [issues |->
            IssueIf(~ReaderAccepts(rd.cells, rd.len), "MetadataCrc")
            \cup IssueIf(crcs # {}, "EntryCrc")
            \cup IssueIf(paths # {}, "InvalidPath")
            \cup IssueIf(~IsSorted(rd), "Unsorted")
            \cup IssueIf(HasOrphanedData(rd), "OrphanedData"),
         duplicates |-> FindDuplicates(rd),
         compacted |-> /\ IsSorted(rd)
                       /\ FindDuplicates(rd) = {}
                       /\ ~HasOrphanedData(rd)]

=============================================================================
