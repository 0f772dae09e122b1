--------------------------- MODULE ArchiveReading ---------------------------
(***************************************************************************)
(* The writer's own queries, and what the readers of a file that a writer   *)
(* leaves are told.  The two are written apart from each other: a writer    *)
(* scans the tables it has in memory, a reader searches the ones on disk by *)
(* bisection.                                                               *)
(***************************************************************************)
EXTENDS ArchiveWriter, ArchiveReader

-----------------------------------------------------------------------------
(* Archive<MappedArchiveMut> as an ArchiveRead *)

InSession == Reader(mmap.cells, mmap.len)

\* find_entry_with_path
SessionLookup(raw) ==
    IF ~Found(raw) THEN {NotFound}
    ELSE { Hit(p[1].path, p[2]) :
            p \in { p \in dirEntries \X entryRows : Finds(raw, p[1], p[2]) } }

\* file, folder, symlink and entry
SessionAccess(want, raw) == { Access(InSession, want, h) : h \in SessionLookup(raw) }

\* find_by_id: the first row in the vector that names the entry.
SessionFindById(id) ==
    LET naming == { d \in dirEntries : d.id = id }
        firsts == { d \in naming : \A e \in naming : d.at <= e.at }
        found == { MakeEntry(InSession, Hit(d.path, r)) :
                    d \in firsts, r \in { r \in entryRows : r.id = id } } \ {Corrupted}
    IN  IF found = {} THEN {NotFound} ELSE found

\* find_duplicates: equal neighbours in the vector, which sync sorts.
SessionDuplicates ==
    { d.path : d \in { d \in dirEntries :
        \E e \in dirEntries : e.at = d.at + 1 /\ e.path = d.path } }

\* Mutant: every block is taken for one that reaches the next boundary but one.
BoundaryPassed(o) == o + 2 * Alignment

\* has_orphaned_data goes on at the boundary after the block at o.
BoundaryAfter(o) ==
    LET sizes == { r.size : r \in { r \in entryRows : r.off = o } } \ {0}
    IN  IF sizes = {} THEN o + Alignment
        ELSE Aligned(o + CHOOSE n \in sizes : TRUE)

\* Where has_orphaned_data finds a block.
OffsetsInUse == { r.off : r \in entryRows } \ {0}

\* has_orphaned_data, from the boundary at o on.  None is left to look at where
\* the next is beyond the disk.
OrphansFrom[o \in 0..DiskSize] ==
    /\ o < writeOffset
    /\ o \in OffsetsInUse => BoundaryAfter(o) <= DiskSize /\ OrphansFrom[BoundaryAfter(o)]

\* has_orphaned_data, from the first boundary after the header on.
SessionHasOrphans == Aligned(1) <= DiskSize /\ OrphansFrom[Aligned(1)]

(***************************************************************************)
(* verify_metadata_crc of a session takes as many entry rows from the file  *)
(* as there are in memory, and what lies beyond the content is a panic.     *)
(***************************************************************************)
SessionMetadata ==
    LET rows == Cardinality(entryRows)
        tr == trailer
        c == mmap.cells[mmap.len - 1]
    IN  IF \/ rows # 0 /\ tr.entryOff + rows > mmap.len
           \/ tr.dirCount # 0 /\ tr.dirOff + tr.dirCount > mmap.len
        THEN "panic"
        ELSE IF /\ c.t = "trailer" /\ tr = c.trailer
                /\ mmap.cells[0] = Header
                /\ rows = Len(c.entries)
                /\ TablesMatch(mmap.cells, c)
        THEN "ok" ELSE "mismatch"

-----------------------------------------------------------------------------
(* What readers find *)

Readable == ReaderAccepts(mmap.cells, mmap.cap)
OnDisk == Reader(mmap.cells, mmap.cap)

\* Nothing to sync, and nothing written since the last sync or open.
Clean == session = "open" /\ ~dirty /\ mmap.len = mmap.committed

(***************************************************************************)
(* A reader's bisection finds what a scan of the directory would: in every  *)
(* file a reader accepts, of a session that is open or was dropped or       *)
(* killed, the rows it may answer are all and only those with the path      *)
(* asked for, and it answers none only if there is none.                    *)
(***************************************************************************)
SearchIsScan ==
    Readable =>
        LET dirs == DirectoryTable(OnDisk)
            rows == EntryTable(OnDisk)
        IN  /\ \A raw \in RawPaths :
                LET scan == { i \in DOMAIN dirs : dirs[i].path = raw }
                IN  RowsFound(OnDisk, raw) = IF scan = {} THEN {0} ELSE scan
            /\ \A id \in 1..MaxId :
                LET scan == { i \in DOMAIN rows : rows[i].id = id }
                IN  /\ EntriesFound(OnDisk, id) = IF scan = {} THEN {0} ELSE scan
                    /\ \A i, j \in scan : i = j

(***************************************************************************)
(* A reader of a clean archive and its writer give the same answer under    *)
(* every path that at most one row has and that is not too long to be one:  *)
(* entry, file, folder and symlink, the data and the refusals included.     *)
(***************************************************************************)
NamesAgree ==
    Clean =>
        \A raw \in RawPaths :
            (Cardinality(RowsOf(Padded(raw))) <= 1 /\ Len(raw) <= PathSize) =>
                \A want \in Accessors :
                    { Access(OnDisk, want, h) : h \in Lookup(OnDisk, raw) }
                        = SessionAccess(want, raw)

(***************************************************************************)
(* find_by_id of a reader and of the writer of a clean archive agree on     *)
(* every ID: on the entry and its data, and on the one of its paths that    *)
(* they report, though the writer had the rows in another order.            *)
(***************************************************************************)
IdsAgree ==
    Clean =>
        \A id \in 1..MaxId : FindById(OnDisk, id) = SessionFindById(id)

(***************************************************************************)
(* bale check finds no fault with any archive that can be opened, whatever  *)
(* was interrupted while it was written: no CRC and no path is wrong and    *)
(* the directory is sorted.  It names the paths that are there twice, as    *)
(* the writer of a clean archive does.                                      *)
(***************************************************************************)
CheckPasses ==
    /\ Readable =>
        /\ Check(OnDisk).issues \subseteq {"OrphanedData"}
        /\ LET dirs == DirectoryTable(OnDisk)
           IN  Check(OnDisk).duplicates =
                { dirs[i].path : i \in { i \in DOMAIN dirs :
                    \E j \in DOMAIN dirs \ {i} : dirs[j].path = dirs[i].path } }
    /\ Clean => Check(OnDisk).duplicates = SessionDuplicates

(***************************************************************************)
(* has_orphaned_data of a session says exactly whether a block could be     *)
(* where no live block is, and a reader's, which takes every boundary for   *)
(* the start of a block, never misses one that the session's reports.       *)
(***************************************************************************)
OrphansSeen ==
    session = "open" =>
        /\ SessionHasOrphans =
            (\E o \in Boundaries(writeOffset) :
                \A r \in entryRows : ~(r.off <= o /\ o < r.off + r.size))
        /\ Clean => (SessionHasOrphans => HasOrphanedData(OnDisk))

(***************************************************************************)
(* A clean session verifies its own metadata, unless an add that failed has *)
(* spent an ID since: the trailer in memory is then not the one on disk,    *)
(* and verify_metadata_crc reports a mismatch that is not there.            *)
(***************************************************************************)
CleanVerifies ==
    Clean =>
        SessionMetadata = IF trailer = mmap.cells[mmap.cap - 1].trailer
                          THEN "ok" ELSE "mismatch"

-----------------------------------------------------------------------------
(* Why these hold: what every trailer and every clean session keeps *)

\* The logical length and what was committed lie within the file.
LengthsFit == mmap.len <= mmap.cap /\ mmap.committed <= mmap.cap

\* An entry without data is at no offset.
Unplaced(rows) == \A r \in rows : r.size = 0 => r.off = 0

FileInv == IInv /\ LengthsFit /\ Unplaced(entryRows)

\* The order that a reader's searches rely on, and the counts they read.
TableOrdered(c) ==
    /\ Unplaced(Elements(c.entries))
    /\ c.trailer.entryCount = Len(c.entries)
    /\ c.trailer.dirCount = Len(c.dirs)
    /\ \A i, j \in 1..Len(c.entries) : i < j => c.entries[i].id < c.entries[j].id
    /\ \A i, j \in 1..Len(c.dirs) : i < j =>
            \/ PathLess(c.dirs[i].path, c.dirs[j].path)
            \/ c.dirs[i].path = c.dirs[j].path

\* What the session has is what was committed; a block that could not be
\* written has moved the end of the content, and touched nothing before it.
SessionStored ==
    LET c == mmap.cells[mmap.committed - 1]
    IN  /\ mmap.committed >= MinArchiveSize
        /\ c.t = "trailer"
        /\ TablesMatch(mmap.cells, c)
        /\ entryRows = Elements(c.entries)
        /\ dirEntries = LoadedDirs(c.dirs)
        /\ trailer = [c.trailer EXCEPT !.nextId = trailer.nextId]
        /\ mmap.len = mmap.committed => mmap.cap = mmap.committed
        /\ mmap.len # mmap.committed =>
                writeOffset = mmap.len /\ Aligned(writeOffset) = writeOffset

AllOrdered ==
    \A p \in Index : mmap.cells[p].t = "trailer" => TableOrdered(mmap.cells[p])

AllCommitted ==
    session = "open" =>
        \A p \in Index : mmap.cells[p].t = "trailer" => p < mmap.committed

HasHeader == (mmap.cap > 0 \/ session # "none") => mmap.cells[0] = Header

CleanStored == (session = "open" /\ ~dirty) => SessionStored

(***************************************************************************)
(* Every trailer in the file, that of an interrupted or overwritten sync    *)
(* too, ends tables that are in order; those of an open session were all    *)
(* committed; and while there is nothing to sync, what was committed is     *)
(* whole and is what the session has, however many blocks have failed.      *)
(***************************************************************************)
ReadInv == FileInv /\ AllOrdered /\ AllCommitted /\ HasHeader /\ CleanStored

\* The rows that trailer c was written for are still there from a cell on.
RowsLeft(cells, c, from) ==
    /\ \A i \in 1..Len(c.entries) :
            c.trailer.entryOff + i - 1 >= from =>
                cells[c.trailer.entryOff + i - 1] = EntryCell(c.entries[i])
    /\ \A i \in 1..Len(c.dirs) :
            c.trailer.dirOff + i - 1 >= from =>
                cells[c.trailer.dirOff + i - 1] = DirCell(c.dirs[i])

(***************************************************************************)
(* As long as the committed trailer is there, a session has destroyed no    *)
(* row of its tables but those below the write offset, whatever blocks and  *)
(* syncs have failed.  So a sync that dies, which writes at the write       *)
(* offset and above, cannot put rows together to tables that readers accept *)
(* and that the session could not have fallen back to.                      *)
(***************************************************************************)
TailKept ==
    LET c == mmap.cells[mmap.committed - 1]
    IN  (session = "open" /\ mmap.committed > 0 /\ c.t = "trailer") =>
            RowsLeft(mmap.cells, c, writeOffset)

=============================================================================
