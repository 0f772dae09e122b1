---------------------------- MODULE ArchiveWriter ----------------------------
(***************************************************************************)
(* Archive<MappedArchiveMut>, the writer of an archive file: the sessions   *)
(* that create or open the file one after another, the tables each keeps in *)
(* memory, and the file itself as every operation leaves it.                *)
(*                                                                          *)
(* A new data block goes at the write offset, which after an open or a sync *)
(* is where the tables on disk begin: the first block of a session destroys *)
(* them, and only the next sync writes tables again.                        *)
(***************************************************************************)
EXTENDS ArchiveImage

CONSTANTS
    RawPaths,   \* the paths callers pass
    Data,       \* the contents callers pass, sequences of Bytes
    MaxDirRows  \* bound: the most rows hard_link lets the directory have

ASSUME WriterAssumption ==
    /\ RawPaths \subseteq RawPath
    /\ Data \subseteq Seq(Bytes)
    /\ MaxDirRows \in Nat

VARIABLES
    mmap,         \* the mapped file; without a session, just the file
    session,      \* "none", "open", or "damaged": open over tables nobody wrote
    trailer,      \* the trailer in memory
    writeOffset,  \* where the next data block goes
    dirty,        \* there is something to sync
    entryRows,    \* entry_rows, a set: their order is never looked at
    dirEntries    \* dir_entries; at is the index in the vector, from 1

vars == <<mmap, session, trailer, writeOffset, dirty, entryRows, dirEntries>>
memVars == <<session, trailer, writeOffset, dirty, entryRows, dirEntries>>

\* A row of dir_entries and its index.
DirEntry == [path : Path, id : 1..MaxId, at : Nat]

TypeOK ==
    /\ mmap \in Mapped
    /\ session \in {"none", "open", "damaged"}
    /\ trailer \in Trailer
    /\ writeOffset \in 0..DiskSize
    /\ dirty \in BOOLEAN
    /\ entryRows \subseteq EntryRow
    /\ dirEntries \subseteq DirEntry
    /\ IsFiniteSet(entryRows)
    /\ IsFiniteSet(dirEntries)

Init ==
    /\ mmap = NoFile
    /\ session = "none"
    /\ trailer = NewTrailer
    /\ writeOffset = 0
    /\ dirty = FALSE
    /\ entryRows = {}
    /\ dirEntries = {}

-----------------------------------------------------------------------------
(* Looking things up *)

\* ArchivePath::normalize, of the paths that are passed.
Canonical == [raw \in RawPaths |-> Normalize(raw)]

\* position(|(p, _)| *p == path): the first row with the path.
IsFirst(d, path) ==
    /\ d \in dirEntries
    /\ d.path = path
    /\ \A e \in dirEntries : e.path = path => d.at <= e.at

\* find_entry_with_path: the key is cut to path_size, and a row without an
\* entry row counts as none.
Finds(raw, d, r) ==
    /\ IsFirst(d, Padded(raw))
    /\ r \in entryRows
    /\ r.id = d.id

Found(raw) == \E d \in dirEntries, r \in entryRows : Finds(raw, d, r)

-----------------------------------------------------------------------------
(* Changing the tables in memory *)

\* Vec::push
Pushed(path, id) ==
    dirEntries \cup {[path |-> path, id |-> id, at |-> Cardinality(dirEntries) + 1]}

\* Vec::remove and Vec::retain: the rows that stay move up.
Retained(kept) ==
    { [path |-> d.path, id |-> d.id, at |-> Cardinality({e \in kept : e.at <= d.at})] :
        d \in kept }

\* Mutant: the entry of the row d stays, whether a row still names it or not.
EntriesKept(d, kept) == entryRows

\* unlink: the entry of the row d goes with the last row that names it.
EntriesLeft(d, kept) ==
    { r \in entryRows : r.id = d.id => \E e \in kept : e.id = d.id }

RowsOf(path) == { d \in dirEntries : d.path = path }

-----------------------------------------------------------------------------
(* Opening and closing *)

\* create_with_options: the header is written, the trailer not before a sync.
Create ==
    /\ session = "none"
    /\ mmap.cap = 0
    /\ mmap' = Extend(MapNew, <<Header>>)
    /\ session' = "open"
    /\ writeOffset' = 1
    /\ dirty' = TRUE
    /\ UNCHANGED <<trailer, entryRows, dirEntries>>

\* What a trailer cell locates, as it is parsed into memory.
LoadedDirs(dirs) ==
    { [path |-> dirs[i].path, id |-> dirs[i].id, at |-> i] : i \in DOMAIN dirs }

\* open, when the tables are the ones the last sync wrote.
OpenIntact ==
    LET c == mmap.cells[mmap.cap - 1]
    IN  /\ session = "none"
        /\ HasTrailer(mmap.cells, mmap.cap)
        /\ TablesMatch(mmap.cells, c)
        /\ mmap' = MapOpen(mmap)
        /\ session' = "open"
        /\ trailer' = c.trailer
        /\ writeOffset' = c.trailer.entryOff
        /\ dirty' = FALSE
        /\ entryRows' = Elements(c.entries)
        /\ dirEntries' = LoadedDirs(c.dirs)

(***************************************************************************)
(* open, when the trailer is valid and the tables are not: the writer does  *)
(* not verify the metadata CRC, and parses whatever bytes are there.  What  *)
(* such a session does is not followed further; it ends without a change.   *)
(***************************************************************************)
OpenDamaged ==
    /\ session = "none"
    /\ HasTrailer(mmap.cells, mmap.cap)
    /\ ~TablesMatch(mmap.cells, mmap.cells[mmap.cap - 1])
    /\ mmap' = MapOpen(mmap)
    /\ session' = "damaged"
    /\ UNCHANGED <<trailer, writeOffset, dirty, entryRows, dirEntries>>

\* open returns an error: no valid trailer ends the file.
OpenRejected ==
    /\ session = "none"
    /\ mmap.cap > 0
    /\ ~HasTrailer(mmap.cells, mmap.cap)
    /\ UNCHANGED vars

NoSession ==
    /\ session' = "none"
    /\ trailer' = NewTrailer
    /\ writeOffset' = 0
    /\ dirty' = FALSE
    /\ entryRows' = {}
    /\ dirEntries' = {}

\* The writer goes out of scope, synced or not: an early return after an
\* error, the end of a command, an unmount.
Drop ==
    /\ session # "none"
    /\ mmap' = Unmap(mmap)
    /\ NoSession

\* The process is killed between two operations.
Crash ==
    /\ session # "none"
    /\ mmap' = Abandon(mmap)
    /\ NoSession

-----------------------------------------------------------------------------
(* write_data_block *)

DataCells(data) == [k \in 1..Len(data) |-> DataCell(data[k])]

\* Mutant: the write offset stays at the start of the block.
BlockEndMissed(off, data) == off

BlockEnd(off, data) == off + Len(data)

(***************************************************************************)
(* The block is at off.  Empty data has no block and the offset 0.  The     *)
(* logical length goes back to the end of the data blocks, which is below   *)
(* the tables of the last sync; only where it grows is the gap zeroed.      *)
(***************************************************************************)
StoresBlock(data, off) ==
    IF data = <<>>
    THEN off = 0 /\ UNCHANGED <<mmap, writeOffset>>
    ELSE /\ off = Aligned(writeOffset)
         /\ off <= DiskSize /\ Fits(mmap, off)
         /\ off + Len(data) <= DiskSize
         /\ Fits(SetLen(mmap, off), off + Len(data))
         /\ mmap' = Extend(SetLen(mmap, off), DataCells(data))
         /\ writeOffset' = BlockEnd(off, data)

(***************************************************************************)
(* A resize fails: the first, which makes room for the padding and leaves   *)
(* everything as it was, or the second, after the write offset has moved.   *)
(***************************************************************************)
BlockFails(data) ==
    LET off == Aligned(writeOffset)
    IN  /\ data # <<>>
        /\ \/ /\ ResizeNeeded(mmap, off)
              /\ UNCHANGED <<mmap, writeOffset>>
           \/ /\ off <= DiskSize /\ Fits(mmap, off)
              /\ ResizeNeeded(SetLen(mmap, off), off + Len(data))
              /\ mmap' = SetLen(mmap, off)
              /\ writeOffset' = off

BlockOffsets == {0, Aligned(writeOffset)}

-----------------------------------------------------------------------------
(* The operations on an open archive *)

\* Mutant: the next ID is the one that was just given out.
SpentTwice == trailer

\* set_next_id: the next ID is given out.
Spent == [trailer EXCEPT !.nextId = @ + 1]

NewRow(id, kind, off, data) ==
    [id |-> id, kind |-> kind, off |-> off, size |-> Len(data), crc |-> data]

(***************************************************************************)
(* add_entry_with_mtime, with add_folder and add_symlink, which call it.    *)
(* That the path may be taken already is not looked at.                     *)
(***************************************************************************)
AddEntry(raw, kind, data) ==
    LET path == Canonical[raw]
        id == trailer.nextId
    IN  /\ session = "open"
        /\ kind = "dir" => data = <<>>
        /\ Storable(path)
        /\ id # MaxId
        /\ \E off \in BlockOffsets :
              /\ StoresBlock(data, off)
              /\ entryRows' = entryRows \cup {NewRow(id, kind, off, data)}
        /\ trailer' = Spent
        /\ dirEntries' = Pushed(path, id)
        /\ dirty' = TRUE
        /\ UNCHANGED session

\* The data block cannot be written: the ID is spent, nothing else is done.
AddEntryFails(raw, data) ==
    /\ session = "open"
    /\ Storable(Canonical[raw])
    /\ trailer.nextId # MaxId
    /\ BlockFails(data)
    /\ trailer' = Spent
    /\ UNCHANGED <<session, dirty, entryRows, dirEntries>>

\* Mutant: delete does not mark the archive dirty.
DeleteUnmarked(raw) ==
    LET gone == RowsOf(Padded(raw))
    IN  /\ session = "open"
        /\ gone # {}
        /\ dirEntries' = Retained(dirEntries \ gone)
        /\ entryRows' = { r \in entryRows : \A d \in gone : d.id # r.id }
        /\ UNCHANGED <<mmap, session, trailer, writeOffset, dirty>>

(***************************************************************************)
(* delete: every row with the path, and the entries of those rows.          *)
(***************************************************************************)
Delete(raw) ==
    LET gone == RowsOf(Padded(raw))
    IN  /\ session = "open"
        /\ gone # {}
        /\ dirEntries' = Retained(dirEntries \ gone)
        /\ entryRows' = { r \in entryRows : \A d \in gone : d.id # r.id }
        /\ dirty' = TRUE
        /\ UNCHANGED <<mmap, session, trailer, writeOffset>>

\* hard_link: a second row for the entry, unless the link's path is found.
HardLink(target, link) ==
    LET path == Canonical[link]
    IN  /\ session = "open"
        /\ Cardinality(dirEntries) < MaxDirRows
        /\ Storable(path)
        /\ ~Found(path)
        /\ \E d \in dirEntries, r \in entryRows :
              /\ Finds(target, d, r)
              /\ r.kind # "dir"
              /\ dirEntries' = Pushed(path, r.id)
        /\ dirty' = TRUE
        /\ UNCHANGED <<mmap, session, trailer, writeOffset, entryRows>>

\* unlink: the first row with the path, and its entry with the last row.
Unlink(raw) ==
    \E d \in dirEntries :
        LET kept == dirEntries \ {d}
        IN  /\ session = "open"
            /\ IsFirst(d, Padded(raw))
            /\ dirEntries' = Retained(kept)
            /\ entryRows' = EntriesLeft(d, kept)
            /\ dirty' = TRUE
            /\ UNCHANGED <<mmap, session, trailer, writeOffset>>

\* The rows of the paths below the one that row d names, if d is a directory.
Descendants(d) ==
    IF \E r \in entryRows : r.id = d.id /\ r.kind = "dir"
    THEN { e \in dirEntries : Below(d.path, e.path) }
    ELSE {}

(***************************************************************************)
(* rename: the first row with the path and, under a directory, the prefix   *)
(* of every path below it.  Only the directory's own new path is checked.   *)
(***************************************************************************)
Rename(rawFrom, rawTo) ==
    LET from == Canonical[rawFrom]
        to == Canonical[rawTo]
    IN  /\ session = "open"
        /\ Storable(from)
        /\ Storable(to)
        /\ RowsOf(to) = {}
        /\ \E d \in dirEntries :
              /\ IsFirst(d, from)
              /\ \A e \in Descendants(d) : Storable(Rebased(e.path, from, to))
              /\ dirEntries' =
                    { IF e = d THEN [e EXCEPT !.path = to]
                      ELSE IF e \in Descendants(d)
                           THEN [e EXCEPT !.path = Rebased(e.path, from, to)]
                      ELSE e : e \in dirEntries }
        /\ dirty' = TRUE
        /\ UNCHANGED <<mmap, session, trailer, writeOffset, entryRows>>

\* replace_content: a new block; the old one is left where it is.
ReplaceContent(raw, data) ==
    \E d \in dirEntries, r \in entryRows, off \in BlockOffsets :
        /\ session = "open"
        /\ Finds(raw, d, r)
        /\ r.kind = "file"
        /\ StoresBlock(data, off)
        /\ entryRows' = (entryRows \ {r}) \cup {NewRow(r.id, "file", off, data)}
        /\ dirty' = TRUE
        /\ UNCHANGED <<session, trailer, dirEntries>>

ReplaceContentFails(raw, data) ==
    \E d \in dirEntries, r \in entryRows :
        /\ session = "open"
        /\ Finds(raw, d, r)
        /\ r.kind = "file"
        /\ BlockFails(data)
        /\ UNCHANGED <<session, trailer, dirty, entryRows, dirEntries>>

-----------------------------------------------------------------------------
(* sync *)

\* The tables as they are written: each row once, in the order of the sort.
EntryTables ==
    { t \in [1..Cardinality(entryRows) -> entryRows] :
        /\ Elements(t) = entryRows
        /\ \A i, j \in DOMAIN t : i < j => t[i].id <= t[j].id }

\* Mutant: the directory is written in the order of the vector.
DirTablesUnsorted ==
    { t \in [1..Cardinality(dirEntries) -> dirEntries] :
        /\ Elements(t) = dirEntries
        /\ \A i, j \in DOMAIN t : i < j => t[i].at < t[j].at }

DirTables ==
    { t \in [1..Cardinality(dirEntries) -> dirEntries] :
        /\ Elements(t) = dirEntries
        /\ \A i, j \in DOMAIN t : i < j =>
                \/ PathLess(t[i].path, t[j].path)
                \/ t[i].path = t[j].path /\ t[i].at < t[j].at }

DirRowsOf(dt) == [i \in 1..Len(dt) |-> [path |-> dt[i].path, id |-> dt[i].id]]

\* Mutant: the next ID is counted anew, as compaction does.
SyncedTrailerRenumbered(et, dt) ==
    [nextId |-> Len(et) + 1,
     entryOff |-> writeOffset, entryCount |-> Len(et),
     dirOff |-> writeOffset + Len(et), dirCount |-> Len(dt),
     size |-> writeOffset + Len(et) + Len(dt) + 1]

SyncedTrailer(et, dt) ==
    [nextId |-> trailer.nextId,
     entryOff |-> writeOffset, entryCount |-> Len(et),
     dirOff |-> writeOffset + Len(et), dirCount |-> Len(dt),
     size |-> writeOffset + Len(et) + Len(dt) + 1]

\* The first n cells of the tables and the trailer, as sync writes them.
TableCells(et, dt, n) ==
    [i \in 1..n |->
        IF i <= Len(et) THEN EntryCell(et[i])
        ELSE IF i <= Len(et) + Len(dt) THEN DirCell(DirRowsOf(dt)[i - Len(et)])
        ELSE TrailerCell(SyncedTrailer(et, dt), et, DirRowsOf(dt))]

\* Mutant: the tables are appended to what the session has mapped.
SyncBaseMapped == mmap

\* set_len(write_offset): the tables follow the data blocks.
SyncBase == SetLen(mmap, writeOffset)

\* Mutant: the rows are sorted on disk and not in memory.
SortedOnDisk(dt) == dirEntries

\* The vector is sorted in place.
Sorted(dt) == LoadedDirs(DirRowsOf(dt))

Sync ==
    \E et \in EntryTables, dt \in DirTables :
        LET T == TableCells(et, dt, Len(et) + Len(dt) + 1)
            written == ExtendEach(SyncBase, T)
        IN  /\ session = "open"
            /\ dirty
            /\ writeOffset + Len(T) <= DiskSize
            /\ written.cap <= DiskSize
            /\ mmap' = Commit(written)
            /\ trailer' = SyncedTrailer(et, dt)
            /\ dirty' = FALSE
            /\ dirEntries' = Sorted(dt)
            /\ UNCHANGED <<session, writeOffset, entryRows>>

(***************************************************************************)
(* The first n cells of the tables have been written when a resize is       *)
(* refused: sync returns an error and the archive stays dirty.  The         *)
(* trailer in memory is updated only between the tables and the last cell.  *)
(***************************************************************************)
SyncFails ==
    \E et \in EntryTables, dt \in DirTables :
    \E n \in 0..(Len(et) + Len(dt)) :
        /\ session = "open"
        /\ dirty
        /\ writeOffset + n <= DiskSize
        /\ FullAt(SyncBase, writeOffset + n)
        /\ mmap' = WithCap(Extend(SyncBase, TableCells(et, dt, n)),
                           writeOffset + n)
        /\ trailer' = IF n = Len(et) + Len(dt) THEN SyncedTrailer(et, dt)
                      ELSE trailer
        /\ dirEntries' = Sorted(dt)
        /\ UNCHANGED <<session, writeOffset, dirty, entryRows>>

\* The process is killed after sync has written n cells of the tables.
SyncCrash ==
    \E et \in EntryTables, dt \in DirTables :
    \E n \in 1..(Len(et) + Len(dt) + 1) :
        LET written == ExtendEach(SyncBase, TableCells(et, dt, n))
        IN  /\ session = "open"
            /\ dirty
            /\ writeOffset + n <= DiskSize
            /\ written.cap <= DiskSize
            /\ mmap' = Abandon(written)
            /\ NoSession

-----------------------------------------------------------------------------
Operation ==
    \/ \E raw \in RawPaths :
        \/ \E kind \in Kind, data \in Data : AddEntry(raw, kind, data)
        \/ \E data \in Data :
            \/ AddEntryFails(raw, data)
            \/ ReplaceContent(raw, data)
            \/ ReplaceContentFails(raw, data)
        \/ Delete(raw)
        \/ Unlink(raw)
    \/ \E raw, to \in RawPaths : HardLink(raw, to) \/ Rename(raw, to)

Next ==
    \/ Create \/ OpenIntact \/ OpenDamaged \/ OpenRejected
    \/ Operation
    \/ Sync \/ SyncFails \/ SyncCrash
    \/ Drop \/ Crash

Spec == Init /\ [][Next]_vars

-----------------------------------------------------------------------------
(* What should be true of every archive *)

UniqueIds(rows, names, nextId) ==
    /\ \A r, s \in rows : r.id = s.id => r = s
    /\ \A r \in rows : r.id < nextId
    /\ \A d \in names : d.id < nextId

HasBlock(r) == r.size # 0

SeparateBlocks(rows, limit) ==
    \A r \in rows : HasBlock(r) =>
        /\ r.off >= 1
        /\ r.off % Alignment = 0
        /\ r.off + r.size <= limit
        /\ \A s \in rows \ {r} : HasBlock(s) =>
                r.off + r.size <= s.off \/ s.off + s.size <= r.off

Referenced(rows, names) == \A r \in rows : \E d \in names : d.id = r.id

(***************************************************************************)
(* An ID names one entry, and no ID still to be given out is in use, not    *)
(* even by a directory row whose entry is gone: such a row would come to    *)
(* name the wrong entry.                                                    *)
(***************************************************************************)
IdsUnique ==
    session = "open" => UniqueIds(entryRows, dirEntries, trailer.nextId)

(***************************************************************************)
(* Data blocks are aligned, lie between the header and the write offset,    *)
(* and no two live entries share a cell.                                    *)
(***************************************************************************)
BlocksSeparate ==
    session = "open" => SeparateBlocks(entryRows, writeOffset)

(***************************************************************************)
(* verify_crc holds of every live entry at any time in a session, whatever  *)
(* was written, renamed, synced, reopened or had failed before.             *)
(***************************************************************************)
ContentIntact ==
    session = "open" => \A r \in entryRows : VerifyCrc(mmap.cells, r)

(***************************************************************************)
(* No entry is out of reach: every entry row is named by a directory row.   *)
(* unlink removes the entry with its last name, and no sooner.              *)
(***************************************************************************)
RowsReferenced ==
    session = "open" => Referenced(entryRows, dirEntries)

(***************************************************************************)
(* With nothing to sync and nothing written since the last sync or open, a  *)
(* reader would accept the file and see what the session sees.              *)
(***************************************************************************)
CleanMeansReadable ==
    (session = "open" /\ ~dirty /\ mmap.len = mmap.committed) =>
        LET c == mmap.cells[mmap.cap - 1]
        IN  /\ ReaderAccepts(mmap.cells, mmap.cap)
            /\ View(mmap.cells, Elements(c.entries), Elements(c.dirs))
                    = View(mmap.cells, entryRows, dirEntries)

(***************************************************************************)
(* Within a session an ID is never given out twice, though its entry may    *)
(* have been deleted and the tables synced in between.                      *)
(***************************************************************************)
IdsNeverReused ==
    [][(session = "open" /\ session' = "open") =>
            /\ trailer'.nextId >= trailer.nextId
            /\ \A r \in entryRows' :
                    (\A s \in entryRows : s.id # r.id) => r.id >= trailer.nextId]_vars

(***************************************************************************)
(* A drop cuts the file's end off.  A file that a reader would have         *)
(* accepted before the drop is accepted after it, with the same contents:   *)
(* the logical length may then lie below the tables.                        *)
(***************************************************************************)
DropKeepsReadable ==
    [][(Drop /\ ReaderAccepts(mmap.cells, mmap.cap)) =>
            /\ mmap'.cap = mmap.cap
            /\ mmap'.cells = mmap.cells]_vars

-----------------------------------------------------------------------------
(* Why these hold: the invariant that every step keeps *)

RowsSound(cells, rows, names, nextId, limit) ==
    /\ UniqueIds(rows, names, nextId)
    /\ SeparateBlocks(rows, limit)
    /\ \A r \in rows : VerifyCrc(cells, r)
    /\ Referenced(rows, names)

\* A trailer cell at p ends its tables, and the blocks its rows locate lie
\* below them, untouched, whether or not the tables are still there.
TrailerSound(cells, p) ==
    LET c == cells[p]
    IN  c.t = "trailer" =>
            /\ 1 <= c.trailer.entryOff
            /\ c.trailer.dirOff = c.trailer.entryOff + Len(c.entries)
            /\ p = c.trailer.dirOff + Len(c.dirs)
            /\ RowsSound(cells, Elements(c.entries), Elements(c.dirs),
                         c.trailer.nextId, c.trailer.entryOff)

FileSound ==
    /\ \A i \in Index : i >= mmap.cap => mmap.cells[i] = Zero
    /\ \A p \in Index : TrailerSound(mmap.cells, p)

\* The tables of a trailer cell begin no later than the limit.
TrailersBelow(cells, limit) ==
    \A p \in Index :
        cells[p].t = "trailer" => cells[p].trailer.entryOff <= limit

SessionSound ==
    /\ session = "open" =>
        /\ 1 <= writeOffset /\ writeOffset <= mmap.len
        /\ RowsSound(mmap.cells, entryRows, dirEntries, trailer.nextId, writeOffset)
        /\ TrailersBelow(mmap.cells, writeOffset)
    /\ session = "damaged" => mmap.len = mmap.cap
    /\ session = "none" => entryRows = {} /\ dirEntries = {}

(***************************************************************************)
(* What was written stays: each trailer a file still holds, that of an      *)
(* interrupted or overwritten sync too, locates blocks that are intact, and *)
(* the session writes only at or above the end of all of them.              *)
(***************************************************************************)
IInv == TypeOK /\ FileSound /\ SessionSound

-----------------------------------------------------------------------------
(* What readers and the session see of the archive *)

\* What a reader finds in a file that ends at cell e - 1.
FoundIn(cells, e) ==
    IF ~ReaderAccepts(cells, e) THEN [unreadable |-> TRUE]
    ELSE LET c == cells[e - 1]
         IN  View(cells, Elements(c.entries), Elements(c.dirs))

\* What a reader that opens the file now finds.
Disk == IF mmap.cap = 0 THEN [absent |-> TRUE] ELSE FoundIn(mmap.cells, mmap.cap)

\* What the session leaves if it is dropped with nothing beyond the last sync.
Kept == IF session = "open" THEN FoundIn(mmap.cells, mmap.committed) ELSE Disk

\* What the open session has.
InMemory ==
    IF session = "open" THEN View(mmap.cells, entryRows, dirEntries)
    ELSE [closed |-> TRUE]

Store == INSTANCE ArchiveStore WITH
    Empty <- [nodes |-> {}, names |-> {}],
    Absent <- [absent |-> TRUE],
    Unreadable <- [unreadable |-> TRUE],
    Closed <- [closed |-> TRUE],
    durable <- Disk,
    kept <- Kept,
    pending <- InMemory

(***************************************************************************)
(* The writer implements ArchiveStore: a sync replaces the archive that     *)
(* readers find by the session's in one step, and whatever else happens,    *)
(* a kill in the middle of a sync included, readers find the archive of the *)
(* last sync or refuse the file.                                            *)
(***************************************************************************)
StoreRefined == Store!StoreSpec

-----------------------------------------------------------------------------
(* What the documents say of the code, and the code does not do *)

(***************************************************************************)
(* The documentation of MappedArchiveMut: a drop preserves synced content   *)
(* even if the logical length was later reduced for overwriting.            *)
(***************************************************************************)
DropPreservesSynced ==
    [][(Drop /\ session = "open" /\ mmap.committed > 0) =>
            ReaderAccepts(mmap'.cells, mmap'.cap)]_vars

=============================================================================
