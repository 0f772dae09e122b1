------------------------ MODULE ArchiveReadingSafety ------------------------
(***************************************************************************)
(* What follows from ReadInv for those who read an archive: a search finds  *)
(* what is there, bale check finds no fault, a reader of a clean archive is *)
(* told what its writer is, and a block that no entry has is found.         *)
(***************************************************************************)
EXTENDS ArchiveReadingProofs

InPathOrder(dirs) ==
    \A i, j \in 1..Len(dirs) : i < j =>
        PathLess(dirs[i].path, dirs[j].path) \/ dirs[i].path = dirs[j].path

InIdOrder(rows) == \A i, j \in 1..Len(rows) : i < j => rows[i].id < rows[j].id

-----------------------------------------------------------------------------
(* Searching tables that are in order *)

\* A search key, cut or not, is a sequence that the path order compares.
LEMMA PaddedKey ==
  ASSUME NEW raw \in RawPath
  PROVE  /\ Padded(raw) \in Seq(Int)
         /\ Len(raw) \in Nat
         /\ Len(raw) <= PathSize => Padded(raw) = raw
<1>1. raw \in Seq(Names \cup {Skip, Up, Unsafe}) /\ Len(raw) \in Nat /\ PathSize \in Nat
  BY PathAssumption DEF RawPath
<1>2. ASSUME NEW i \in 1..Len(raw) PROVE raw[i] \in Int
  <2>1. raw[i] \in Names \cup {Skip, Up, Unsafe}
    BY <1>1
  <2>2. CASE raw[i] \in Names
    <3>1. raw[i] \in Nat
      BY <2>2, PathAssumption
    <3> QED BY <3>1
  <2>3. CASE raw[i] \notin Names
    BY <2>1, <2>3 DEF Skip, Up, Unsafe
  <2> QED BY <2>2, <2>3
<1>3. raw = [i \in 1..Len(raw) |-> raw[i]]
  BY <1>1
<1>4. raw \in [1..Len(raw) -> Int]
  BY <1>2, <1>3
<1>5. raw \in Seq(Int)
  BY <1>1, <1>4
<1> DEFINE n == IF Len(raw) <= PathSize THEN Len(raw) ELSE PathSize
<1>6. n \in 0..Len(raw)
  BY <1>1
<1>7. Padded(raw) = SubSeq(raw, 1, n)
  BY DEF Padded
<1> HIDE DEF n
<1>8. Padded(raw) \in Seq(Int)
  BY <1>5, <1>6, <1>7, SubSeqProperties
<1>9. Len(raw) <= PathSize => Padded(raw) = raw
  <2> SUFFICES ASSUME Len(raw) <= PathSize PROVE SubSeq(raw, 1, Len(raw)) = raw
    BY DEF Padded
  <2> QED BY <1>5, SubSeqFull
<1> QED BY <1>1, <1>8, <1>9

\* find_directory_row_by_path answers the rows that a scan would find.
LEMMA PathSearch ==
  ASSUME NEW rd, NEW dirs \in Seq(DirRow), DirectoryTable(rd) = dirs,
         InPathOrder(dirs), NEW raw \in RawPath
  PROVE  LET scan == { i \in DOMAIN dirs : dirs[i].path = raw }
         IN  RowsFound(rd, raw) = IF scan = {} THEN {0} ELSE scan
<1> DEFINE key == Padded(raw)
           n == Len(dirs)
           below == { i \in 1..n : SortsBefore(dirs[i].path, raw) }
           equal == { i \in 1..n : Matches(dirs[i].path, raw) }
           scan == { i \in 1..n : dirs[i].path = raw }
<1>1. /\ key \in Seq(Int) /\ Len(raw) \in Nat /\ PathSize \in Nat
      /\ Len(raw) <= PathSize => key = raw
  BY PaddedKey, PathAssumption
<1>2. n \in Nat /\ DOMAIN dirs = 1..n
  OBVIOUS
<1>3. ASSUME NEW i \in 1..n
      PROVE  /\ dirs[i].path \in Path /\ dirs[i].path \in Seq(Int)
             /\ Len(dirs[i].path) \in 1..PathSize
  <2>1. dirs[i] \in DirRow
    OBVIOUS
  <2>2. dirs[i].path \in Path
    BY <2>1 DEF DirRow
  <2> QED BY <2>2, PathComponents
<1> HIDE DEF key, n
<1>4. equal = scan
  <2> SUFFICES ASSUME NEW i \in 1..n
               PROVE  Matches(dirs[i].path, raw) <=> dirs[i].path = raw
    OBVIOUS
  <2>1. dirs[i].path = raw => Len(raw) <= PathSize
    BY <1>1, <1>3
  <2> QED BY <1>1, <2>1 DEF Matches, key
<1>5. ASSUME NEW j \in 1..n, NEW i \in 1..(j - 1), j \in below
      PROVE  i \in below
  <2>1. i \in 1..n /\ i < j
    BY <1>2
  <2>2. PathLess(dirs[i].path, dirs[j].path) \/ dirs[i].path = dirs[j].path
    BY <2>1 DEF InPathOrder, n
  <2>3. PathLess(dirs[j].path, key) \/ (dirs[j].path = key /\ Len(raw) > PathSize)
    BY <1>5 DEF SortsBefore, key
  <2>4. PathLess(dirs[i].path, dirs[j].path) /\ PathLess(dirs[j].path, key)
            => PathLess(dirs[i].path, key)
    BY <1>1, <1>3, <2>1, PathLessTransitive
  <2> QED BY <2>1, <2>2, <2>3, <2>4 DEF SortsBefore, key
<1>6. ASSUME NEW j \in 1..n, NEW i \in 1..(j - 1), j \in equal
      PROVE  i \in below \cup equal
  <2>1. i \in 1..n /\ i < j
    BY <1>2
  <2>2. PathLess(dirs[i].path, dirs[j].path) \/ dirs[i].path = dirs[j].path
    BY <2>1 DEF InPathOrder, n
  <2>3. dirs[j].path = key /\ Len(raw) <= PathSize
    BY <1>6 DEF Matches, key
  <2> QED BY <2>1, <2>2, <2>3 DEF SortsBefore, Matches, key
<1>7. InOrder(n, below, equal)
  BY <1>5, <1>6 DEF InOrder
<1>8. RowsFound(rd, raw) = Bisection(n, below, equal)
  BY <1>2 DEF RowsFound, n
<1> HIDE DEF below, equal, scan
<1>9. RowsFound(rd, raw) = IF scan = {} THEN {0} ELSE scan
  BY <1>4, <1>7, <1>8 DEF Bisection
<1> QED BY <1>2, <1>9 DEF scan

\* find_entry_row_by_id answers the one row that has the ID.
LEMMA IdSearch ==
  ASSUME NEW rd, NEW rows \in Seq(EntryRow), EntryTable(rd) = rows,
         InIdOrder(rows), NEW id \in Nat
  PROVE  LET scan == { i \in DOMAIN rows : rows[i].id = id }
         IN  /\ EntriesFound(rd, id) = IF scan = {} THEN {0} ELSE scan
             /\ \A i, j \in scan : i = j
<1> DEFINE n == Len(rows)
           below == { i \in 1..n : rows[i].id < id }
           scan == { i \in 1..n : rows[i].id = id }
<1>1. n \in Nat /\ DOMAIN rows = 1..n
  OBVIOUS
<1>2. ASSUME NEW i \in 1..n PROVE rows[i].id \in Nat
  <2>1. rows[i] \in EntryRow
    OBVIOUS
  <2> QED BY <2>1, FormatAssumption DEF EntryRow
<1>3. \A i, j \in 1..n : i < j => rows[i].id < rows[j].id
  BY DEF InIdOrder
<1> HIDE DEF n
<1>4. \A j \in 1..n : \A i \in 1..(j - 1) : i \in 1..n /\ i < j
  BY <1>1
<1>5. InOrder(n, below, scan)
  BY <1>2, <1>3, <1>4 DEF InOrder
<1>6. EntriesFound(rd, id) = Bisection(n, below, scan)
  BY <1>1 DEF EntriesFound, n
<1>7. ASSUME NEW i \in scan, NEW j \in scan PROVE i = j
  <2>1. i \in 1..n /\ j \in 1..n /\ ~(rows[i].id < rows[j].id) /\ ~(rows[j].id < rows[i].id)
    OBVIOUS
  <2>2. ~(i < j) /\ ~(j < i)
    BY <1>3, <2>1
  <2> QED BY <1>1, <2>1, <2>2
<1> HIDE DEF below, scan
<1>8. EntriesFound(rd, id) = IF scan = {} THEN {0} ELSE scan
  BY <1>5, <1>6 DEF Bisection
<1> QED BY <1>1, <1>7, <1>8 DEF scan

-----------------------------------------------------------------------------
(* What is read from a file that a reader accepts *)

LEMMA SequenceIsFunction ==
  ASSUME NEW S, NEW s \in Seq(S)
  PROVE  s = [i \in 1..Len(s) |-> s[i]]
OBVIOUS

\* The tables are those that the trailer was written with, in order, and the
\* blocks they locate are intact.
LEMMA TablesRead ==
  ASSUME ReadInv, Readable
  PROVE  LET c == mmap.cells[mmap.cap - 1]
         IN  /\ mmap.cap - 1 \in Index /\ mmap.cap \in Nat /\ c \in Cell
             /\ c.trailer \in Trailer
             /\ c.entries \in Seq(EntryRow) /\ c.dirs \in Seq(DirRow)
             /\ EntryTable(OnDisk) = c.entries
             /\ DirectoryTable(OnDisk) = c.dirs
             /\ TrailerOf(OnDisk) = c.trailer
             /\ TableOrdered(c) /\ InPathOrder(c.dirs) /\ InIdOrder(c.entries)
             /\ c.trailer.entryOff \in Nat /\ c.trailer.entryOff <= mmap.cap
             /\ RowsSound(mmap.cells, Elements(c.entries), Elements(c.dirs),
                          c.trailer.nextId, c.trailer.entryOff)
<1> DEFINE last == mmap.cap - 1
           c == mmap.cells[last]
<1>1. /\ mmap.cap >= MinArchiveSize /\ c.t = "trailer" /\ TablesMatch(mmap.cells, c)
  BY DEF Readable, ReaderAccepts, HasTrailer
<1>2. mmap.cells \in [Index -> Cell] /\ mmap.cap \in 0..DiskSize /\ DiskSize \in Nat
  BY FormatAssumption DEF ReadInv, FileInv, IInv, TypeOK, Mapped
<1>3. last \in Index /\ mmap.cap \in Nat /\ last = mmap.cap - 1
  BY <1>1, <1>2 DEF MinArchiveSize, Index
<1>4. TrailerSound(mmap.cells, last) /\ c \in Cell
  BY <1>2, <1>3 DEF ReadInv, FileInv, IInv, FileSound
<1>5. TableOrdered(c)
  BY <1>1, <1>3 DEF ReadInv, AllOrdered
<1>6. /\ c.trailer \in Trailer
      /\ c.entries \in Seq(EntryRow) /\ c.dirs \in Seq(DirRow)
      /\ Len(c.entries) \in Nat /\ Len(c.dirs) \in Nat
      /\ c.trailer.entryOff \in Nat /\ c.trailer.dirOff \in Nat
      /\ c.trailer.dirOff = c.trailer.entryOff + Len(c.entries)
      /\ last = c.trailer.dirOff + Len(c.dirs)
  BY <1>1, <1>2, <1>3, <1>4, TablePlaces
<1>7. RowsSound(mmap.cells, Elements(c.entries), Elements(c.dirs),
                c.trailer.nextId, c.trailer.entryOff)
  BY <1>1, <1>4 DEF TrailerSound
<1>8. TrailerOf(OnDisk) = c.trailer
  BY DEF TrailerOf, OnDisk, Reader
<1>9. \A i : OnDisk.cells[i] = mmap.cells[i]
  BY DEF OnDisk, Reader
<1> HIDE DEF c, last
<1>10. c.trailer.entryOff <= mmap.cap
  BY <1>3, <1>6
<1>11. EntryTable(OnDisk) = c.entries
  <2>1. ASSUME NEW i \in 1..Len(c.entries)
        PROVE  mmap.cells[c.trailer.entryOff + i - 1].row = c.entries[i]
    <3>1. mmap.cells[c.trailer.entryOff + i - 1] = EntryCell(c.entries[i])
      BY <1>1 DEF TablesMatch
    <3>2. EntryCell(c.entries[i]).row = c.entries[i]
      BY DEF EntryCell
    <3> QED BY <3>1, <3>2
  <2>2. c.entries = [i \in 1..Len(c.entries) |-> c.entries[i]]
    BY <1>6, SequenceIsFunction
  <2>3. c.trailer.entryCount = Len(c.entries)
    BY <1>5 DEF TableOrdered
  <2> QED BY <1>8, <1>9, <2>1, <2>2, <2>3 DEF EntryTable
<1>12. DirectoryTable(OnDisk) = c.dirs
  <2>1. ASSUME NEW i \in 1..Len(c.dirs)
        PROVE  mmap.cells[c.trailer.dirOff + i - 1].row = c.dirs[i]
    <3>1. mmap.cells[c.trailer.dirOff + i - 1] = DirCell(c.dirs[i])
      BY <1>1 DEF TablesMatch
    <3>2. DirCell(c.dirs[i]).row = c.dirs[i]
      BY DEF DirCell
    <3> QED BY <3>1, <3>2
  <2>2. c.dirs = [i \in 1..Len(c.dirs) |-> c.dirs[i]]
    BY <1>6, SequenceIsFunction
  <2>3. c.trailer.dirCount = Len(c.dirs)
    BY <1>5 DEF TableOrdered
  <2> QED BY <1>8, <1>9, <2>1, <2>2, <2>3 DEF DirectoryTable
<1>13. InPathOrder(c.dirs) /\ InIdOrder(c.entries)
  BY <1>5 DEF TableOrdered, InPathOrder, InIdOrder
<1> QED BY <1>3, <1>4, <1>5, <1>6, <1>7, <1>8, <1>10, <1>11, <1>12, <1>13 DEF c, last

(***************************************************************************)
(* find_directory_row_by_path and find_entry_row_by_id bisect tables that   *)
(* only sync sorts.  In every file that a reader accepts, however it came   *)
(* about, they answer exactly the rows that a scan would find.              *)
(***************************************************************************)
THEOREM SearchesAreScans == Spec => []SearchIsScan
<1>1. ASSUME ReadInv, Readable
      PROVE  LET dirs == DirectoryTable(OnDisk)
                 rows == EntryTable(OnDisk)
             IN  /\ \A raw \in RawPaths :
                     LET scan == { i \in DOMAIN dirs : dirs[i].path = raw }
                     IN  RowsFound(OnDisk, raw) = IF scan = {} THEN {0} ELSE scan
                 /\ \A id \in 1..MaxId :
                     LET scan == { i \in DOMAIN rows : rows[i].id = id }
                     IN  /\ EntriesFound(OnDisk, id) = IF scan = {} THEN {0} ELSE scan
                         /\ \A i, j \in scan : i = j
  <2> DEFINE dirs == DirectoryTable(OnDisk)
             rows == EntryTable(OnDisk)
             disk == OnDisk
  <2>1. /\ dirs \in Seq(DirRow) /\ rows \in Seq(EntryRow)
        /\ InPathOrder(dirs) /\ InIdOrder(rows)
    BY <1>1, TablesRead
  <2>2. DirectoryTable(disk) = dirs /\ EntryTable(disk) = rows
    OBVIOUS
  <2> HIDE DEF dirs, rows, disk
  <2>3. ASSUME NEW raw \in RawPaths
        PROVE  LET scan == { i \in DOMAIN dirs : dirs[i].path = raw }
               IN  RowsFound(disk, raw) = IF scan = {} THEN {0} ELSE scan
    <3>1. raw \in RawPath
      BY WriterAssumption
    <3> QED BY <2>1, <2>2, <3>1, PathSearch
  <2>4. ASSUME NEW id \in 1..MaxId
        PROVE  LET scan == { i \in DOMAIN rows : rows[i].id = id }
               IN  /\ EntriesFound(disk, id) = IF scan = {} THEN {0} ELSE scan
                   /\ \A i, j \in scan : i = j
    <3>1. id \in Nat
      BY FormatAssumption
    <3> QED BY <2>1, <2>2, <3>1, IdSearch
  <2> QED BY <2>3, <2>4 DEF dirs, rows, disk
<1>2. ReadInv => SearchIsScan
  BY <1>1 DEF SearchIsScan
<1> QED BY <1>2, ReadInvariance, PTL

-----------------------------------------------------------------------------
(* Clean sessions *)

\* What a session with nothing to sync is, and that readers accept its file.
LEMMA CleanFacts ==
  ASSUME ReadInv, Clean
  PROVE  LET c == mmap.cells[mmap.cap - 1]
         IN  /\ Readable
             /\ mmap.len = mmap.cap
             /\ OnDisk = InSession
             /\ entryRows = Elements(c.entries)
             /\ dirEntries = LoadedDirs(c.dirs)
             /\ trailer = [c.trailer EXCEPT !.nextId = trailer.nextId]
<1>1. session = "open" /\ SessionStored /\ mmap.len = mmap.committed
  BY DEF ReadInv, CleanStored, Clean
<1>2. mmap.cap = mmap.committed /\ mmap.cap >= MinArchiveSize
  BY <1>1 DEF SessionStored
<1>3. mmap.cells[0] = Header
  BY <1>1 DEF ReadInv, HasHeader
<1>4. Readable
  BY <1>1, <1>2, <1>3 DEF Readable, ReaderAccepts, HasTrailer, SessionStored
<1>5. OnDisk = InSession
  BY <1>1, <1>2 DEF OnDisk, InSession
<1> QED BY <1>1, <1>2, <1>4, <1>5 DEF SessionStored

LEMMA LoadedNames ==
  ASSUME NEW dirs
  PROVE  { [path |-> d.path, id |-> d.id] : d \in Elements(dirs) }
            = { [path |-> d.path, id |-> d.id] : d \in LoadedDirs(dirs) }
<1> DEFINE name(d) == [path |-> d.path, id |-> d.id]
           loaded(i) == [path |-> dirs[i].path, id |-> dirs[i].id, at |-> i]
<1>1. \A i : name(loaded(i)) = name(dirs[i])
  OBVIOUS
<1>2. Elements(dirs) = { dirs[i] : i \in DOMAIN dirs }
      /\ LoadedDirs(dirs) = { loaded(i) : i \in DOMAIN dirs }
  BY DEF Elements, LoadedDirs
<1> HIDE DEF name, loaded
<1>3. { name(d) : d \in Elements(dirs) } = { name(d) : d \in LoadedDirs(dirs) }
  BY <1>1, <1>2
<1> QED BY <1>3 DEF name

(***************************************************************************)
(* With nothing to sync and nothing written since the last sync or open, a  *)
(* reader accepts the file and sees the entries and paths of the session,   *)
(* also after adds that failed for want of space.                           *)
(***************************************************************************)
THEOREM CleanIsReadable == Spec => []CleanMeansReadable
<1>1. ASSUME ReadInv, Clean
      PROVE  LET c == mmap.cells[mmap.cap - 1]
             IN  /\ ReaderAccepts(mmap.cells, mmap.cap)
                 /\ View(mmap.cells, Elements(c.entries), Elements(c.dirs))
                        = View(mmap.cells, entryRows, dirEntries)
  <2> DEFINE c == mmap.cells[mmap.cap - 1]
  <2>1. Readable /\ entryRows = Elements(c.entries) /\ dirEntries = LoadedDirs(c.dirs)
    BY <1>1, CleanFacts
  <2> HIDE DEF c
  <2>2. { [path |-> d.path, id |-> d.id] : d \in Elements(c.dirs) }
            = { [path |-> d.path, id |-> d.id] : d \in LoadedDirs(c.dirs) }
    BY LoadedNames
  <2>3. View(mmap.cells, Elements(c.entries), Elements(c.dirs))
            = View(mmap.cells, entryRows, dirEntries)
    BY <2>1, <2>2 DEF View
  <2> QED BY <2>1, <2>3 DEF Readable, c
<1>2. ReadInv => CleanMeansReadable
  BY <1>1 DEF CleanMeansReadable, Clean
<1> QED BY <1>2, ReadInvariance, PTL

-----------------------------------------------------------------------------
(* Dropping *)

LEMMA DropKeeps ==
  ASSUME ReadInv, Drop, ReaderAccepts(mmap.cells, mmap.cap)
  PROVE  mmap'.cap = mmap.cap /\ mmap'.cells = mmap.cells
<1>1. /\ mmap \in Mapped /\ mmap.cells \in [Index -> Cell] /\ mmap.cap \in Nat
      /\ mmap.cap \in 0..DiskSize /\ DiskSize \in Nat
      /\ mmap.len \in Nat /\ mmap.committed \in Nat
      /\ session \in {"none", "open", "damaged"}
  BY FormatAssumption DEF ReadInv, FileInv, IInv, TypeOK, Mapped
<1>2. /\ session # "none" /\ mmap'.cells = CutAt(mmap.cells, DropLen(mmap))
      /\ mmap'.cap = DropLen(mmap)
  BY DEF Drop, Unmap
<1>3. mmap.len <= mmap.cap /\ mmap.committed <= mmap.cap
  BY DEF ReadInv, FileInv, LengthsFit
<1>4. DropLen(mmap) = mmap.cap
  <2>1. CASE session = "open"
    <3>1. mmap.cap - 1 \in Index /\ mmap.cells[mmap.cap - 1].t = "trailer"
      BY <1>1 DEF ReaderAccepts, HasTrailer, MinArchiveSize, Index
    <3>2. mmap.cap - 1 < mmap.committed
      BY <2>1, <3>1 DEF ReadInv, AllCommitted
    <3> QED BY <1>1, <1>3, <3>2 DEF DropLen
  <2>2. CASE session = "damaged"
    <3>1. mmap.len = mmap.cap
      BY <2>2 DEF ReadInv, FileInv, IInv, SessionSound
    <3> QED BY <1>1, <1>3, <3>1 DEF DropLen
  <2> QED BY <1>1, <1>2, <2>1, <2>2
<1>5. ASSUME NEW i \in Index PROVE CutAt(mmap.cells, mmap.cap)[i] = mmap.cells[i]
  <2>1. i >= mmap.cap => mmap.cells[i] = Zero
    BY DEF ReadInv, FileInv, IInv, FileSound
  <2>2. i \in Nat
    BY DEF Index
  <2> QED BY <1>1, <2>1, <2>2, CutAtEffect
<1>6. CutAt(mmap.cells, mmap.cap) = mmap.cells
  BY <1>1, <1>5, CutAtEffect
<1> QED BY <1>2, <1>4, <1>6

(***************************************************************************)
(* A drop cuts the file at the larger of the logical length and what was    *)
(* committed.  Either may lie below the end of the file; yet a file that a  *)
(* reader would have accepted before the drop is not changed by it.         *)
(***************************************************************************)
THEOREM DropsKeepReadable == Spec => DropKeepsReadable
<1>1. ASSUME ReadInv, [Next]_vars
      PROVE  [(Drop /\ ReaderAccepts(mmap.cells, mmap.cap)) =>
                  /\ mmap'.cap = mmap.cap
                  /\ mmap'.cells = mmap.cells]_vars
  BY <1>1, DropKeeps
<1> QED BY <1>1, ReadInvariance, PTL DEF Spec, DropKeepsReadable

-----------------------------------------------------------------------------
(* Checking *)

\* Two rows of a sorted directory have the same path if and only if they and
\* the rows between them do.
LEMMA EqualNeighbours ==
  ASSUME NEW dirs \in Seq(DirRow), InPathOrder(dirs)
  PROVE  /\ \A i \in 1..Len(dirs) : dirs[i].path \in Seq(Int)
         /\ \A i, j, k \in 1..Len(dirs) : (i <= j /\ j <= k /\ dirs[i].path = dirs[k].path)
                => dirs[j].path = dirs[i].path
         /\ \A i, j \in 1..Len(dirs) : i < j => ~PathLess(dirs[j].path, dirs[i].path)
<1>1. ASSUME NEW i \in 1..Len(dirs) PROVE dirs[i].path \in Seq(Int)
  <2>1. dirs[i] \in DirRow
    OBVIOUS
  <2>2. dirs[i].path \in Path
    BY <2>1 DEF DirRow
  <2> QED BY <2>2, PathComponents
<1>2. \A i, j \in 1..Len(dirs) : i < j =>
          PathLess(dirs[i].path, dirs[j].path) \/ dirs[i].path = dirs[j].path
  BY DEF InPathOrder
<1>3. ASSUME NEW i \in 1..Len(dirs), NEW j \in 1..Len(dirs), i < j,
             PathLess(dirs[j].path, dirs[i].path)
      PROVE  FALSE
  <2>1. CASE dirs[i].path = dirs[j].path
    BY <1>1, <1>3, <2>1, PathLessIrreflexive
  <2>2. CASE PathLess(dirs[i].path, dirs[j].path)
    <3>1. PathLess(dirs[i].path, dirs[i].path)
      BY <1>1, <1>3, <2>2, PathLessTransitive
    <3> QED BY <1>1, <3>1, PathLessIrreflexive
  <2> QED BY <1>2, <1>3, <2>1, <2>2
<1>4. ASSUME NEW i \in 1..Len(dirs), NEW j \in 1..Len(dirs), NEW k \in 1..Len(dirs),
             i <= j, j <= k, dirs[i].path = dirs[k].path
      PROVE  dirs[j].path = dirs[i].path
  <2>1. CASE i = j \/ j = k
    BY <1>4, <2>1
  <2>2. CASE i < j /\ j < k
    <3>1. PathLess(dirs[j].path, dirs[k].path) \/ dirs[j].path = dirs[k].path
      BY <1>2, <2>2
    <3>2. ~PathLess(dirs[j].path, dirs[i].path)
      BY <1>3, <2>2
    <3> QED BY <1>4, <3>1, <3>2
  <2>3. i = j \/ i < j
    BY <1>4
  <2>4. j = k \/ j < k
    BY <1>4
  <2> QED BY <2>1, <2>2, <2>3, <2>4
<1> QED BY <1>1, <1>3, <1>4

\* find_duplicates compares neighbours, and misses no path that is there twice.
LEMMA DuplicatesFound ==
  ASSUME NEW rd, NEW dirs \in Seq(DirRow), DirectoryTable(rd) = dirs, InPathOrder(dirs)
  PROVE  /\ FindDuplicates(rd) =
                { dirs[i].path : i \in { i \in DOMAIN dirs :
                    \E j \in DOMAIN dirs \ {i} : dirs[j].path = dirs[i].path } }
         /\ IsSorted(rd)
<1> DEFINE n == Len(dirs)
           found == { dirs[i].path : i \in { i \in 2..n : dirs[i].path = dirs[i - 1].path } }
           twice == { dirs[i].path : i \in { i \in 1..n :
                        \E j \in (1..n) \ {i} : dirs[j].path = dirs[i].path } }
<1>1. n \in Nat /\ DOMAIN dirs = 1..n
  OBVIOUS
<1>2. \A i \in 2..n : i \in 1..n /\ i - 1 \in 1..n /\ i - 1 # i /\ i - 1 < i
  BY <1>1
<1>3. /\ \A i, j, k \in 1..n : (i <= j /\ j <= k /\ dirs[i].path = dirs[k].path)
                => dirs[j].path = dirs[i].path
      /\ \A i, j \in 1..n : i < j => ~PathLess(dirs[j].path, dirs[i].path)
  BY EqualNeighbours
<1> HIDE DEF n
<1>4. found \subseteq twice
  BY <1>2
<1>5. ASSUME NEW i \in 1..n, NEW j \in 1..n, i < j, dirs[i].path = dirs[j].path
      PROVE  dirs[i].path \in found
  <2>1. i + 1 \in 2..n /\ i + 1 \in 1..n /\ i <= i + 1 /\ i + 1 <= j /\ (i + 1) - 1 = i
    BY <1>1, <1>5
  <2>2. dirs[i + 1].path = dirs[i].path
    BY <1>3, <1>5, <2>1
  <2> QED BY <2>1, <2>2
<1>6. ASSUME NEW i \in 1..n, NEW j \in (1..n) \ {i}, dirs[j].path = dirs[i].path
      PROVE  dirs[i].path \in found
  <2>1. i < j \/ j < i
    BY <1>1
  <2> QED BY <1>5, <1>6, <2>1
<1>7. found = twice
  <2> HIDE DEF found
  <2> QED BY <1>4, <1>6
<1>8. FindDuplicates(rd) = found
  BY DEF FindDuplicates, n
<1>9. IsSorted(rd)
  BY <1>2, <1>3 DEF IsSorted, n
<1> QED BY <1>1, <1>7, <1>8, <1>9

LEMMA SessionDuplicatesFound ==
  ASSUME NEW rd, NEW dirs \in Seq(DirRow), DirectoryTable(rd) = dirs,
         dirEntries = LoadedDirs(dirs)
  PROVE  FindDuplicates(rd) = SessionDuplicates
<1> DEFINE n == Len(dirs)
           row(i) == [path |-> dirs[i].path, id |-> dirs[i].id, at |-> i]
<1>1. n \in Nat /\ DOMAIN dirs = 1..n
  OBVIOUS
<1>2. dirEntries = { row(i) : i \in 1..n }
  BY <1>1 DEF LoadedDirs
<1>3. \A i : row(i).path = dirs[i].path /\ row(i).at = i
  OBVIOUS
<1> HIDE DEF n, row
<1>4. ASSUME NEW i \in 2..n, dirs[i].path = dirs[i - 1].path
      PROVE  dirs[i].path \in SessionDuplicates
  <2>1. i \in 1..n /\ i - 1 \in 1..n /\ i = (i - 1) + 1
    BY <1>1
  <2>2. /\ row(i) \in dirEntries /\ row(i - 1) \in dirEntries
        /\ row(i).at = row(i - 1).at + 1 /\ row(i).path = row(i - 1).path
        /\ row(i - 1).path = dirs[i].path
    BY <1>2, <1>3, <1>4, <2>1
  <2> QED BY <2>2 DEF SessionDuplicates
<1>5. ASSUME NEW d \in dirEntries, NEW e \in dirEntries, e.at = d.at + 1, e.path = d.path
      PROVE  \E i \in 2..n : dirs[i].path = dirs[i - 1].path /\ dirs[i].path = d.path
  <2>1. PICK i \in 1..n, j \in 1..n : d = row(i) /\ e = row(j)
    BY <1>2
  <2>2. j = i + 1 /\ dirs[j].path = dirs[i].path /\ d.path = dirs[i].path
    BY <1>3, <1>5, <2>1
  <2>3. j \in 2..n /\ j - 1 = i
    BY <1>1, <2>2
  <2> QED BY <2>2, <2>3
<1>6. FindDuplicates(rd)
        = { dirs[i].path : i \in { i \in 2..n : dirs[i].path = dirs[i - 1].path } }
  BY DEF FindDuplicates, n
<1>7. FindDuplicates(rd) \subseteq SessionDuplicates
  BY <1>4, <1>6
<1>8. SessionDuplicates \subseteq FindDuplicates(rd)
  BY <1>5, <1>6 DEF SessionDuplicates
<1> QED BY <1>7, <1>8

\* The entries that iter_entries lists are those of the tables.
LEMMA EntriesListed ==
  ASSUME NEW rd, NEW dirs \in Seq(DirRow), DirectoryTable(rd) = dirs,
         NEW rows \in Seq(EntryRow), EntryTable(rd) = rows, InIdOrder(rows),
         NEW h \in IterEntries(rd)
  PROVE  \E i \in 1..Len(dirs), k \in 1..Len(rows) : h = Hit(dirs[i].path, rows[k])
<1> DEFINE resolved(i) == Resolve(rd, i)
<1>0. h \in UNION { resolved(i) : i \in DOMAIN dirs } /\ h # NotFound
  BY DEF IterEntries
<1> HIDE DEF resolved
<1>9. PICK i \in DOMAIN dirs : h \in resolved(i)
  BY <1>0
<1>1. h \in Resolve(rd, i) /\ h # NotFound
  BY <1>0, <1>9 DEF resolved
<1>2. i \in 1..Len(dirs) /\ dirs[i] \in DirRow
  OBVIOUS
<1>3. dirs[i].id \in Nat
  BY <1>2, FormatAssumption DEF DirRow
<1>4. PICK k \in EntriesFound(rd, dirs[i].id) :
          h = IF k = 0 THEN NotFound ELSE Hit(dirs[i].path, rows[k])
  BY <1>1 DEF Resolve
<1>5. k # 0
  BY <1>1, <1>4
<1>6. k \in DOMAIN rows
  BY <1>3, <1>5, IdSearch
<1> QED BY <1>2, <1>4, <1>5, <1>6

\* A stored path is its own canonical form.
LEMMA StoredNormalized ==
  ASSUME NEW p \in Path
  PROVE  Storable(Normalize(p))
<1>1. p \in Seq(Names) /\ Len(p) \in 1..PathSize
  BY PathComponents
<1>2. ASSUME NEW i \in DOMAIN p PROVE p[i] \notin {Skip, Up, Unsafe}
  <2>1. p[i] \in Names
    BY <1>1
  <2>2. p[i] \in Nat /\ p[i] # 0
    BY <2>1, PathAssumption
  <2> QED BY <2>2 DEF Skip, Up, Unsafe
<1>3. p # <<>>
  BY <1>1, PathAssumption
<1>4. IsNormalized(p) /\ Validated(p) = p
  BY <1>2, <1>3 DEF IsNormalized, Validated
<1> QED BY <1>4 DEF Normalize, Storable

LEMMA CheckFindsNoFault ==
  ASSUME ReadInv, Readable
  PROVE  /\ Check(OnDisk).issues \subseteq {"OrphanedData"}
         /\ LET dirs == DirectoryTable(OnDisk)
            IN  Check(OnDisk).duplicates =
                    { dirs[i].path : i \in { i \in DOMAIN dirs :
                        \E j \in DOMAIN dirs \ {i} : dirs[j].path = dirs[i].path } }
<1> DEFINE c == mmap.cells[mmap.cap - 1]
           disk == OnDisk
           crcs == { h \in IterEntries(disk) :
                        OutOfBounds(disk, h.row) \/ ~VerifyCrc(disk.cells, h.row) }
           paths == { h \in IterEntries(disk) : ~Storable(Normalize(h.path)) }
<1>1. /\ mmap.cap \in Nat /\ c.entries \in Seq(EntryRow) /\ c.dirs \in Seq(DirRow)
      /\ EntryTable(disk) = c.entries /\ DirectoryTable(disk) = c.dirs
      /\ TableOrdered(c) /\ InPathOrder(c.dirs) /\ InIdOrder(c.entries)
      /\ c.trailer.entryOff \in Nat /\ c.trailer.entryOff <= mmap.cap
      /\ RowsSound(mmap.cells, Elements(c.entries), Elements(c.dirs),
                   c.trailer.nextId, c.trailer.entryOff)
  BY TablesRead
<1>2. disk.cells = mmap.cells /\ disk.len = mmap.cap
  BY DEF OnDisk, Reader
<1>3. ReaderAccepts(disk.cells, disk.len)
  BY <1>2 DEF Readable
<1> HIDE DEF c, disk
<1>4. ASSUME NEW h \in IterEntries(disk)
      PROVE  /\ ~OutOfBounds(disk, h.row) /\ VerifyCrc(disk.cells, h.row)
             /\ Storable(Normalize(h.path))
  <2>1. PICK i \in 1..Len(c.dirs), k \in 1..Len(c.entries) :
            h = Hit(c.dirs[i].path, c.entries[k])
    BY <1>1, EntriesListed
  <2> DEFINE r == c.entries[k]
  <2>2. h.row = r /\ h.path = c.dirs[i].path
    BY <2>1 DEF Hit
  <2>3. r \in EntryRow /\ r \in Elements(c.entries)
    BY <1>1, ElementsFinite
  <2>4. c.dirs[i].path \in Path
    <3>1. c.dirs[i] \in DirRow
      BY <1>1
    <3> QED BY <3>1 DEF DirRow
  <2> HIDE DEF r
  <2>5. VerifyCrc(mmap.cells, r) /\ (HasBlock(r) => r.off + r.size <= c.trailer.entryOff)
    BY <1>1, <2>3 DEF RowsSound, SeparateBlocks
  <2>6. r.size = 0 => r.off = 0
    BY <1>1, <2>3 DEF TableOrdered, Unplaced
  <2>7. r.off \in Nat /\ r.size \in Nat
    BY <2>3, FormatAssumption DEF EntryRow
  <2>8. ~OutOfBounds(disk, r)
    BY <1>1, <1>2, <2>5, <2>6, <2>7 DEF OutOfBounds, HasBlock
  <2>9. Storable(Normalize(h.path))
    BY <2>2, <2>4, StoredNormalized
  <2> QED BY <1>2, <2>2, <2>5, <2>8, <2>9
<1>5. crcs = {} /\ paths = {}
  BY <1>4
<1>6. /\ IsSorted(disk)
      /\ FindDuplicates(disk) = { c.dirs[i].path : i \in { i \in DOMAIN c.dirs :
                \E j \in DOMAIN c.dirs \ {i} : c.dirs[j].path = c.dirs[i].path } }
  BY <1>1, DuplicatesFound
<1>7. Check(disk).issues =
            IssueIf(~ReaderAccepts(disk.cells, disk.len), "MetadataCrc")
            \cup IssueIf(crcs # {}, "EntryCrc")
            \cup IssueIf(paths # {}, "InvalidPath")
            \cup IssueIf(~IsSorted(disk), "Unsorted")
            \cup IssueIf(HasOrphanedData(disk), "OrphanedData")
  BY DEF Check
<1>8. Check(disk).duplicates = FindDuplicates(disk)
  BY DEF Check
<1> HIDE DEF crcs, paths
<1>9. Check(disk).issues \subseteq {"OrphanedData"}
  BY <1>3, <1>5, <1>6, <1>7 DEF IssueIf
<1> QED BY <1>1, <1>6, <1>8, <1>9 DEF disk

(***************************************************************************)
(* bale check of an archive that can be opened reports no wrong CRC, no     *)
(* invalid path and no unsorted directory, whatever was interrupted while   *)
(* it was written, and names exactly the paths that are there twice; so     *)
(* does the writer of a clean archive.                                      *)
(***************************************************************************)
THEOREM ChecksPass == Spec => []CheckPasses
<1>1. ASSUME ReadInv, Clean PROVE Check(OnDisk).duplicates = SessionDuplicates
  <2> DEFINE c == mmap.cells[mmap.cap - 1]
  <2>1. Readable /\ dirEntries = LoadedDirs(c.dirs)
    BY <1>1, CleanFacts
  <2>2. c.dirs \in Seq(DirRow) /\ DirectoryTable(OnDisk) = c.dirs
    BY <1>1, <2>1, TablesRead
  <2> HIDE DEF c
  <2>3. FindDuplicates(OnDisk) = SessionDuplicates
    BY <2>1, <2>2, SessionDuplicatesFound
  <2> QED BY <2>3 DEF Check
<1>2. ReadInv => CheckPasses
  BY <1>1, CheckFindsNoFault DEF CheckPasses
<1> QED BY <1>2, ReadInvariance, PTL

-----------------------------------------------------------------------------
(* A clean session and a reader of its file *)

LEMMA LeastMember ==
  ASSUME NEW S \in SUBSET Nat, S # {}
  PROVE  \E m \in S : \A k \in S : m <= k
<1> DEFINE below == { 0..k : k \in S }
<1>1. below \subseteq FiniteSubsetsOf(Nat) /\ below # {}
  <2>1. \A k \in S : IsFiniteSet(0..k) /\ 0..k \subseteq Nat
    BY FS_Interval
  <2> QED BY <2>1 DEF FiniteSubsetsOf
<1>2. PICK x \in below : \A y \in below : ~(<<y, x>> \in StrictSubsetOrdering(Nat))
  <2> HIDE DEF below
  <2>1. IsWellFoundedOn(StrictSubsetOrdering(Nat), FiniteSubsetsOf(Nat))
    BY FS_StrictSubsetOrderingWellFounded
  <2> QED BY <1>1, <2>1, WFMin
<1>3. PICK m \in S : x = 0..m
  OBVIOUS
<1>4. ASSUME NEW k \in S, k < m PROVE FALSE
  <2>1. 0..k \in below /\ 0..k \subseteq 0..m /\ m \in 0..m /\ m \notin 0..k
    BY <1>4
  <2>2. 0..k \in SUBSET Nat /\ 0..m \in SUBSET Nat
    OBVIOUS
  <2>3. <<0..k, 0..m>> \in StrictSubsetOrdering(Nat)
    BY <2>1, <2>2 DEF StrictSubsetOrdering
  <2> QED BY <1>2, <1>3, <2>1, <2>3
<1> QED BY <1>4

\* At most one row is at most one row.
LEMMA AtMostOne ==
  ASSUME NEW S, IsFiniteSet(S), Cardinality(S) <= 1, NEW x \in S, NEW y \in S
  PROVE  x = y
<1>1. Cardinality(S) \in Nat
  BY FS_CardinalityType
<1>2. Cardinality(S) # 0
  BY FS_EmptySet
<1>3. Cardinality(S) = 1
  BY <1>1, <1>2
<1> QED BY <1>3, FS_Singleton

\* The rows in memory of a clean session are those of the file's directory.
LEMMA LoadedRows ==
  ASSUME NEW dirs \in Seq(DirRow), dirEntries = LoadedDirs(dirs)
  PROVE  LET row(i) == [path |-> dirs[i].path, id |-> dirs[i].id, at |-> i]
         IN  /\ dirEntries = { row(i) : i \in 1..Len(dirs) }
             /\ \A i : row(i).path = dirs[i].path /\ row(i).id = dirs[i].id /\ row(i).at = i
             /\ IsFiniteSet(dirEntries)
<1>1. IsFiniteSet(dirEntries)
  BY LoadedDirsType
<1> QED BY <1>1 DEF LoadedDirs


\* Under a path that one row at most has, the bisection and the scan of the
\* rows in memory answer the same.
LEMMA AnswersAgree ==
  ASSUME NEW rd, NEW dirs \in Seq(DirRow), DirectoryTable(rd) = dirs,
         NEW rows \in Seq(EntryRow), EntryTable(rd) = rows,
         InPathOrder(dirs), InIdOrder(rows),
         dirEntries = LoadedDirs(dirs), entryRows = Elements(rows),
         NEW raw \in RawPath, Len(raw) <= PathSize,
         Cardinality(RowsOf(Padded(raw))) <= 1
  PROVE  Lookup(rd, raw) = SessionLookup(raw)
<1> DEFINE row(i) == [path |-> dirs[i].path, id |-> dirs[i].id, at |-> i]
           scan == { i \in 1..Len(dirs) : dirs[i].path = raw }
           named(i) == { k \in 1..Len(rows) : rows[k].id = dirs[i].id }
<1>1. /\ dirEntries = { row(i) : i \in 1..Len(dirs) }
      /\ \A i : row(i).path = dirs[i].path /\ row(i).id = dirs[i].id /\ row(i).at = i
      /\ IsFiniteSet(dirEntries)
  BY LoadedRows
<1>2. Padded(raw) = raw
  BY PaddedKey
<1>3. DOMAIN dirs = 1..Len(dirs) /\ DOMAIN rows = 1..Len(rows)
  OBVIOUS
<1>4. RowsFound(rd, raw) = IF scan = {} THEN {0} ELSE scan
  BY <1>3, PathSearch
<1>5. ASSUME NEW i \in 1..Len(dirs)
      PROVE  /\ EntriesFound(rd, dirs[i].id) = IF named(i) = {} THEN {0} ELSE named(i)
             /\ \A k, l \in named(i) : k = l
             /\ i # 0 /\ i \in Nat
  <2>1. dirs[i] \in DirRow
    OBVIOUS
  <2>2. dirs[i].id \in Nat
    BY <2>1, FormatAssumption DEF DirRow
  <2> DEFINE id == dirs[i].id
             found == { k \in DOMAIN rows : rows[k].id = id }
  <2>3. /\ EntriesFound(rd, id) = IF found = {} THEN {0} ELSE found
        /\ \A k, l \in found : k = l
    <3>1. id \in Nat
      BY <2>2
    <3> HIDE DEF id
    <3> QED BY <3>1, IdSearch
  <2>4. named(i) = found
    BY <1>3
  <2>5. i # 0 /\ i \in Nat
    OBVIOUS
  <2> HIDE DEF named, found
  <2> QED BY <2>3, <2>4, <2>5
<1>6. entryRows = { rows[k] : k \in 1..Len(rows) }
  BY <1>3 DEF Elements
<1> HIDE DEF row
<1>7. ASSUME NEW i \in scan, NEW j \in scan PROVE i = j
  <2>1. row(i) \in RowsOf(raw) /\ row(j) \in RowsOf(raw)
    BY <1>1 DEF RowsOf
  <2>2. IsFiniteSet(RowsOf(raw))
    BY <1>1, FS_Subset DEF RowsOf
  <2>3. row(i) = row(j)
    BY <1>2, <2>1, <2>2, AtMostOne
  <2> QED BY <1>1, <2>3
<1>8. ASSUME NEW d, NEW r
      PROVE  Finds(raw, d, r) <=> \E i \in scan : \E k \in named(i) : d = row(i) /\ r = rows[k]
  <2>1. ASSUME Finds(raw, d, r)
        PROVE  \E i \in scan : \E k \in named(i) : d = row(i) /\ r = rows[k]
    <3>1. d \in dirEntries /\ d.path = raw /\ r \in entryRows /\ r.id = d.id
      BY <1>2, <2>1 DEF Finds, IsFirst
    <3>2. PICK i \in 1..Len(dirs), k \in 1..Len(rows) : d = row(i) /\ r = rows[k]
      BY <1>1, <1>6, <3>1
    <3>3. dirs[i].path = raw /\ rows[k].id = dirs[i].id
      BY <1>1, <3>1, <3>2
    <3> QED BY <3>2, <3>3
  <2>2. ASSUME NEW i \in scan, NEW k \in named(i), d = row(i), r = rows[k]
        PROVE  Finds(raw, d, r)
    <3>1. d \in dirEntries /\ d.path = raw /\ r \in entryRows /\ r.id = d.id
      BY <1>1, <1>6, <2>2
    <3>2. ASSUME NEW e \in dirEntries, e.path = raw PROVE d.at <= e.at
      <4>1. PICK j \in 1..Len(dirs) : e = row(j)
        BY <1>1
      <4>2. j \in scan
        BY <1>1, <3>2, <4>1
      <4>3. e = d /\ d.at \in Nat
        BY <1>1, <1>5, <1>7, <2>2, <4>1, <4>2
      <4> QED BY <4>3
    <3> QED BY <1>2, <3>1, <3>2 DEF Finds, IsFirst
  <2> QED BY <2>1, <2>2
<1> HIDE DEF scan
<1>9. CASE \A i \in scan : named(i) = {}
  <2>1. ~Found(raw)
    BY <1>8, <1>9 DEF Found
  <2>2. CASE scan = {}
    <3>1. Lookup(rd, raw) = {NotFound}
      BY <1>4, <2>2 DEF Lookup
    <3> QED BY <2>1, <3>1 DEF SessionLookup
  <2>3. CASE scan # {}
    <3>1. PICK i \in scan : TRUE
      BY <2>3
    <3>2. RowsFound(rd, raw) = {i} /\ i # 0
      BY <1>4, <1>5, <1>7, <2>3, <3>1 DEF scan
    <3>3. EntriesFound(rd, dirs[i].id) = {0}
      BY <1>5, <1>9, <3>1 DEF scan
    <3>4. Resolve(rd, i) = {NotFound}
      BY <3>3 DEF Resolve
    <3>5. Lookup(rd, raw) = {NotFound}
      BY <3>2, <3>4 DEF Lookup
    <3> QED BY <2>1, <3>5 DEF SessionLookup
  <2> QED BY <2>2, <2>3
<1>10. CASE \E i \in scan : named(i) # {}
  <2>1. PICK i \in scan : named(i) # {}
    BY <1>10
  <2>2. PICK k \in named(i) : TRUE
    BY <2>1
  <2>3. i \in 1..Len(dirs) /\ k # 0
    BY DEF scan
  <2> DEFINE ks == named(i)
  <2>13. scan = {i}
    BY <1>7, <2>1
  <2>14. ks = {k}
    <3>1. k \in ks
      BY <2>2
    <3>2. \A l, m \in ks : l = m
      BY <1>5, <2>3
    <3> HIDE DEF ks
    <3> QED BY <3>1, <3>2
  <2>4. RowsFound(rd, raw) = {i} /\ i # 0
    BY <1>4, <1>5, <2>3, <2>13
  <2>5. EntriesFound(rd, dirs[i].id) = {k}
    <3>1. EntriesFound(rd, dirs[i].id) = IF ks = {} THEN {0} ELSE ks
      BY <1>5, <2>3
    <3> HIDE DEF ks
    <3> QED BY <2>14, <3>1
  <2>6. Resolve(rd, i) = {Hit(dirs[i].path, rows[k])}
    BY <2>3, <2>5 DEF Resolve
  <2>7. Lookup(rd, raw) = {Hit(dirs[i].path, rows[k])}
    BY <2>4, <2>6 DEF Lookup
  <2>8. \A d, r : Finds(raw, d, r) <=> d = row(i) /\ r = rows[k]
    BY <1>8, <2>13, <2>14
  <2>9. row(i) \in dirEntries /\ rows[k] \in entryRows /\ row(i).path = dirs[i].path
    BY <1>1, <1>6, <2>3
  <2>10. Found(raw)
    BY <2>8, <2>9 DEF Found
  <2>11. { p \in dirEntries \X entryRows : Finds(raw, p[1], p[2]) } = {<<row(i), rows[k]>>}
    <3> DEFINE finds == { p \in dirEntries \X entryRows : Finds(raw, p[1], p[2]) }
    <3>1. ASSUME NEW p \in finds PROVE p = <<row(i), rows[k]>>
      BY <2>8
    <3>2. <<row(i), rows[k]>> \in finds
      BY <2>8, <2>9
    <3> QED BY <3>1, <3>2
  <2>12. SessionLookup(raw) = {Hit(row(i).path, rows[k])}
    <3> DEFINE finds == { p \in dirEntries \X entryRows : Finds(raw, p[1], p[2]) }
               pair == <<row(i), rows[k]>>
    <3>1. SessionLookup(raw) = { Hit(p[1].path, p[2]) : p \in finds }
      BY <2>10 DEF SessionLookup
    <3>2. finds = {pair} /\ pair[1] = row(i) /\ pair[2] = rows[k]
      BY <2>11
    <3> HIDE DEF finds, pair
    <3>3. SessionLookup(raw) = { Hit(pair[1].path, pair[2]) }
      BY <3>1, <3>2
    <3> QED BY <3>2, <3>3
  <2> QED BY <2>7, <2>9, <2>12
<1> QED BY <1>9, <1>10


(***************************************************************************)
(* A reader bisects the tables on disk and a writer scans those in memory.  *)
(* Once a session has nothing to sync, the two give the same answer under   *)
(* every path that one row at most has: the entry with its data, nothing,   *)
(* or that it is of another kind.                                           *)
(***************************************************************************)
THEOREM NamesAgreeAlways == Spec => []NamesAgree
<1>1. ASSUME ReadInv, Clean, NEW raw \in RawPaths,
             Cardinality(RowsOf(Padded(raw))) <= 1, Len(raw) <= PathSize
      PROVE  Lookup(OnDisk, raw) = SessionLookup(raw) /\ OnDisk = InSession
  <2> DEFINE c == mmap.cells[mmap.cap - 1]
             dirs == c.dirs
             rows == c.entries
             disk == OnDisk
  <2>1. /\ Readable /\ dirEntries = LoadedDirs(dirs) /\ entryRows = Elements(rows)
        /\ disk = InSession
    BY <1>1, CleanFacts
  <2>2. /\ dirs \in Seq(DirRow) /\ DirectoryTable(disk) = dirs
        /\ rows \in Seq(EntryRow) /\ EntryTable(disk) = rows
        /\ InPathOrder(dirs) /\ InIdOrder(rows)
    BY <1>1, <2>1, TablesRead
  <2>3. raw \in RawPath
    BY <1>1, WriterAssumption
  <2> HIDE DEF c, dirs, rows, disk
  <2>4. Lookup(disk, raw) = SessionLookup(raw)
    BY <1>1, <2>1, <2>2, <2>3, AnswersAgree
  <2> QED BY <2>1, <2>4 DEF disk
<1>2. ASSUME ReadInv, Clean, NEW raw \in RawPaths,
             Cardinality(RowsOf(Padded(raw))) <= 1, Len(raw) <= PathSize,
             NEW want \in Accessors
      PROVE  { Access(OnDisk, want, h) : h \in Lookup(OnDisk, raw) }
                = SessionAccess(want, raw)
  <2> DEFINE found == SessionLookup(raw)
  <2>1. Lookup(OnDisk, raw) = found /\ OnDisk = InSession
    BY <1>1, <1>2
  <2>2. SessionAccess(want, raw) = { Access(InSession, want, h) : h \in found }
    BY DEF SessionAccess
  <2> HIDE DEF found
  <2> QED BY <2>1, <2>2
<1>3. ReadInv => NamesAgree
  BY <1>2 DEF NamesAgree
<1> QED BY <1>3, ReadInvariance, PTL

LEMMA IdAnswersAgree ==
  ASSUME NEW dirs \in Seq(DirRow), DirectoryTable(InSession) = dirs,
         NEW rows \in Seq(EntryRow), EntryTable(InSession) = rows, InIdOrder(rows),
         dirEntries = LoadedDirs(dirs), entryRows = Elements(rows), NEW id \in Nat
  PROVE  FindById(InSession, id) = SessionFindById(id)
<1> DEFINE row(i) == [path |-> dirs[i].path, id |-> dirs[i].id, at |-> i]
           rd == InSession
           naming == { i \in 1..Len(dirs) : dirs[i].id = id }
           found == { k \in 1..Len(rows) : rows[k].id = id }
           namers == { d \in dirEntries : d.id = id }
           firsts == { d \in namers : \A e \in namers : d.at <= e.at }
           entries == { r \in entryRows : r.id = id }
           made(d, r) == MakeEntry(rd, Hit(d.path, r))
           all == { made(d, r) : d \in firsts, r \in entries } \ {Corrupted}
           first == CHOOSE i \in naming : \A j \in naming : i <= j
           answer(k) == IF k = 0 \/ naming = {} THEN NotFound
                        ELSE IF made(dirs[first], rows[k]) = Corrupted THEN NotFound
                        ELSE made(dirs[first], rows[k])
<1>1. /\ dirEntries = { row(i) : i \in 1..Len(dirs) }
      /\ \A i : row(i).path = dirs[i].path /\ row(i).id = dirs[i].id /\ row(i).at = i
  BY LoadedRows
<1>2. DOMAIN dirs = 1..Len(dirs) /\ DOMAIN rows = 1..Len(rows)
  OBVIOUS
<1>3. entryRows = { rows[k] : k \in 1..Len(rows) }
  BY <1>2 DEF Elements
<1>4. /\ EntriesFound(rd, id) = IF found = {} THEN {0} ELSE found
      /\ \A k, l \in found : k = l
  <2>1. EntryTable(rd) = rows
    OBVIOUS
  <2> DEFINE scan == { k \in DOMAIN rows : rows[k].id = id }
  <2>2. found = scan
    BY <1>2
  <2> HIDE DEF rd, found
  <2>3. /\ EntriesFound(rd, id) = IF scan = {} THEN {0} ELSE scan
        /\ \A k, l \in scan : k = l
    BY <2>1, IdSearch
  <2> HIDE DEF scan
  <2> QED BY <2>2, <2>3
<1>5. SessionFindById(id) = IF all = {} THEN {NotFound} ELSE all
  BY DEF SessionFindById
<1>6. FindById(rd, id) = { answer(k) : k \in EntriesFound(rd, id) }
  BY <1>2 DEF FindById
<1> HIDE DEF row, rd, answer, made
<1>7. namers = { row(i) : i \in naming }
  BY <1>1
<1>8. entries = { rows[k] : k \in found }
  BY <1>3
<1>9. \A k \in found : k # 0
  OBVIOUS
<1> HIDE DEF naming, found, namers, entries, all
<1>10. CASE naming = {}
  <2>1. all = {}
    BY <1>7, <1>10 DEF all
  <2>2. \A k : answer(k) = NotFound
    BY <1>10 DEF answer
  <2>3. EntriesFound(rd, id) # {}
    BY <1>4
  <2>4. FindById(rd, id) = {NotFound}
    BY <1>6, <2>2, <2>3
  <2> QED BY <1>5, <2>1, <2>4 DEF rd
<1>11. CASE naming # {} /\ found = {}
  <2>1. all = {}
    BY <1>8, <1>11 DEF all
  <2>2. FindById(rd, id) = {answer(0)} /\ answer(0) = NotFound
    BY <1>4, <1>6, <1>11 DEF answer
  <2> QED BY <1>5, <2>1, <2>2 DEF rd
<1>12. CASE naming # {} /\ found # {}
  <2>1. PICK k \in found : TRUE
    BY <1>12
  <2>2. EntriesFound(rd, id) = {k} /\ entries = {rows[k]} /\ k # 0
    <3>1. found = {k}
      BY <1>4, <2>1
    <3> QED BY <1>4, <1>8, <1>9, <3>1
  <2>3. naming \subseteq Nat
    BY DEF naming
  <2>4. first \in naming /\ \A j \in naming : first <= j
    BY <1>12, <2>3, LeastMember
  <2> HIDE DEF first
  <2>5. firsts = {row(first)}
    <3>1. ASSUME NEW d \in firsts PROVE d = row(first)
      <4>1. PICK i \in naming : d = row(i)
        BY <1>7
      <4>2. row(first) \in namers /\ d.at <= row(first).at
        BY <1>7, <2>4
      <4>3. i <= first /\ first <= i
        BY <1>1, <2>4, <4>1, <4>2
      <4>4. i = first
        BY <2>3, <2>4, <4>3
      <4> QED BY <4>1, <4>4
    <3>2. row(first) \in firsts
      <4>1. row(first) \in namers
        BY <1>7, <2>4
      <4>2. ASSUME NEW e \in namers PROVE row(first).at <= e.at
        <5>1. PICK j \in naming : e = row(j)
          BY <1>7
        <5> QED BY <1>1, <2>4, <5>1
      <4> QED BY <4>1, <4>2
    <3> QED BY <3>1, <3>2
  <2> DEFINE entry == made(dirs[first], rows[k])
  <2> HIDE DEF firsts
  <2>6. made(row(first), rows[k]) = entry
    BY <1>1 DEF made
  <2>7. all = {entry} \ {Corrupted}
    BY <2>2, <2>5, <2>6 DEF all
  <2>8. FindById(rd, id) = {answer(k)}
    BY <1>6, <2>2
  <2>9. answer(k) = IF entry = Corrupted THEN NotFound ELSE entry
    BY <1>12, <2>2 DEF answer
  <2> HIDE DEF entry
  <2>10. CASE entry = Corrupted
    BY <1>5, <2>7, <2>8, <2>9, <2>10 DEF rd
  <2>11. CASE entry # Corrupted
    BY <1>5, <2>7, <2>8, <2>9, <2>11 DEF rd
  <2> QED BY <2>10, <2>11
<1> QED BY <1>10, <1>11, <1>12

(***************************************************************************)
(* find_by_id names an entry by the first of its paths: in the order of the *)
(* file for a reader, in that of the vector for a writer.  After a sync the *)
(* two orders are one, and the two agree for every ID.                      *)
(***************************************************************************)
THEOREM IdsAgreeAlways == Spec => []IdsAgree
<1>1. ASSUME ReadInv, Clean, NEW id \in 1..MaxId
      PROVE  FindById(OnDisk, id) = SessionFindById(id)
  <2> DEFINE c == mmap.cells[mmap.cap - 1]
             dirs == c.dirs
             rows == c.entries
  <2>1. /\ Readable /\ dirEntries = LoadedDirs(dirs) /\ entryRows = Elements(rows)
        /\ OnDisk = InSession
    BY <1>1, CleanFacts
  <2>2. /\ dirs \in Seq(DirRow) /\ DirectoryTable(OnDisk) = dirs
        /\ rows \in Seq(EntryRow) /\ EntryTable(OnDisk) = rows /\ InIdOrder(rows)
    BY <1>1, <2>1, TablesRead
  <2>3. id \in Nat
    BY FormatAssumption
  <2> HIDE DEF c, dirs, rows
  <2> QED BY <2>1, <2>2, <2>3, IdAnswersAgree
<1>2. ReadInv => IdsAgree
  BY <1>1 DEF IdsAgree
<1> QED BY <1>2, ReadInvariance, PTL

\* The rows of a table with strictly rising IDs are all different.
LEMMA TableCardinality ==
  ASSUME NEW rows \in Seq(EntryRow), InIdOrder(rows)
  PROVE  Cardinality(Elements(rows)) = Len(rows)
<1> DEFINE n == Len(rows)
<1>1. n \in Nat /\ DOMAIN rows = 1..n /\ rows \in [1..n -> EntryRow]
  OBVIOUS
<1>2. ASSUME NEW i \in 1..n, NEW j \in 1..n, rows[i] = rows[j] PROVE i = j
  <2>1. rows[i].id \in Nat
    <3>1. rows[i] \in EntryRow
      OBVIOUS
    <3> QED BY <3>1, FormatAssumption DEF EntryRow
  <2>2. ~(i < j) /\ ~(j < i)
    BY <1>2, <2>1 DEF InIdOrder
  <2> QED BY <1>1, <2>2
<1>3. Elements(rows) = { rows[i] : i \in 1..n }
  BY <1>1 DEF Elements
<1> HIDE DEF n
<1>4. rows \in Bijection(1..n, Elements(rows))
  <2>1. rows \in [1..n -> Elements(rows)]
    BY <1>1, <1>3
  <2>2. rows \in Injection(1..n, Elements(rows))
    BY <1>2, <2>1 DEF Injection, IsInjective
  <2>3. rows \in Surjection(1..n, Elements(rows))
    BY <1>3, <2>1 DEF Surjection
  <2> QED BY <2>2, <2>3 DEF Bijection
<1>5. ExistsBijection(1..n, Elements(rows))
  BY <1>4 DEF ExistsBijection
<1>6. IsFiniteSet(1..n) /\ Cardinality(1..n) = n
  BY <1>1, FS_Interval
<1> QED BY <1>5, <1>6, FS_Bijection DEF n

(***************************************************************************)
(* verify_metadata_crc of a clean session slices the file by the number of  *)
(* rows in memory: it never reads beyond the content, and fails only where  *)
(* an add that failed has left the trailer in memory another than the       *)
(* file's.                                                                  *)
(***************************************************************************)
THEOREM CleanVerifiesAlways == Spec => []CleanVerifies
<1>1. ASSUME ReadInv, Clean
      PROVE  SessionMetadata = IF trailer = mmap.cells[mmap.cap - 1].trailer
                               THEN "ok" ELSE "mismatch"
  <2> DEFINE last == mmap.cap - 1
             c == mmap.cells[last]
  <2>1. /\ Readable /\ mmap.len = mmap.cap /\ entryRows = Elements(c.entries)
        /\ trailer = [c.trailer EXCEPT !.nextId = trailer.nextId]
    BY <1>1, CleanFacts
  <2>2. /\ c.entries \in Seq(EntryRow) /\ InIdOrder(c.entries)
        /\ last \in Index /\ mmap.cap \in Nat /\ TableOrdered(c) /\ c.trailer \in Trailer
    BY <1>1, <2>1, TablesRead
  <2>3. mmap.cells[0] = Header /\ c.t = "trailer" /\ TablesMatch(mmap.cells, c)
    BY <2>1 DEF Readable, ReaderAccepts, HasTrailer
  <2>4. Cardinality(entryRows) = Len(c.entries)
    BY <2>1, <2>2, TableCardinality
  <2>5. mmap.cells \in [Index -> Cell] /\ TrailerSound(mmap.cells, last)
    BY <1>1, <2>2 DEF ReadInv, FileInv, IInv, FileSound, TypeOK, Mapped
  <2>6. /\ Len(c.entries) \in Nat /\ Len(c.dirs) \in Nat
        /\ c.trailer.entryOff \in Nat /\ c.trailer.dirOff \in Nat
        /\ c.trailer.dirOff = c.trailer.entryOff + Len(c.entries)
        /\ last = c.trailer.dirOff + Len(c.dirs)
    BY <2>2, <2>3, <2>5, TablePlaces
  <2>7. c.trailer.dirCount = Len(c.dirs)
    BY <2>2 DEF TableOrdered
  <2>8. /\ trailer.entryOff = c.trailer.entryOff /\ trailer.dirOff = c.trailer.dirOff
        /\ trailer.dirCount = c.trailer.dirCount
    BY <2>1, <2>2 DEF Trailer
  <2>9. last = mmap.cap - 1
    OBVIOUS
  <2>10. c = mmap.cells[mmap.len - 1]
    BY <2>1
  <2> HIDE DEF c, last
  <2>11. /\ ~(trailer.entryOff + Len(c.entries) > mmap.len)
         /\ ~(trailer.dirOff + trailer.dirCount > mmap.len)
    BY <2>1, <2>2, <2>6, <2>7, <2>8, <2>9
  <2>12. SessionMetadata = IF trailer = c.trailer THEN "ok" ELSE "mismatch"
    BY <2>3, <2>4, <2>10, <2>11 DEF SessionMetadata
  <2> QED BY <2>12 DEF c, last
<1>2. ReadInv => CleanVerifies
  BY <1>1 DEF CleanVerifies
<1> QED BY <1>2, ReadInvariance, PTL

-----------------------------------------------------------------------------
(* Blocks that no entry has *)

\* The place is in no block of an entry.
Uncovered(o) == \A r \in entryRows : ~(r.off <= o /\ o < r.off + r.size)

LEMMA AlignedLeast ==
  ASSUME NEW n \in Nat, NEW m \in Nat, m % Alignment = 0, n <= m
  PROVE  Aligned(n) <= m
<1> DEFINE k == (n + Alignment - 1) \div Alignment
           l == m \div Alignment
<1>1. Alignment \in Nat \ {0}
  BY FormatAssumption
<1>2. /\ k \in Nat
      /\ n + Alignment - 1 = k * Alignment + ((n + Alignment - 1) % Alignment)
      /\ (n + Alignment - 1) % Alignment \in 0..(Alignment - 1)
  <2>1. n + Alignment - 1 \in Nat
    BY <1>1
  <2> QED BY <1>1, <2>1, DivMod
<1>3. l \in Nat /\ m = l * Alignment
  <2>1. l \in Nat /\ m = l * Alignment + (m % Alignment)
    BY <1>1, DivMod
  <2>2. l * Alignment \in Nat
    BY <1>1, <2>1, Multiple
  <2> QED BY <2>1, <2>2
<1>4. Aligned(n) = k * Alignment
  BY DEF Aligned
<1> HIDE DEF k, l
<1>5. CASE k <= l
  <2>1. k * Alignment <= l * Alignment
    BY <1>1, <1>2, <1>3, <1>5
  <2> QED BY <1>3, <1>4, <2>1
<1>6. CASE k >= l + 1
  <2>1. k * Alignment >= (l + 1) * Alignment
    BY <1>1, <1>2, <1>3, <1>6
  <2>2. (l + 1) * Alignment = l * Alignment + Alignment
    BY <1>1, <1>3
  <2>3. k * Alignment \in Nat /\ l * Alignment \in Nat
    BY <1>1, <1>2, <1>3, Multiple
  <2>4. k * Alignment <= n + Alignment - 1
    BY <1>1, <1>2, <2>3
  <2> QED BY <1>1, <1>3, <2>1, <2>2, <2>3, <2>4
<1> QED BY <1>2, <1>3, <1>5, <1>6

\* Where the blocks of a session are.
BlocksLie ==
    /\ Alignment \in Nat \ {0} /\ DiskSize \in Nat
    /\ writeOffset \in Nat /\ writeOffset <= DiskSize
    /\ \A r \in entryRows :
        /\ r.off \in Nat /\ r.size \in Nat
        /\ r.size = 0 => r.off = 0
        /\ r.size # 0 => /\ r.off >= 1
                         /\ r.off % Alignment = 0
                         /\ r.off + r.size <= writeOffset
        /\ \A s \in entryRows \ {r} : r.size # 0 /\ s.size # 0 =>
                r.off + r.size <= s.off \/ s.off + s.size <= r.off

LEMMA SessionBlocks ==
  ASSUME ReadInv, session = "open"
  PROVE  BlocksLie
<1>1. TypeOK /\ SeparateBlocks(entryRows, writeOffset) /\ Unplaced(entryRows)
  BY DEF ReadInv, FileInv, IInv, SessionSound, RowsSound
<1>2. \A r \in entryRows : r.off \in Nat /\ r.size \in Nat
  BY <1>1 DEF TypeOK, EntryRow
<1> QED BY <1>1, <1>2, FormatAssumption DEF BlocksLie, SeparateBlocks, HasBlock, Unplaced, TypeOK

\* Which boundary the walk goes to, and what it passes over.
LEMMA NextBoundary ==
  ASSUME BlocksLie, NEW o \in OffsetsInUse
  PROVE  LET b == BoundaryAfter(o)
         IN  /\ o \in Nat /\ o >= 1 /\ o % Alignment = 0 /\ o < writeOffset
             /\ b \in Nat /\ b > o /\ b % Alignment = 0
             /\ \A q \in Nat : q % Alignment = 0 /\ o <= q /\ q < b => ~Uncovered(q)
             /\ b \notin OffsetsInUse => Uncovered(b)
<1> DEFINE b == BoundaryAfter(o)
<1>1. PICK r \in entryRows : r.off = o /\ o # 0
  BY DEF OffsetsInUse
<1>2. /\ o \in Nat /\ o >= 1 /\ o % Alignment = 0
      /\ r.size \in Nat /\ r.size # 0 /\ o + r.size <= writeOffset
  BY <1>1 DEF BlocksLie
<1>3. { s.size : s \in { s \in entryRows : s.off = o } } \ {0} = {r.size}
  <2>1. ASSUME NEW s \in entryRows, s.off = o PROVE s = r
    BY <1>1, <1>2, <2>1 DEF BlocksLie
  <2> QED BY <1>1, <1>2, <2>1
<1>4. b = Aligned(o + r.size)
  BY <1>3 DEF BoundaryAfter
<1>5. o + r.size \in Nat
  BY <1>2
<1>6. b \in Nat /\ b >= o + r.size /\ b % Alignment = 0
  BY <1>4, <1>5, AlignedBound
<1>7. ASSUME NEW q \in Nat, q % Alignment = 0, o + r.size <= q PROVE b <= q
  BY <1>4, <1>5, <1>7, AlignedLeast
<1> HIDE DEF b
<1>8. ASSUME NEW q \in Nat, q % Alignment = 0, o <= q, q < b PROVE ~Uncovered(q)
  <2>1. q < o + r.size
    BY <1>2, <1>6, <1>7, <1>8
  <2> QED BY <1>1, <1>8, <2>1 DEF Uncovered
<1>9. ASSUME b \notin OffsetsInUse, NEW s \in entryRows, s.off <= b, b < s.off + s.size
      PROVE  FALSE
  <2>1. /\ s.off \in Nat /\ s.size \in Nat /\ s.size # 0
        /\ s.off >= 1 /\ s.off % Alignment = 0
    BY <1>6, <1>9 DEF BlocksLie
  <2>2. s.off # b
    BY <1>9, <2>1 DEF OffsetsInUse
  <2>3. s # r
    BY <1>1, <1>2, <1>6, <1>9
  <2>4. o + r.size <= s.off \/ s.off + s.size <= o
    BY <1>1, <1>2, <2>1, <2>3 DEF BlocksLie
  <2>5. CASE o + r.size <= s.off
    BY <1>6, <1>7, <1>9, <2>1, <2>2, <2>5
  <2>6. CASE s.off + s.size <= o
    BY <1>2, <1>6, <1>9, <2>1, <2>6
  <2> QED BY <2>4, <2>5, <2>6
<1>10. b > o /\ o < writeOffset
  BY <1>2, <1>6 DEF BlocksLie
<1> QED BY <1>2, <1>6, <1>8, <1>9, <1>10 DEF b, Uncovered

\* What the walk finds from o on, without a walk.
OrphanAhead(o) ==
    /\ o < writeOffset
    /\ o \in OffsetsInUse => \E q \in Boundaries(writeOffset) : o <= q /\ Uncovered(q)

\* The step of the walk, for whatever is found further on.
OrphanStep(ahead) ==
    [o \in 0..DiskSize |->
        /\ o < writeOffset
        /\ o \in OffsetsInUse => BoundaryAfter(o) <= DiskSize /\ ahead[BoundaryAfter(o)]]

LEMMA AheadIsStep ==
  ASSUME BlocksLie, NEW o \in 0..DiskSize
  PROVE  OrphanAhead(o) = ( /\ o < writeOffset
                            /\ o \in OffsetsInUse =>
                                  /\ BoundaryAfter(o) <= DiskSize
                                  /\ OrphanAhead(BoundaryAfter(o)) )
<1> DEFINE b == BoundaryAfter(o)
<1>1. CASE o \notin OffsetsInUse
  BY <1>1 DEF OrphanAhead
<1>2. CASE o \in OffsetsInUse
  <2>1. /\ o \in Nat /\ o >= 1 /\ o < writeOffset
        /\ b \in Nat /\ b > o /\ b % Alignment = 0
        /\ \A q \in Nat : q % Alignment = 0 /\ o <= q /\ q < b => ~Uncovered(q)
        /\ b \notin OffsetsInUse => Uncovered(b)
    BY <1>2, NextBoundary
  <2>2. writeOffset \in Nat /\ writeOffset <= DiskSize /\ DiskSize \in Nat
    BY DEF BlocksLie
  <2> HIDE DEF b
  <2>3. ASSUME NEW q \in Boundaries(writeOffset), o <= q, Uncovered(q)
        PROVE  b <= DiskSize /\ OrphanAhead(b)
    <3>1. q \in Nat /\ q % Alignment = 0 /\ q < writeOffset
      BY <2>2 DEF Boundaries
    <3>2. b <= q
      BY <2>1, <2>3, <3>1
    <3>3. b <= DiskSize /\ b < writeOffset
      BY <2>1, <2>2, <3>1, <3>2
    <3> QED BY <2>3, <3>2, <3>3 DEF OrphanAhead
  <2>4. ASSUME b <= DiskSize, OrphanAhead(b)
        PROVE  \E q \in Boundaries(writeOffset) : o <= q /\ Uncovered(q)
    <3>1. b < writeOffset
      BY <2>4 DEF OrphanAhead
    <3>2. b \in Boundaries(writeOffset) /\ o <= b
      BY <2>1, <2>2, <3>1 DEF Boundaries
    <3>3. CASE b \notin OffsetsInUse
      BY <2>1, <3>2, <3>3
    <3>4. CASE b \in OffsetsInUse
      <4>1. PICK q \in Boundaries(writeOffset) : b <= q /\ Uncovered(q)
        BY <2>4, <3>4 DEF OrphanAhead
      <4>2. q \in Int
        BY <2>2 DEF Boundaries
      <4>3. o <= q
        BY <2>1, <4>1, <4>2
      <4> QED BY <4>1, <4>3
    <3> QED BY <3>3, <3>4
  <2>5. OrphanAhead(o) = (\E q \in Boundaries(writeOffset) : o <= q /\ Uncovered(q))
    BY <1>2, <2>1 DEF OrphanAhead
  <2>6. (\E q \in Boundaries(writeOffset) : o <= q /\ Uncovered(q))
        <=> b <= DiskSize /\ OrphanAhead(b)
    BY <2>3, <2>4
  <2> QED BY <1>2, <2>1, <2>5, <2>6 DEF b
<1> QED BY <1>1, <1>2

LEMMA WalkIsStep ==
  ASSUME BlocksLie
  PROVE  OrphansFrom = OrphanStep(OrphansFrom)
<1> DEFINE found == [o \in 0..DiskSize |-> OrphanAhead(o)]
<1>1. ASSUME NEW o \in 0..DiskSize
      PROVE  found[o] = OrphanStep(found)[o]
  <2>1. o \in OffsetsInUse /\ BoundaryAfter(o) <= DiskSize =>
            found[BoundaryAfter(o)] = OrphanAhead(BoundaryAfter(o))
    <3>1. o \in OffsetsInUse => BoundaryAfter(o) \in Nat
      BY NextBoundary
    <3> QED BY <3>1 DEF BlocksLie
  <2>2. found[o] = OrphanAhead(o)
    OBVIOUS
  <2> HIDE DEF found
  <2> QED BY <2>1, <2>2, AheadIsStep DEF OrphanStep
<1>2. found = OrphanStep(found)
  <2>1. DOMAIN OrphanStep(found) = 0..DiskSize
        /\ OrphanStep(found) = [o \in 0..DiskSize |-> OrphanStep(found)[o]]
    BY DEF OrphanStep
  <2>2. found = [o \in 0..DiskSize |-> found[o]]
    OBVIOUS
  <2> HIDE DEF found
  <2> QED BY <1>1, <2>1, <2>2
<1>3. OrphansFrom = CHOOSE from : from = OrphanStep(from)
  BY DEF OrphansFrom, OrphanStep
<1> HIDE DEF found
<1> QED BY <1>2, <1>3

\* The walk passes over no boundary that is in no block, and stops at no other.
LEMMA WalkFinds ==
  ASSUME BlocksLie, NEW o \in 0..DiskSize
  PROVE  OrphansFrom[o] = OrphanAhead(o)
<1> DEFINE wrong == { k \in Nat : k <= DiskSize /\ OrphansFrom[DiskSize - k] # OrphanAhead(DiskSize - k) }
<1>1. DiskSize \in Nat
  BY DEF BlocksLie
<1>2. ASSUME wrong # {} PROVE FALSE
  <2>1. PICK m \in wrong : \A k \in wrong : m <= k
    BY <1>2, LeastMember
  <2>2. PICK p \in 0..DiskSize : p = DiskSize - m
    BY <1>1, <2>1
  <2>3. OrphansFrom[p] # OrphanAhead(p)
    BY <2>1, <2>2
  <2>4. ASSUME NEW q \in 0..DiskSize, q > p PROVE OrphansFrom[q] = OrphanAhead(q)
    <3>1. DiskSize - q \in Nat /\ DiskSize - q < m /\ DiskSize - (DiskSize - q) = q
      BY <1>1, <2>1, <2>2, <2>4
    <3>2. DiskSize - q \notin wrong
      BY <2>1, <3>1
    <3> QED BY <1>1, <3>1, <3>2
  <2> HIDE DEF wrong
  <2>5. OrphansFrom[p] = (/\ p < writeOffset
                          /\ p \in OffsetsInUse =>
                                /\ BoundaryAfter(p) <= DiskSize
                                /\ OrphansFrom[BoundaryAfter(p)])
    BY WalkIsStep DEF OrphanStep
  <2>6. p \in OffsetsInUse /\ BoundaryAfter(p) <= DiskSize =>
            OrphansFrom[BoundaryAfter(p)] = OrphanAhead(BoundaryAfter(p))
    <3>1. p \in OffsetsInUse => BoundaryAfter(p) \in Nat /\ BoundaryAfter(p) > p
      BY NextBoundary
    <3> QED BY <1>1, <2>4, <3>1
  <2> QED BY <2>3, <2>5, <2>6, AheadIsStep
<1>3. DiskSize - o \in Nat /\ DiskSize - o <= DiskSize /\ DiskSize - (DiskSize - o) = o
  BY <1>1
<1>4. OrphansFrom[o] # OrphanAhead(o) => DiskSize - o \in wrong
  BY <1>3
<1> HIDE DEF wrong
<1> QED BY <1>2, <1>4

\* The first boundary after the header is not in the middle of a block.
LEMMA OrphansFound ==
  ASSUME BlocksLie
  PROVE  SessionHasOrphans = \E q \in Boundaries(writeOffset) : Uncovered(q)
<1> DEFINE a == Aligned(1)
<1>1. a \in Nat /\ a >= 1 /\ a % Alignment = 0
  BY AlignedBound
<1>2. \A q \in Nat : q % Alignment = 0 /\ 1 <= q => a <= q
  BY AlignedLeast
<1>3. writeOffset \in Nat /\ writeOffset <= DiskSize /\ DiskSize \in Nat
  BY DEF BlocksLie
<1> HIDE DEF a
<1>4. SessionHasOrphans = (a <= DiskSize /\ OrphanAhead(a))
  <2>1. a <= DiskSize => OrphansFrom[a] = OrphanAhead(a)
    BY <1>1, <1>3, WalkFinds
  <2> QED BY <2>1 DEF SessionHasOrphans, a
<1>5. ASSUME NEW q \in Boundaries(writeOffset), Uncovered(q)
      PROVE  a <= DiskSize /\ OrphanAhead(a)
  <2>1. q \in Nat /\ q >= 1 /\ q % Alignment = 0 /\ q < writeOffset
    BY <1>3 DEF Boundaries
  <2>2. a <= q /\ a <= DiskSize /\ a < writeOffset
    BY <1>1, <1>2, <1>3, <2>1
  <2> QED BY <1>5, <2>2 DEF OrphanAhead
<1>6. ASSUME OrphanAhead(a)
      PROVE  \E q \in Boundaries(writeOffset) : Uncovered(q)
  <2>1. CASE a \in OffsetsInUse
    BY <1>6, <2>1 DEF OrphanAhead
  <2>2. CASE a \notin OffsetsInUse
    <3>1. a \in Boundaries(writeOffset)
      BY <1>1, <1>3, <1>6 DEF OrphanAhead, Boundaries
    <3>2. ASSUME NEW s \in entryRows, s.off <= a, a < s.off + s.size PROVE FALSE
      <4>1. /\ s.off \in Nat /\ s.size \in Nat /\ s.size # 0
            /\ s.off >= 1 /\ s.off % Alignment = 0
        BY <1>1, <3>2 DEF BlocksLie
      <4>2. s.off = a
        BY <1>1, <1>2, <3>2, <4>1
      <4> QED BY <2>2, <4>1, <4>2 DEF OffsetsInUse
    <3> QED BY <3>1, <3>2 DEF Uncovered
  <2> QED BY <2>1, <2>2
<1> QED BY <1>4, <1>5, <1>6

\* With nothing to sync the session's data ends where the tables on disk
\* begin, or at the boundary after, if a block that failed has moved it.
OffsetStored ==
    session = "open" /\ ~dirty =>
        /\ trailer.entryOff \in Nat
        /\ trailer.entryOff <= writeOffset
        /\ writeOffset <= Aligned(trailer.entryOff)

LEMMA BlockFailsOffset ==
  ASSUME writeOffset \in Nat, NEW e \in Nat, e <= writeOffset, writeOffset <= Aligned(e),
         NEW data, BlockFails(data)
  PROVE  e <= writeOffset' /\ writeOffset' <= Aligned(e)
<1>1. writeOffset' = writeOffset \/ writeOffset' = Aligned(writeOffset)
  BY DEF BlockFails
<1>2. Aligned(writeOffset) \in Nat /\ Aligned(writeOffset) >= writeOffset
  BY AlignedBound
<1>3. Aligned(e) \in Nat /\ Aligned(e) % Alignment = 0
  BY AlignedBound
<1>4. Aligned(writeOffset) <= Aligned(e)
  BY <1>3, AlignedLeast
<1> QED BY <1>1, <1>2, <1>3, <1>4

LEMMA StepOffset ==
  ASSUME ReadInv, OffsetStored, [Next]_vars
  PROVE  OffsetStored'
<1>1. TypeOK /\ writeOffset \in Nat
  BY FormatAssumption DEF ReadInv, FileInv, IInv, TypeOK
<1>2. CASE dirty' \/ session' # "open"
  BY <1>2 DEF OffsetStored
<1>3. CASE UNCHANGED <<session, dirty, trailer, writeOffset>>
  BY <1>3 DEF OffsetStored
<1>4. ASSUME NEW raw, NEW data, AddEntryFails(raw, data) \/ ReplaceContentFails(raw, data)
      PROVE  OffsetStored'
  <2>1. /\ BlockFails(data) /\ UNCHANGED <<session, dirty>>
        /\ trailer'.entryOff = trailer.entryOff
    BY <1>1, <1>4 DEF AddEntryFails, ReplaceContentFails, Spent, TypeOK, Trailer
  <2> QED BY <1>1, <2>1, BlockFailsOffset DEF OffsetStored
<1>5. CASE OpenIntact
  <2> DEFINE c == mmap.cells[mmap.cap - 1]
  <2>1. /\ mmap.cap - 1 \in Index /\ c.t = "trailer"
        /\ trailer' = c.trailer /\ writeOffset' = c.trailer.entryOff
    BY <1>1, <1>5, FormatAssumption DEF OpenIntact, HasTrailer, MinArchiveSize, TypeOK, Mapped, Index
  <2>2. c \in Cell
    BY <1>1, <2>1 DEF TypeOK, Mapped
  <2>3. c.trailer \in Trailer
    BY <2>1, <2>2 DEF Cell
  <2>4. c.trailer.entryOff \in Nat
    BY <2>3, FormatAssumption DEF Trailer
  <2> QED BY <2>1, <2>4, AlignedBound DEF OffsetStored
<1>6. CASE Sync
  <2>1. trailer'.entryOff = writeOffset /\ writeOffset' = writeOffset
    BY <1>6 DEF Sync, SyncedTrailer
  <2> QED BY <1>1, <2>1, AlignedBound DEF OffsetStored
<1>7. CASE Operation
  <2>1. ASSUME NEW raw, NEW to, NEW kind, NEW data,
               \/ AddEntry(raw, kind, data) \/ ReplaceContent(raw, data)
               \/ Delete(raw) \/ Unlink(raw) \/ HardLink(raw, to) \/ Rename(raw, to)
        PROVE  dirty'
    BY <2>1 DEF AddEntry, ReplaceContent, Delete, Unlink, HardLink, Rename
  <2> QED BY <1>2, <1>4, <1>7, <2>1 DEF Operation
<1>8. CASE \/ Create \/ OpenDamaged \/ SyncFails \/ SyncCrash \/ Drop \/ Crash
  BY <1>2, <1>8 DEF Create, OpenDamaged, SyncFails, SyncCrash, Drop, Crash, NoSession
<1>9. CASE OpenRejected \/ UNCHANGED vars
  BY <1>3, <1>9 DEF OpenRejected, vars
<1> QED BY <1>5, <1>6, <1>7, <1>8, <1>9 DEF Next

LEMMA OffsetInvariance == Spec => []OffsetStored
<1>1. Init => OffsetStored
  BY DEF Init, OffsetStored
<1> QED BY <1>1, StepOffset, ReadInvariance, PTL DEF Spec

(***************************************************************************)
(* has_orphaned_data of a session finds a boundary that no block of an      *)
(* entry covers if there is one, though it goes from block to block; and    *)
(* what it reports of a clean session, a reader of the file reports too.    *)
(***************************************************************************)
THEOREM OrphansAreSeen == Spec => []OrphansSeen
<1>1. ASSUME ReadInv, session = "open"
      PROVE  SessionHasOrphans = \E o \in Boundaries(writeOffset) : Uncovered(o)
  BY <1>1, SessionBlocks, OrphansFound
<1>2. ASSUME ReadInv, OffsetStored, Clean, SessionHasOrphans
      PROVE  HasOrphanedData(OnDisk)
  <2> DEFINE c == mmap.cells[mmap.cap - 1]
             end == c.trailer.entryOff
  <2>1. /\ Readable /\ entryRows = Elements(c.entries)
        /\ trailer = [c.trailer EXCEPT !.nextId = trailer.nextId]
    BY <1>2, CleanFacts
  <2>2. /\ EntryTable(OnDisk) = c.entries /\ TrailerOf(OnDisk) = c.trailer
        /\ c.trailer \in Trailer /\ end \in Nat
    BY <1>2, <2>1, TablesRead
  <2>3. trailer.entryOff = end
    BY <2>1, <2>2 DEF Trailer
  <2>4. session = "open" /\ ~dirty
    BY <1>2 DEF Clean
  <2>5. end <= writeOffset /\ writeOffset <= Aligned(end) /\ BlocksLie
    BY <1>2, <2>3, <2>4, SessionBlocks DEF OffsetStored
  <2>6. PICK o \in Boundaries(writeOffset) : Uncovered(o)
    BY <1>1, <1>2, <2>4
  <2> HIDE DEF c, end
  <2>7. o \in Nat /\ o >= 1 /\ o % Alignment = 0 /\ o < writeOffset
    BY <2>5 DEF BlocksLie, Boundaries
  <2>8. o < end
    <3>1. end <= o => Aligned(end) <= o
      BY <2>2, <2>7, AlignedLeast
    <3>2. writeOffset \in Nat /\ Aligned(end) \in Nat
      BY <2>2, <2>5, AlignedBound DEF BlocksLie
    <3> QED BY <2>2, <2>5, <2>7, <3>1, <3>2
  <2>9. o \in Boundaries(end)
    BY <2>2, <2>7, <2>8 DEF Boundaries
  <2>10. ASSUME NEW r \in entryRows, r.off = o PROVE FALSE
    <3>1. r.size \in Nat /\ r.size # 0
      BY <2>5, <2>7, <2>10 DEF BlocksLie
    <3> QED BY <2>6, <2>7, <2>10, <3>1 DEF Uncovered
  <2>11. o \notin { r.off : r \in Elements(EntryTable(OnDisk)) }
    BY <2>1, <2>2, <2>10 DEF c
  <2> QED BY <2>2, <2>9, <2>11 DEF HasOrphanedData, end
<1>3. ReadInv /\ OffsetStored => OrphansSeen
  BY <1>1, <1>2 DEF OrphansSeen, Uncovered
<1> QED BY <1>3, ReadInvariance, OffsetInvariance, PTL

=============================================================================
