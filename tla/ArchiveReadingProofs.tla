------------------------ MODULE ArchiveReadingProofs ------------------------
(***************************************************************************)
(* What readers are told, proved for every value of the constants: that the *)
(* order of the tables, which only sync establishes, is there in every      *)
(* trailer of the file, and that a clean session and a reader see the same. *)
(***************************************************************************)
EXTENDS ArchiveReading, ArchiveWriterSafety

-----------------------------------------------------------------------------
(* The order of paths *)

LEMMA PathComponents ==
  ASSUME NEW p \in Path
  PROVE  p \in Seq(Names) /\ p \in Seq(Int) /\ Len(p) \in 1..PathSize
<1>1. p \in Seq(Names) /\ Len(p) \in 1..PathSize
  BY DEF Path
<1>2. ASSUME NEW i \in 1..Len(p) PROVE p[i] \in Int
  <2>1. p[i] \in Names
    BY <1>1
  <2>2. p[i] \in Nat
    BY <2>1, PathAssumption
  <2> QED BY <2>2
<1>3. p = [i \in 1..Len(p) |-> p[i]] /\ Len(p) \in Nat
  BY <1>1
<1>4. p \in [1..Len(p) -> Int]
  BY <1>2, <1>3
<1>5. p \in Seq(Int)
  BY <1>3, <1>4
<1> QED BY <1>1, <1>5

LEMMA PathLessTransitive ==
  ASSUME NEW p \in Seq(Int), NEW q \in Seq(Int), NEW r \in Seq(Int),
         PathLess(p, q), PathLess(q, r)
  PROVE  PathLess(p, r)
<1>1. PICK i \in 1..Len(q) : /\ i <= Len(p) + 1
                             /\ \A j \in 1..(i - 1) : p[j] = q[j]
                             /\ i <= Len(p) => p[i] < q[i]
  BY DEF PathLess
<1>2. PICK k \in 1..Len(r) : /\ k <= Len(q) + 1
                             /\ \A j \in 1..(k - 1) : q[j] = r[j]
                             /\ k <= Len(q) => q[k] < r[k]
  BY DEF PathLess
<1>3. /\ Len(p) \in Nat /\ Len(q) \in Nat /\ Len(r) \in Nat
      /\ \A j \in 1..Len(p) : p[j] \in Int
      /\ \A j \in 1..Len(q) : q[j] \in Int
      /\ \A j \in 1..Len(r) : r[j] \in Int
  OBVIOUS
<1>4. CASE i < k
  <2>1. /\ i \in 1..Len(r) /\ i <= Len(p) + 1
        /\ \A j \in 1..(i - 1) : p[j] = r[j]
        /\ i <= Len(p) => p[i] < r[i]
    BY <1>1, <1>2, <1>3, <1>4
  <2> QED BY <2>1 DEF PathLess
<1>5. CASE i = k
  <2>1. /\ i \in 1..Len(r) /\ i <= Len(p) + 1
        /\ \A j \in 1..(i - 1) : p[j] = r[j]
        /\ i <= Len(p) => p[i] < r[i]
    BY <1>1, <1>2, <1>3, <1>5
  <2> QED BY <2>1 DEF PathLess
<1>6. CASE k < i
  <2>1. /\ k \in 1..Len(r) /\ k <= Len(p) + 1
        /\ \A j \in 1..(k - 1) : p[j] = r[j]
        /\ k <= Len(p) => p[k] < r[k]
    <3>1. k \in Nat /\ i \in Nat /\ k \in 1..(i - 1) /\ k <= Len(q) /\ k <= Len(p)
      BY <1>1, <1>2, <1>3, <1>6
    <3>2. p[k] = q[k] /\ q[k] < r[k]
      BY <1>1, <1>2, <3>1
    <3>3. ASSUME NEW j \in 1..(k - 1) PROVE p[j] = r[j]
      <4>1. j \in 1..(i - 1)
        BY <3>1
      <4> QED BY <1>1, <1>2, <4>1
    <3> QED BY <1>2, <1>3, <3>1, <3>2, <3>3
  <2> QED BY <2>1 DEF PathLess
<1> QED BY <1>3, <1>4, <1>5, <1>6

LEMMA PathLessIrreflexive ==
  ASSUME NEW p \in Seq(Int)
  PROVE  ~PathLess(p, p)
<1>1. \A j \in 1..Len(p) : p[j] \in Int
  OBVIOUS
<1> QED BY <1>1 DEF PathLess

-----------------------------------------------------------------------------
(* The tables that sync writes are in order *)

LEMMA EntryTableStrict ==
  ASSUME IInv, session = "open", NEW et \in EntryTables
  PROVE  \A i, j \in 1..Len(et) : i < j => et[i].id < et[j].id
<1> DEFINE n == Cardinality(entryRows)
<1>1. IsFiniteSet(entryRows) /\ n \in Nat /\ entryRows \in SUBSET EntryRow
  BY FS_CardinalityType DEF IInv, TypeOK
<1>2. /\ et \in [1..n -> entryRows] /\ Elements(et) = entryRows
      /\ \A i, j \in 1..n : i < j => et[i].id <= et[j].id
  BY DEF EntryTables
<1>3. IsFiniteSet(1..n) /\ Cardinality(1..n) = n
  BY <1>1, FS_Interval
<1>4. Len(et) = n /\ et \in Surjection(1..n, entryRows)
  BY <1>1, <1>2 DEF Surjection, Elements
<1> HIDE DEF n
<1>5. et \in Injection(1..n, entryRows)
  BY <1>1, <1>3, <1>4, FS_Surjection DEF n
<1>6. \A i, j \in 1..n : i # j => et[i] # et[j]
  BY <1>5 DEF Injection, IsInjective
<1>7. \A r, s \in entryRows : r.id = s.id => r = s
  BY OpenFacts DEF RowsSound, UniqueIds
<1>8. \A r \in entryRows : r.id \in Nat
  BY OpenFacts
<1>9. ASSUME NEW i \in 1..n, NEW j \in 1..n, i < j PROVE et[i].id < et[j].id
  <2>1. et[i] \in entryRows /\ et[j] \in entryRows /\ i # j
    BY <1>1, <1>2, <1>9
  <2>2. et[i].id # et[j].id
    BY <1>6, <1>7, <2>1
  <2>3. et[i].id <= et[j].id /\ et[i].id \in Nat /\ et[j].id \in Nat
    BY <1>2, <1>8, <1>9, <2>1
  <2> QED BY <2>2, <2>3
<1> QED BY <1>4, <1>9

LEMMA SyncedOrdered ==
  ASSUME IInv, Unplaced(entryRows), session = "open", NEW et \in EntryTables, NEW dt \in DirTables
  PROVE  TableOrdered(TrailerCell(SyncedTrailer(et, dt), et, DirRowsOf(dt)))
<1> DEFINE c == TrailerCell(SyncedTrailer(et, dt), et, DirRowsOf(dt))
<1>1. c.trailer = SyncedTrailer(et, dt) /\ c.entries = et /\ c.dirs = DirRowsOf(dt)
  BY DEF TrailerCell
<1>2. /\ Len(DirRowsOf(dt)) = Len(dt)
      /\ \A i \in 1..Len(dt) : DirRowsOf(dt)[i] = [path |-> dt[i].path, id |-> dt[i].id]
  BY DirTableType DEF IInv
<1>3. SyncedTrailer(et, dt).entryCount = Len(et) /\ SyncedTrailer(et, dt).dirCount = Len(dt)
  BY DEF SyncedTrailer
<1>4. \A i, j \in 1..Len(et) : i < j => et[i].id < et[j].id
  BY EntryTableStrict
<1>5. ASSUME NEW i \in 1..Len(dt) PROVE DirRowsOf(dt)[i].path = dt[i].path
  <2>1. DirRowsOf(dt)[i] = [path |-> dt[i].path, id |-> dt[i].id]
    BY <1>2
  <2> QED BY <2>1
<1>6. DOMAIN dt = 1..Len(dt)
  BY DirTableType DEF IInv
<1>7. \A i, j \in 1..Len(dt) : i < j =>
          PathLess(dt[i].path, dt[j].path) \/ dt[i].path = dt[j].path
  BY <1>6 DEF DirTables
<1> HIDE DEF c
<1>8. \A i, j \in 1..Len(c.dirs) : i < j =>
          PathLess(c.dirs[i].path, c.dirs[j].path) \/ c.dirs[i].path = c.dirs[j].path
  BY <1>1, <1>2, <1>5, <1>7
<1>9. Elements(et) = entryRows
  BY EntryTableType DEF IInv
<1>10. TableOrdered(c)
  BY <1>1, <1>2, <1>3, <1>4, <1>8, <1>9 DEF TableOrdered
<1> QED BY <1>10 DEF c

-----------------------------------------------------------------------------
(* The operations of a session *)

\* The trailers and the header of a file that a session's step leaves.
LEMMA FileStaysRead ==
  ASSUME ReadInv, session = "open", mmap'.committed = mmap.committed,
         Agree(mmap.cells, mmap'.cells, writeOffset),
         NoNewTrailer(mmap.cells, mmap'.cells)
  PROVE  AllOrdered' /\ AllCommitted' /\ HasHeader'
<1>1. AllOrdered'
  BY DEF ReadInv, FileInv, AllOrdered, NoNewTrailer
<1>2. AllCommitted'
  BY DEF ReadInv, FileInv, AllCommitted, NoNewTrailer
<1>3. HasHeader'
  <2>1. 1 <= writeOffset /\ writeOffset \in Nat
    BY OpenFacts DEF ReadInv, FileInv
  <2>2. 0 \in Index
    BY FormatAssumption DEF Index
  <2>3. mmap'.cells[0] = mmap.cells[0]
    BY <2>1, <2>2 DEF Agree
  <2> QED BY <2>3 DEF ReadInv, FileInv, HasHeader
<1> QED BY <1>1, <1>2, <1>3

LEMMA TableStepRead ==
  ASSUME ReadInv, FileInv', session = "open", session' = "open", mmap' = mmap, dirty'
  PROVE  ReadInv'
<1>1. Agree(mmap.cells, mmap'.cells, writeOffset) /\ NoNewTrailer(mmap.cells, mmap'.cells)
  BY DEF Agree, NoNewTrailer
<1> QED BY <1>1, FileStaysRead DEF ReadInv, FileInv, CleanStored

LEMMA BlockStepRead ==
  ASSUME ReadInv, FileInv', session = "open", session' = "open", dirty',
         NEW data \in Data, NEW off \in BlockOffsets, StoresBlock(data, off)
  PROVE  ReadInv'
<1>1. Agree(mmap.cells, mmap'.cells, writeOffset) /\ NoNewTrailer(mmap.cells, mmap'.cells)
  BY WriterAssumption, OpenFacts, StoresBlockWrites DEF ReadInv, FileInv
<1>2. mmap'.committed = mmap.committed
  BY DEF StoresBlock, Extend, SetLen
<1> QED BY <1>1, <1>2, FileStaysRead DEF ReadInv, FileInv, CleanStored

LEMMA AlignedTwice ==
  ASSUME NEW n \in Nat
  PROVE  Aligned(Aligned(n)) = Aligned(n)
<1> DEFINE k == (n + Alignment - 1) \div Alignment
           a == k * Alignment
           l == (a + Alignment - 1) \div Alignment
<1>1. Alignment \in Nat \ {0}
  BY FormatAssumption
<1>2. k \in Nat
  BY <1>1, DivMod, n + Alignment - 1 \in Nat
<1>3. Aligned(n) = a
  BY DEF Aligned
<1>4. Aligned(a) = l * Alignment
  BY DEF Aligned
<1> HIDE DEF k
<1>5. a \in Nat
  BY <1>1, <1>2, Multiple
<1>6. /\ l \in Nat
      /\ a + Alignment - 1 = l * Alignment + ((a + Alignment - 1) % Alignment)
      /\ (a + Alignment - 1) % Alignment \in 0..(Alignment - 1)
  <2>1. a + Alignment - 1 \in Nat
    BY <1>1, <1>5
  <2> QED BY <1>1, <2>1, DivMod
<1> HIDE DEF l
<1>7. l * Alignment \in Nat /\ l * Alignment <= a + Alignment - 1 /\ a <= l * Alignment
  <2>1. l * Alignment \in Nat
    BY <1>1, <1>6, Multiple
  <2> QED BY <1>1, <1>5, <1>6, <2>1
<1>8. CASE l <= k
  <2>1. l * Alignment <= k * Alignment
    BY <1>1, <1>2, <1>6, <1>8
  <2> QED BY <1>3, <1>4, <1>5, <1>7, <2>1
<1>9. CASE l >= k + 1
  <2>1. l * Alignment >= (k + 1) * Alignment
    BY <1>1, <1>2, <1>6, <1>9
  <2>2. (k + 1) * Alignment = k * Alignment + Alignment
    BY <1>1, <1>2
  <2> QED BY <1>1, <1>5, <1>7, <2>1, <2>2
<1> QED BY <1>2, <1>6, <1>8, <1>9

\* Where the parts of a trailer's tables lie.
LEMMA TablePlaces ==
  ASSUME NEW cells \in [Index -> Cell], NEW p \in Index,
         cells[p].t = "trailer", TrailerSound(cells, p)
  PROVE  LET c == cells[p]
         IN  /\ c.trailer \in Trailer
             /\ c.entries \in Seq(EntryRow) /\ c.dirs \in Seq(DirRow)
             /\ Len(c.entries) \in Nat /\ Len(c.dirs) \in Nat
             /\ c.trailer.entryOff \in Nat /\ 1 <= c.trailer.entryOff
             /\ c.trailer.dirOff \in Nat
             /\ c.trailer.dirOff = c.trailer.entryOff + Len(c.entries)
             /\ p = c.trailer.dirOff + Len(c.dirs)
             /\ \A i \in 1..Len(c.entries) :
                    c.trailer.entryOff + i - 1 \in Index /\ c.trailer.entryOff + i - 1 < p
             /\ \A i \in 1..Len(c.dirs) :
                    c.trailer.dirOff + i - 1 \in Index /\ c.trailer.dirOff + i - 1 < p
<1> DEFINE c == cells[p]
<1>1. c \in Cell /\ c.t = "trailer"
  OBVIOUS
<1>2. /\ 1 <= c.trailer.entryOff
      /\ c.trailer.dirOff = c.trailer.entryOff + Len(c.entries)
      /\ p = c.trailer.dirOff + Len(c.dirs)
  BY <1>1 DEF TrailerSound
<1> HIDE DEF c
<1>3. c.trailer \in Trailer /\ c.entries \in Seq(EntryRow) /\ c.dirs \in Seq(DirRow)
  BY <1>1, TrailerCellType
<1>4. c.trailer.entryOff \in Nat /\ c.trailer.dirOff \in Nat /\ DiskSize \in Nat
  BY <1>3, FormatAssumption DEF Trailer
<1>5. Len(c.entries) \in Nat /\ Len(c.dirs) \in Nat
  BY <1>3
<1> DEFINE e == c.trailer.entryOff
           d == c.trailer.dirOff
           m == Len(c.entries)
           n == Len(c.dirs)
<1>6. e \in Nat /\ d \in Nat /\ m \in Nat /\ n \in Nat /\ d = e + m /\ p = d + n
  BY <1>2, <1>4, <1>5
<1> HIDE DEF e, d, m, n
<1>7. p \in 0..(DiskSize - 1)
  BY DEF Index
<1>8. /\ \A i \in 1..m : e + i - 1 \in 0..(DiskSize - 1) /\ e + i - 1 < p
      /\ \A i \in 1..n : d + i - 1 \in 0..(DiskSize - 1) /\ d + i - 1 < p
  BY <1>4, <1>6, <1>7
<1> QED BY <1>2, <1>3, <1>4, <1>5, <1>8 DEF c, e, d, m, n, Index

\* The tables are those of the trailer in any file that agrees up to it.
LEMMA TablesStayMatched ==
  ASSUME NEW cells \in [Index -> Cell], NEW p \in Index, NEW other,
         cells[p].t = "trailer", TrailerSound(cells, p),
         TablesMatch(cells, cells[p]), Agree(cells, other, p + 1)
  PROVE  TablesMatch(other, cells[p])
<1> DEFINE c == cells[p]
<1>1. p \in Nat /\ p < p + 1
  BY FormatAssumption DEF Index
<1>2. /\ c.trailer.entryOff \in Nat /\ c.trailer.dirOff \in Nat
      /\ \A i \in 1..Len(c.entries) :
            c.trailer.entryOff + i - 1 \in Index /\ c.trailer.entryOff + i - 1 < p
      /\ \A i \in 1..Len(c.dirs) :
            c.trailer.dirOff + i - 1 \in Index /\ c.trailer.dirOff + i - 1 < p
  BY TablePlaces
<1>3. TablesMatch(cells, c)
  OBVIOUS
<1> HIDE DEF c
<1>4. \A k \in Index : k < p => other[k] = cells[k]
  BY <1>1, FormatAssumption DEF Agree, Index
<1>5. ASSUME NEW i \in 1..Len(c.entries)
      PROVE  other[c.trailer.entryOff + i - 1] = EntryCell(c.entries[i])
  BY <1>2, <1>3, <1>4 DEF TablesMatch
<1>6. ASSUME NEW i \in 1..Len(c.dirs)
      PROVE  other[c.trailer.dirOff + i - 1] = DirCell(c.dirs[i])
  BY <1>2, <1>3, <1>4 DEF TablesMatch
<1>7. TablesMatch(other, c)
  BY <1>5, <1>6 DEF TablesMatch
<1> QED BY <1>7 DEF c

\* A block that cannot be written leaves what was committed as it was.
LEMMA FailedBlockRead ==
  ASSUME ReadInv, FileInv', session = "open", session' = "open",
         NEW data \in Data, BlockFails(data),
         UNCHANGED <<dirty, entryRows, dirEntries>>,
         NEW id, trailer' = [trailer EXCEPT !.nextId = id]
  PROVE  ReadInv'
<1> DEFINE off == Aligned(writeOffset)
<1>1. /\ TypeOK /\ mmap \in Mapped /\ mmap.cells \in [Index -> Cell]
      /\ mmap.len \in Nat /\ mmap.committed \in Nat /\ mmap.cap \in Nat
      /\ mmap.committed <= DiskSize
      /\ writeOffset \in Nat /\ DiskSize \in Nat /\ trailer \in Trailer
      /\ 1 <= writeOffset /\ writeOffset <= mmap.len
      /\ ZeroBeyond(mmap.cells, mmap.cap)
  BY OpenFacts, FormatAssumption DEF ReadInv, FileInv, IInv, TypeOK, Mapped
<1>2. Agree(mmap.cells, mmap'.cells, writeOffset) /\ NoNewTrailer(mmap.cells, mmap'.cells)
  BY <1>1, WriterAssumption, BlockFailsWrites
<1>3. mmap'.committed = mmap.committed
  BY DEF BlockFails, SetLen
<1>4. AllOrdered' /\ AllCommitted' /\ HasHeader'
  BY <1>2, <1>3, FileStaysRead
<1>5. ASSUME ~dirty PROVE SessionStored'
  <2> DEFINE last == mmap.committed - 1
             c == mmap.cells[last]
  <2>1. /\ mmap.committed >= MinArchiveSize /\ c.t = "trailer"
        /\ TablesMatch(mmap.cells, c)
        /\ entryRows = Elements(c.entries)
        /\ dirEntries = LoadedDirs(c.dirs)
        /\ trailer = [c.trailer EXCEPT !.nextId = trailer.nextId]
        /\ mmap.len = mmap.committed => mmap.cap = mmap.committed
        /\ mmap.len # mmap.committed =>
                writeOffset = mmap.len /\ Aligned(writeOffset) = writeOffset
    BY <1>5 DEF ReadInv, FileInv, CleanStored, SessionStored
  <2>2. last \in Index /\ last + 1 = mmap.committed
    BY <1>1, <2>1 DEF MinArchiveSize, Index
  <2>3. TrailerSound(mmap.cells, last)
    BY <2>2 DEF ReadInv, FileInv, IInv, FileSound
  <2>4. trailer' = [c.trailer EXCEPT !.nextId = trailer'.nextId]
    <3>1. c.trailer \in Trailer
      BY <1>1, <2>1, <2>2, <2>3, TablePlaces
    <3> HIDE DEF c
    <3> QED BY <1>1, <2>1, <3>1 DEF Trailer
  <2>5. CASE UNCHANGED <<mmap, writeOffset>>
    <3> HIDE DEF c, last
    <3> QED BY <2>1, <2>4, <2>5 DEF SessionStored, c, last
  <2>6. CASE /\ off <= DiskSize /\ Fits(mmap, off)
             /\ mmap' = SetLen(mmap, off) /\ writeOffset' = off
    <3>1. off \in Nat /\ off \in 0..DiskSize
      BY <1>1, <2>6, AlignedBound
    <3>2. /\ mmap'.len = off /\ mmap'.cap = Reserved(mmap, off)
          /\ \A i \in Index :
                mmap'.cells[i] = IF i \in mmap.len..(off - 1) THEN Zero ELSE mmap.cells[i]
      BY <1>1, <2>6, <3>1, SetLenEffect
    <3>3. mmap.len # mmap.committed => off = mmap.len
      BY <2>1
    <3> HIDE DEF off
    <3>4. Agree(mmap.cells, mmap'.cells, mmap.committed)
      BY <1>1, <3>1, <3>2, <3>3 DEF Agree, Index
    <3>5. TablesMatch(mmap'.cells, c)
      BY <1>1, <2>1, <2>2, <2>3, <3>4, TablesStayMatched
    <3>6. mmap'.cells[last] = c
      BY <1>1, <2>2, <3>4 DEF Agree
    <3>7. mmap'.len = mmap.committed => mmap'.cap = mmap.committed
      <4>1. SUFFICES ASSUME off = mmap.committed PROVE mmap'.cap = mmap.committed
        BY <3>2
      <4>2. mmap.len = mmap.committed
        BY <3>3, <4>1
      <4>3. mmap.cap = mmap.committed
        BY <2>1, <4>2
      <4> QED BY <1>1, <3>2, <4>1, <4>3 DEF Reserved
    <3>8. writeOffset' = mmap'.len /\ Aligned(writeOffset') = writeOffset'
      BY <1>1, <2>6, <3>2, AlignedTwice DEF off
    <3> HIDE DEF c, last
    <3> QED BY <1>3, <2>1, <2>4, <3>5, <3>6, <3>7, <3>8 DEF SessionStored, c, last
  <2> QED BY <2>5, <2>6 DEF BlockFails
<1> QED BY <1>4, <1>5 DEF ReadInv, FileInv, CleanStored

LEMMA OperationRead ==
  ASSUME ReadInv, FileInv', Operation
  PROVE  ReadInv'
<1>1. ASSUME NEW raw \in RawPaths, NEW kind \in Kind, NEW data \in Data,
             AddEntry(raw, kind, data)
      PROVE  ReadInv'
  <2>1. PICK off \in BlockOffsets : StoresBlock(data, off)
    BY <1>1 DEF AddEntry
  <2>2. session = "open" /\ session' = "open" /\ dirty'
    BY <1>1 DEF AddEntry
  <2> QED BY <2>1, <2>2, BlockStepRead
<1>2. ASSUME NEW raw \in RawPaths, NEW data \in Data, ReplaceContent(raw, data)
      PROVE  ReadInv'
  <2>1. PICK off \in BlockOffsets : StoresBlock(data, off)
    BY <1>2 DEF ReplaceContent
  <2>2. session = "open" /\ session' = "open" /\ dirty'
    BY <1>2 DEF ReplaceContent
  <2> QED BY <2>1, <2>2, BlockStepRead
<1>3. ASSUME NEW raw \in RawPaths, NEW data \in Data, AddEntryFails(raw, data)
      PROVE  ReadInv'
  <2>1. trailer' = [trailer EXCEPT !.nextId = trailer.nextId + 1]
    BY <1>3 DEF AddEntryFails, Spent
  <2>2. /\ session = "open" /\ session' = "open" /\ BlockFails(data)
        /\ UNCHANGED <<dirty, entryRows, dirEntries>>
    BY <1>3 DEF AddEntryFails
  <2> QED BY <2>1, <2>2, FailedBlockRead
<1>4. ASSUME NEW raw \in RawPaths, NEW data \in Data, ReplaceContentFails(raw, data)
      PROVE  ReadInv'
  <2>1. /\ session = "open" /\ session' = "open" /\ BlockFails(data)
        /\ UNCHANGED <<trailer, dirty, entryRows, dirEntries>>
    BY <1>4 DEF ReplaceContentFails
  <2>2. trailer' = [trailer EXCEPT !.nextId = trailer.nextId]
    BY <2>1 DEF ReadInv, FileInv, IInv, TypeOK, Trailer
  <2> QED BY <2>1, <2>2, FailedBlockRead
<1>5. ASSUME NEW raw \in RawPaths, Delete(raw) PROVE ReadInv'
  BY <1>5, TableStepRead DEF Delete
<1>6. ASSUME NEW raw \in RawPaths, Unlink(raw) PROVE ReadInv'
  BY <1>6, TableStepRead DEF Unlink
<1>7. ASSUME NEW raw \in RawPaths, NEW to \in RawPaths, HardLink(raw, to)
      PROVE  ReadInv'
  BY <1>7, TableStepRead DEF HardLink
<1>8. ASSUME NEW raw \in RawPaths, NEW to \in RawPaths, Rename(raw, to)
      PROVE  ReadInv'
  BY <1>8, TableStepRead DEF Rename
<1> QED BY <1>1, <1>2, <1>3, <1>4, <1>5, <1>6, <1>7, <1>8 DEF Operation

-----------------------------------------------------------------------------
(* Opening and closing *)

LEMMA CreateRead == ReadInv /\ Create /\ FileInv' => ReadInv'
<1> SUFFICES ASSUME ReadInv, Create, FileInv' PROVE ReadInv'
  OBVIOUS
<1>1. mmap' = Extend(MapNew, <<Header>>) /\ session' = "open" /\ dirty'
  BY DEF Create
<1>2. \A i \in Index : mmap'.cells[i] = IF i = 0 THEN Header ELSE Zero
  BY <1>1, FormatAssumption DEF Extend, MapNew, NoFile, Index
<1>3. \A i \in Index : mmap'.cells[i].t # "trailer"
  BY <1>2 DEF Header, Zero
<1>4. 0 \in Index
  BY FormatAssumption DEF Index
<1> QED BY <1>1, <1>2, <1>3, <1>4 DEF ReadInv, FileInv, AllOrdered, AllCommitted, HasHeader, CleanStored

\* A file that is opened, or whose session has ended, and holds no more than it did.
LEMMA OpenedRead ==
  ASSUME ReadInv, HasTrailer(mmap.cells, mmap.cap), mmap' = MapOpen(mmap)
  PROVE  AllOrdered' /\ AllCommitted' /\ HasHeader'
<1>1. mmap'.cells = mmap.cells /\ mmap'.cap = mmap.cap /\ mmap'.committed = mmap.cap
  BY DEF MapOpen
<1>2. mmap.cap > 0 /\ mmap.cap \in Nat
  BY FormatAssumption DEF HasTrailer, MinArchiveSize, ReadInv, FileInv, IInv, TypeOK, Mapped
<1>3. \A p \in Index : mmap.cells[p].t = "trailer" => p < mmap.cap
  BY <1>2, FormatAssumption DEF ReadInv, FileInv, IInv, FileSound, Zero, Index
<1> QED BY <1>1, <1>2, <1>3 DEF ReadInv, FileInv, AllOrdered, AllCommitted, HasHeader

LEMMA OpenIntactRead == ReadInv /\ OpenIntact /\ FileInv' => ReadInv'
<1> SUFFICES ASSUME ReadInv, OpenIntact, FileInv' PROVE ReadInv'
  OBVIOUS
<1> DEFINE c == mmap.cells[mmap.cap - 1]
<1>1. /\ HasTrailer(mmap.cells, mmap.cap) /\ TablesMatch(mmap.cells, c)
      /\ mmap' = MapOpen(mmap) /\ trailer' = c.trailer
      /\ entryRows' = Elements(c.entries) /\ dirEntries' = LoadedDirs(c.dirs)
  BY Zenon DEF OpenIntact
<1>2. AllOrdered' /\ AllCommitted' /\ HasHeader'
  BY <1>1, OpenedRead
<1>3. /\ mmap'.cells = mmap.cells /\ mmap'.cap = mmap.cap /\ mmap'.len = mmap.cap
      /\ mmap'.committed = mmap.cap
  BY <1>1 DEF MapOpen
<1>4. mmap.cap >= MinArchiveSize /\ c.t = "trailer"
  BY <1>1 DEF HasTrailer
<1>5. c.trailer \in Trailer
  BY <1>1 DEF FileInv, IInv, TypeOK
<1> HIDE DEF c
<1>6. trailer' = [c.trailer EXCEPT !.nextId = trailer'.nextId]
  BY <1>1, <1>5 DEF Trailer
<1>7. SessionStored'
  BY <1>1, <1>3, <1>4, <1>6 DEF SessionStored, c
<1> QED BY <1>2, <1>7 DEF ReadInv, FileInv, CleanStored

LEMMA OpenDamagedRead == ReadInv /\ OpenDamaged /\ FileInv' => ReadInv'
<1> SUFFICES ASSUME ReadInv, OpenDamaged, FileInv' PROVE ReadInv'
  OBVIOUS
<1>1. /\ HasTrailer(mmap.cells, mmap.cap) /\ mmap' = MapOpen(mmap)
      /\ session' = "damaged"
  BY DEF OpenDamaged
<1> QED BY <1>1, OpenedRead DEF ReadInv, FileInv, CleanStored

\* The session is over, and the file has lost no more than its end.
LEMMA EndedRead ==
  ASSUME AllOrdered, FileInv', session' = "none", NoNewTrailer(mmap.cells, mmap'.cells),
         mmap'.cap > 0 => mmap'.cells[0] = Header
  PROVE  ReadInv'
BY DEF ReadInv, FileInv, AllOrdered, AllCommitted, HasHeader, CleanStored, NoNewTrailer

LEMMA CrashRead == ReadInv /\ Crash /\ FileInv' => ReadInv'
<1> SUFFICES ASSUME ReadInv, Crash, FileInv' PROVE ReadInv'
  OBVIOUS
<1>1. mmap'.cells = mmap.cells /\ session' = "none" /\ session # "none"
  BY DEF Crash, Abandon, NoSession
<1> QED BY <1>1, EndedRead DEF ReadInv, FileInv, HasHeader, NoNewTrailer

LEMMA DropRead == ReadInv /\ Drop /\ FileInv' => ReadInv'
<1> SUFFICES ASSUME ReadInv, Drop, FileInv' PROVE ReadInv'
  OBVIOUS
<1>1. /\ mmap'.cells = CutAt(mmap.cells, DropLen(mmap)) /\ mmap'.cap = DropLen(mmap)
      /\ session' = "none" /\ session # "none"
  BY DEF Drop, Unmap, NoSession
<1>2. mmap.cells \in [Index -> Cell] /\ DropLen(mmap) \in Nat /\ 0 \in Index
  BY FormatAssumption DEF ReadInv, FileInv, IInv, TypeOK, Mapped, DropLen, Index
<1>3. \A i \in Index : mmap'.cells[i] = IF i < mmap'.cap THEN mmap.cells[i] ELSE Zero
  BY <1>1, <1>2, CutAtEffect
<1>4. NoNewTrailer(mmap.cells, mmap'.cells)
  BY <1>3 DEF NoNewTrailer, Zero
<1>5. mmap'.cap > 0 => mmap'.cells[0] = Header
  BY <1>1, <1>2, <1>3 DEF ReadInv, FileInv, HasHeader
<1> QED BY <1>1, <1>4, <1>5, EndedRead DEF ReadInv, FileInv

-----------------------------------------------------------------------------
(* Syncing *)

\* However far sync gets: the cells it writes, and the one new trailer.
LEMMA SyncedCells ==
  ASSUME ReadInv, session = "open", NEW et \in EntryTables, NEW dt \in DirTables,
         NEW n \in 0..(Len(et) + Len(dt) + 1), writeOffset + n <= DiskSize,
         NEW cap \in 0..DiskSize, SyncBase.cap <= cap, writeOffset + n <= cap
  PROVE  LET cells == Extend(SyncBase, TableCells(et, dt, n)).cells
         IN  /\ cells \in [Index -> Cell]
             /\ cells[0] = mmap.cells[0]
             /\ \A p \in Index : cells[p].t = "trailer" =>
                    \/ cells[p] = mmap.cells[p]
                    \/ /\ n = Len(et) + Len(dt) + 1
                       /\ p = writeOffset + n - 1
                       /\ TableOrdered(cells[p])
             /\ \A k \in 1..n : cells[writeOffset + k - 1] = TableCells(et, dt, n)[k]
<1> DEFINE T == TableCells(et, dt, n)
           cells == Extend(SyncBase, T).cells
<1>1. /\ TypeOK /\ mmap \in Mapped /\ writeOffset \in 0..DiskSize /\ writeOffset \in Nat
      /\ writeOffset <= writeOffset /\ writeOffset <= mmap.len /\ 1 <= writeOffset
      /\ ZeroBeyond(mmap.cells, mmap.cap) /\ cap \in Nat /\ n \in Nat
      /\ mmap.cells \in [Index -> Cell]
  <2>1. Len(et) \in Nat /\ Len(dt) \in Nat
    BY EntryTableType, DirTableType DEF ReadInv, FileInv, IInv
  <2>2. TypeOK /\ mmap \in Mapped /\ writeOffset \in 0..DiskSize /\ writeOffset \in Nat
        /\ mmap.cells \in [Index -> Cell] /\ cap \in Nat
    BY FormatAssumption DEF ReadInv, FileInv, IInv, TypeOK, Mapped
  <2> QED BY <2>1, <2>2, OpenFacts DEF ReadInv, FileInv
<1>2. SyncBase \in Mapped
  BY <1>1, SyncWrites
<1>3. /\ NoNewTrailer(mmap.cells, SyncBase.cells)
      /\ ZeroBeyond(SyncBase.cells, SyncBase.cap)
      /\ SyncBase.len = writeOffset
  BY <1>1, SetLenWrites, SetLenEffect DEF SyncBase
<1>4. T \in Seq(Cell) /\ Len(T) = n
  BY <1>1, TableCellsType
<1>5. /\ cells \in [Index -> Cell]
      /\ Agree(mmap.cells, cells, writeOffset)
  BY SyncedFile DEF ReadInv, FileInv
<1> HIDE DEF T
<1>6. /\ \A k \in 1..n : cells[writeOffset + k - 1] = T[k]
      /\ \A i \in Index : \/ cells[i] = SyncBase.cells[i]
                          \/ \E k \in 1..n : i = writeOffset + k - 1 /\ cells[i] = T[k]
  BY <1>1, <1>2, <1>3, <1>4, ExtendWrites
<1> HIDE DEF cells
<1>7. cells[0] = mmap.cells[0]
  <2>1. 0 \in Index
    BY FormatAssumption DEF Index
  <2> QED BY <1>1, <1>5, <2>1 DEF Agree
<1>8. ASSUME NEW p \in Index, cells[p].t = "trailer"
      PROVE  \/ cells[p] = mmap.cells[p]
             \/ /\ n = Len(et) + Len(dt) + 1
                /\ p = writeOffset + n - 1
                /\ TableOrdered(cells[p])
  <2>1. CASE cells[p] = SyncBase.cells[p]
    BY <1>3, <1>8, <2>1 DEF NoNewTrailer
  <2>2. CASE cells[p] # SyncBase.cells[p]
    <3>1. PICK k \in 1..n : p = writeOffset + k - 1 /\ cells[p] = T[k]
      BY <1>6, <2>2
    <3>2. /\ k = Len(et) + Len(dt) + 1
          /\ cells[p] = TrailerCell(SyncedTrailer(et, dt), et, DirRowsOf(dt))
      BY <1>1, <1>8, <3>1, TableTrailer DEF T
    <3>3. TableOrdered(cells[p])
      BY <3>2, SyncedOrdered DEF ReadInv, FileInv
    <3>4. k = n
      <4>1. Len(et) \in Nat /\ Len(dt) \in Nat
        BY <1>1, EntryTableType, DirTableType
      <4> QED BY <3>1, <3>2, <4>1
    <3> QED BY <3>1, <3>2, <3>3, <3>4
  <2> QED BY <2>1, <2>2
<1> QED BY <1>5, <1>6, <1>7, <1>8 DEF cells, T

LEMMA SyncFailsRead == ReadInv /\ SyncFails /\ FileInv' => ReadInv'
<1> SUFFICES ASSUME ReadInv, SyncFails, FileInv' PROVE ReadInv'
  OBVIOUS
<1>1. session = "open" /\ session' = "open" /\ dirty' = dirty /\ dirty
  BY DEF SyncFails
<1>2. PICK et \in EntryTables, dt \in DirTables : \E n \in 0..(Len(et) + Len(dt)) :
          /\ writeOffset + n <= DiskSize
          /\ FullAt(SyncBase, writeOffset + n)
          /\ mmap' = WithCap(Extend(SyncBase, TableCells(et, dt, n)), writeOffset + n)
  BY DEF SyncFails
<1>3. PICK n \in 0..(Len(et) + Len(dt)) :
          /\ writeOffset + n <= DiskSize
          /\ FullAt(SyncBase, writeOffset + n)
          /\ mmap' = WithCap(Extend(SyncBase, TableCells(et, dt, n)), writeOffset + n)
  BY <1>2
<1>4. /\ n \in 0..(Len(et) + Len(dt) + 1) /\ n # Len(et) + Len(dt) + 1
      /\ writeOffset + n \in 0..DiskSize /\ writeOffset + n <= writeOffset + n
  <2>1. Len(et) \in Nat /\ Len(dt) \in Nat /\ writeOffset \in Nat
    BY <1>1, OpenFacts, EntryTableType, DirTableType DEF ReadInv, FileInv
  <2> QED BY <1>3, <2>1, FormatAssumption
<1>5. SyncBase.cap <= writeOffset + n
  BY <1>3 DEF FullAt
<1>6. /\ mmap'.cells = Extend(SyncBase, TableCells(et, dt, n)).cells
      /\ mmap'.committed = mmap.committed
  BY <1>3 DEF WithCap, Extend, SyncBase, SetLen
<1>7. mmap'.cells[0] = mmap.cells[0] /\ NoNewTrailer(mmap.cells, mmap'.cells)
  BY <1>1, <1>3, <1>4, <1>5, <1>6, SyncedCells DEF NoNewTrailer
<1>8. AllOrdered' /\ AllCommitted' /\ HasHeader'
  BY <1>1, <1>6, <1>7 DEF ReadInv, FileInv, AllOrdered, AllCommitted, HasHeader, NoNewTrailer
<1> QED BY <1>1, <1>8 DEF ReadInv, FileInv, CleanStored

LEMMA SyncedCapacity ==
  ASSUME IInv, session = "open", NEW n \in Nat,
         ReservedEach(SyncBase, writeOffset + n) <= DiskSize
  PROVE  /\ ReservedEach(SyncBase, writeOffset + n) \in 0..DiskSize
         /\ SyncBase.cap <= ReservedEach(SyncBase, writeOffset + n)
         /\ writeOffset + n <= ReservedEach(SyncBase, writeOffset + n)
<1>1. /\ TypeOK /\ mmap.cap \in Nat /\ writeOffset \in 0..DiskSize /\ mmap \in Mapped
      /\ writeOffset \in Nat
  BY OpenFacts, FormatAssumption DEF TypeOK, Mapped
<1>2. SyncBase.cap = Reserved(mmap, writeOffset)
  BY <1>1, SetLenEffect DEF SyncBase
<1>3. SyncBase.cap \in Nat
  BY <1>1, <1>2, ReservedBound
<1>4. writeOffset + n \in Nat
  BY <1>1
<1> QED BY <1>1, <1>3, <1>4, SyncCapacity, ReservedEachBound

LEMMA SyncCrashRead == ReadInv /\ SyncCrash /\ FileInv' => ReadInv'
<1> SUFFICES ASSUME ReadInv, SyncCrash, FileInv' PROVE ReadInv'
  OBVIOUS
<1>1. session = "open" /\ session' = "none"
  BY DEF SyncCrash, NoSession
<1>2. PICK et \in EntryTables, dt \in DirTables :
      \E n \in 1..(Len(et) + Len(dt) + 1) :
          /\ writeOffset + n <= DiskSize
          /\ ExtendEach(SyncBase, TableCells(et, dt, n)).cap <= DiskSize
          /\ mmap' = Abandon(ExtendEach(SyncBase, TableCells(et, dt, n)))
  BY DEF SyncCrash
<1>3. PICK n \in 1..(Len(et) + Len(dt) + 1) :
          /\ writeOffset + n <= DiskSize
          /\ ExtendEach(SyncBase, TableCells(et, dt, n)).cap <= DiskSize
          /\ mmap' = Abandon(ExtendEach(SyncBase, TableCells(et, dt, n)))
  BY <1>2
<1>4. n \in 0..(Len(et) + Len(dt) + 1) /\ n \in Nat
  BY EntryTableType, DirTableType DEF ReadInv, FileInv, IInv
<1>5. /\ ExtendEach(SyncBase, TableCells(et, dt, n)).cap
            = ReservedEach(SyncBase, writeOffset + n)
      /\ mmap'.cells = Extend(SyncBase, TableCells(et, dt, n)).cells
  <2>1. SyncBase.len = writeOffset /\ Len(TableCells(et, dt, n)) = n
    BY <1>1, <1>4, OpenFacts, SetLenEffect DEF SyncBase, TypeOK, TableCells, ReadInv, FileInv
  <2> QED BY <1>3, <2>1 DEF ExtendEach, WithCap, Abandon
<1>6. /\ ReservedEach(SyncBase, writeOffset + n) \in 0..DiskSize
      /\ SyncBase.cap <= ReservedEach(SyncBase, writeOffset + n)
      /\ writeOffset + n <= ReservedEach(SyncBase, writeOffset + n)
  BY <1>1, <1>3, <1>4, <1>5, SyncedCapacity DEF ReadInv, FileInv
<1>7. /\ mmap'.cells[0] = mmap.cells[0]
      /\ \A p \in Index : mmap'.cells[p].t = "trailer" =>
            mmap'.cells[p] = mmap.cells[p] \/ TableOrdered(mmap'.cells[p])
  BY <1>1, <1>3, <1>4, <1>5, <1>6, SyncedCells
<1>8. AllOrdered'
  BY <1>7 DEF ReadInv, FileInv, AllOrdered
<1>9. HasHeader'
  BY <1>1, <1>7 DEF ReadInv, FileInv, HasHeader
<1> QED BY <1>1, <1>8, <1>9 DEF ReadInv, FileInv, AllCommitted, CleanStored

\* The tables, the trailer and the cells of the file that a sync leaves.
LEMMA SyncedTables ==
  ASSUME TypeOK, NEW et \in EntryTables, NEW dt \in DirTables,
         NEW cells, NEW n \in Nat, n = Len(et) + Len(dt) + 1,
         \A k \in 1..n : cells[writeOffset + k - 1] = TableCells(et, dt, n)[k]
  PROVE  LET c == TrailerCell(SyncedTrailer(et, dt), et, DirRowsOf(dt))
         IN  cells[writeOffset + n - 1] = c /\ TablesMatch(cells, c)
<1> DEFINE c == TrailerCell(SyncedTrailer(et, dt), et, DirRowsOf(dt))
<1>1. /\ Len(et) \in Nat /\ Len(dt) \in Nat /\ Len(DirRowsOf(dt)) = Len(dt)
      /\ writeOffset \in Nat
  BY EntryTableType, DirTableType, FormatAssumption DEF TypeOK
<1>2. /\ c.trailer.entryOff = writeOffset /\ c.trailer.dirOff = writeOffset + Len(et)
      /\ c.entries = et /\ c.dirs = DirRowsOf(dt)
  BY DEF TrailerCell, SyncedTrailer
<1> HIDE DEF c
<1>3. cells[writeOffset + n - 1] = c
  <2>1. n \in 1..n /\ ~(n <= Len(et)) /\ ~(n <= Len(et) + Len(dt))
    BY <1>1
  <2> QED BY <2>1 DEF TableCells, c
<1>4. ASSUME NEW i \in 1..Len(et) PROVE cells[writeOffset + i - 1] = EntryCell(et[i])
  <2>1. i \in 1..n /\ i <= Len(et)
    BY <1>1
  <2> QED BY <2>1 DEF TableCells
<1>5. ASSUME NEW i \in 1..Len(dt)
      PROVE  cells[writeOffset + Len(et) + i - 1] = DirCell(DirRowsOf(dt)[i])
  <2> DEFINE k == Len(et) + i
  <2>1. /\ k \in 1..n /\ ~(k <= Len(et)) /\ k <= Len(et) + Len(dt) /\ k - Len(et) = i
        /\ writeOffset + k - 1 = writeOffset + Len(et) + i - 1
    BY <1>1
  <2> HIDE DEF k
  <2>2. TableCells(et, dt, n)[k] = DirCell(DirRowsOf(dt)[i])
    BY <2>1 DEF TableCells
  <2> QED BY <2>1, <2>2
<1>6. TablesMatch(cells, c)
  BY <1>1, <1>2, <1>4, <1>5 DEF TablesMatch
<1> QED BY <1>3, <1>6 DEF c

LEMMA SyncRead == ReadInv /\ Sync /\ FileInv' => ReadInv'
<1> SUFFICES ASSUME ReadInv, Sync, FileInv' PROVE ReadInv'
  OBVIOUS
<1> DEFINE N(et, dt) == Len(et) + Len(dt) + 1
<1>1. session = "open" /\ session' = "open" /\ entryRows' = entryRows
  BY DEF Sync
<1>2. PICK et \in EntryTables, dt \in DirTables :
          /\ writeOffset + Len(TableCells(et, dt, N(et, dt))) <= DiskSize
          /\ ExtendEach(SyncBase, TableCells(et, dt, N(et, dt))).cap <= DiskSize
          /\ mmap' = Commit(ExtendEach(SyncBase, TableCells(et, dt, N(et, dt))))
          /\ trailer' = SyncedTrailer(et, dt)
          /\ dirEntries' = Sorted(dt)
  BY DEF Sync
<1> DEFINE n == N(et, dt)
           T == TableCells(et, dt, n)
           cells == Extend(SyncBase, T).cells
           end == writeOffset + n
           c == TrailerCell(SyncedTrailer(et, dt), et, DirRowsOf(dt))
<1>3. TypeOK /\ writeOffset \in Nat /\ 1 <= writeOffset
  BY <1>1, OpenFacts DEF ReadInv, FileInv
<1>4. /\ Len(et) \in Nat /\ Len(dt) \in Nat /\ n \in 0..n /\ n \in Nat /\ 1 <= n
      /\ end \in Nat /\ writeOffset <= end
  BY <1>3, EntryTableType, DirTableType
<1>5. Len(T) = n /\ SyncBase.len = writeOffset
  BY <1>3, <1>4, SetLenEffect DEF SyncBase, TypeOK, TableCells
<1>6. /\ ExtendEach(SyncBase, T).cap = ReservedEach(SyncBase, writeOffset + n)
      /\ ExtendEach(SyncBase, T).cells = cells
      /\ ExtendEach(SyncBase, T).len = end
  BY <1>5 DEF ExtendEach, WithCap, Extend
<1>7. end <= DiskSize
  BY <1>2, <1>5
<1>8. /\ mmap'.cells = CutAt(cells, end) /\ mmap'.cap = end /\ mmap'.len = end
      /\ mmap'.committed = end
  BY <1>2, <1>6 DEF Commit
<1>9. /\ cells \in [Index -> Cell]
      /\ cells[0] = mmap.cells[0]
      /\ \A p \in Index : cells[p].t = "trailer" =>
            cells[p] = mmap.cells[p] \/ TableOrdered(cells[p])
      /\ \A k \in 1..n : cells[writeOffset + k - 1] = T[k]
  <2>1. /\ ReservedEach(SyncBase, writeOffset + n) \in 0..DiskSize
        /\ SyncBase.cap <= ReservedEach(SyncBase, writeOffset + n)
        /\ writeOffset + n <= ReservedEach(SyncBase, writeOffset + n)
    BY <1>1, <1>2, <1>4, <1>6, SyncedCapacity DEF ReadInv, FileInv
  <2>2. n \in 0..(Len(et) + Len(dt) + 1)
    BY <1>4
  <2> HIDE DEF n
  <2> QED BY <1>1, <1>7, <2>1, <2>2, SyncedCells
<1>10. c.entries = et /\ c.dirs = DirRowsOf(dt) /\ c.trailer = SyncedTrailer(et, dt)
       /\ c.t = "trailer"
  BY DEF TrailerCell
<1> HIDE DEF cells, T, n, N
<1>11. \A i \in Index : mmap'.cells[i] = IF i < end THEN cells[i] ELSE Zero
  BY <1>4, <1>8, <1>9, CutAtEffect
<1>12. end - 1 \in Index /\ 0 \in Index /\ 0 < end /\ 2 <= end /\ \A i \in Index : i \in Nat
  BY <1>3, <1>4, <1>7, FormatAssumption DEF Index
<1>13. AllOrdered'
  BY <1>9, <1>11 DEF ReadInv, FileInv, AllOrdered, Zero
<1>14. AllCommitted'
  BY <1>8, <1>11 DEF AllCommitted, Zero
<1>15. HasHeader'
  BY <1>1, <1>9, <1>11, <1>12 DEF ReadInv, FileInv, HasHeader
<1>16. SessionStored'
  <2>1. ASSUME NEW k \in 1..n PROVE mmap'.cells[writeOffset + k - 1] = T[k]
    <3>1. writeOffset + k - 1 \in Index /\ writeOffset + k - 1 < end
      BY <1>3, <1>4, <1>7, FormatAssumption DEF Index
    <3> QED BY <1>9, <1>11, <3>1
  <2>2. mmap'.cells[end - 1] = c /\ TablesMatch(mmap'.cells, c)
    <3>1. n = Len(et) + Len(dt) + 1
      BY DEF n, N
    <3>2. T = TableCells(et, dt, n)
      BY DEF T
    <3>3. end - 1 = writeOffset + n - 1
      BY <1>3, <1>4
    <3>4. \A k \in 1..n : mmap'.cells[writeOffset + k - 1] = TableCells(et, dt, n)[k]
      BY <2>1, <3>2
    <3> DEFINE file == mmap'.cells
    <3>5. \A k \in 1..n : file[writeOffset + k - 1] = TableCells(et, dt, n)[k]
      BY <3>4
    <3>6. file = mmap'.cells /\ c = TrailerCell(SyncedTrailer(et, dt), et, DirRowsOf(dt))
      OBVIOUS
    <3> HIDE DEF file, c, end
    <3>7. /\ file[writeOffset + n - 1] = TrailerCell(SyncedTrailer(et, dt), et, DirRowsOf(dt))
          /\ TablesMatch(file, TrailerCell(SyncedTrailer(et, dt), et, DirRowsOf(dt)))
      BY <1>3, <1>4, <3>1, <3>5, SyncedTables
    <3> QED BY <3>3, <3>6, <3>7
  <2>3. entryRows' = Elements(c.entries) /\ dirEntries' = LoadedDirs(c.dirs)
    BY <1>1, <1>2, <1>3, <1>10, EntryTableType DEF Sorted
  <2>4. trailer' = [c.trailer EXCEPT !.nextId = trailer'.nextId]
    BY <1>2, <1>10 DEF FileInv, IInv, TypeOK, Trailer
  <2> HIDE DEF c, end
  <2> QED BY <1>8, <1>10, <1>12, <2>2, <2>3, <2>4 DEF SessionStored, MinArchiveSize
<1> QED BY <1>13, <1>14, <1>15, <1>16 DEF ReadInv, FileInv, CleanStored

-----------------------------------------------------------------------------
(* Lengths and empty entries *)

LEMMA SetLenFits ==
  ASSUME NEW m \in Mapped, NEW n \in 0..DiskSize, m.committed <= m.cap
  PROVE  LET e == SetLen(m, n)
         IN  /\ e.len <= e.cap /\ e.committed <= e.cap /\ e.committed = m.committed
             /\ m.cap <= e.cap
<1>1. m.cap \in Nat /\ m.committed \in Nat /\ n \in Nat
  BY FormatAssumption DEF Mapped
<1> QED BY <1>1, SetLenEffect, ReservedBound

LEMMA StoresBlockFits ==
  ASSUME TypeOK, LengthsFit, NEW data \in Seq(Bytes), NEW off \in BlockOffsets,
         StoresBlock(data, off)
  PROVE  LengthsFit'
<1>1. mmap \in Mapped /\ writeOffset \in Nat /\ DiskSize \in Nat
  BY FormatAssumption DEF TypeOK
<1>2. CASE data = <<>>
  BY <1>2 DEF StoresBlock, LengthsFit
<1>3. CASE data # <<>>
  <2> DEFINE m == SetLen(mmap, off)
             T == DataCells(data)
  <2>1. /\ off = Aligned(writeOffset) /\ off <= DiskSize /\ Fits(mmap, off)
        /\ off + Len(data) <= DiskSize /\ mmap' = Extend(m, T)
    BY <1>3 DEF StoresBlock
  <2>2. off \in 0..DiskSize /\ off \in Nat
    BY <1>1, <2>1, AlignedBound
  <2>3. m \in Mapped /\ m.len = off /\ m.committed <= m.cap
    BY <1>1, <2>1, <2>2, SetLenEffect, SetLenFits DEF LengthsFit
  <2>4. T \in Seq(Cell) /\ Len(T) = Len(data) /\ Len(data) \in Nat
    BY DataCellsType
  <2> HIDE DEF m, T
  <2>5. /\ mmap'.len = off + Len(data) /\ mmap'.cap = Reserved(m, off + Len(data))
        /\ mmap'.committed = m.committed
    BY <2>1, <2>3, <2>4, ExtendEffect
  <2>6. m.cap \in Nat /\ m.committed \in Nat /\ off + Len(data) \in Nat
    BY <2>2, <2>3, <2>4, FormatAssumption DEF Mapped
  <2> DEFINE n == off + Len(data)
  <2>7. n \in Nat
    BY <2>6
  <2>8. Reserved(m, n) \in Nat /\ Reserved(m, n) >= n /\ Reserved(m, n) >= m.cap
    <3> HIDE DEF n
    <3> QED BY <2>6, <2>7, ReservedBound
  <2> QED BY <2>3, <2>5, <2>6, <2>8 DEF LengthsFit
<1> QED BY <1>2, <1>3

LEMMA BlockFailsFits ==
  ASSUME TypeOK, LengthsFit, NEW data, BlockFails(data)
  PROVE  LengthsFit'
<1> DEFINE off == Aligned(writeOffset)
<1>1. mmap \in Mapped /\ off \in Nat /\ DiskSize \in Nat
  BY AlignedBound, FormatAssumption DEF TypeOK
<1>2. CASE UNCHANGED <<mmap, writeOffset>>
  BY <1>2 DEF LengthsFit
<1>3. CASE off <= DiskSize /\ mmap' = SetLen(mmap, off)
  <2>1. off \in 0..DiskSize
    BY <1>1, <1>3
  <2> HIDE DEF off
  <2> QED BY <1>1, <1>3, <2>1, SetLenFits DEF LengthsFit
<1> QED BY <1>2, <1>3 DEF BlockFails

LEMMA OperationFits ==
  ASSUME TypeOK, LengthsFit, Operation
  PROVE  LengthsFit'
<1>1. ASSUME NEW data \in Data, NEW off \in BlockOffsets, StoresBlock(data, off)
      PROVE  LengthsFit'
  BY <1>1, WriterAssumption, StoresBlockFits
<1>2. ASSUME NEW data \in Data, BlockFails(data) PROVE LengthsFit'
  BY <1>2, BlockFailsFits
<1>3. ASSUME NEW raw \in RawPaths, NEW kind \in Kind, NEW data \in Data,
             AddEntry(raw, kind, data) \/ ReplaceContent(raw, data)
      PROVE  LengthsFit'
  <2>1. PICK off \in BlockOffsets : StoresBlock(data, off)
    BY <1>3 DEF AddEntry, ReplaceContent
  <2> QED BY <1>1, <2>1
<1>4. ASSUME NEW raw \in RawPaths, NEW data \in Data,
             AddEntryFails(raw, data) \/ ReplaceContentFails(raw, data)
      PROVE  LengthsFit'
  BY <1>2, <1>4 DEF AddEntryFails, ReplaceContentFails
<1>5. ASSUME UNCHANGED mmap PROVE LengthsFit'
  BY <1>5 DEF LengthsFit
<1>6. ASSUME NEW raw \in RawPaths, NEW to \in RawPaths,
             Delete(raw) \/ Unlink(raw) \/ HardLink(raw, to) \/ Rename(raw, to)
      PROVE  LengthsFit'
  BY <1>5, <1>6 DEF Delete, Unlink, HardLink, Rename
<1>7. Kind # {}
  BY DEF Kind
<1> QED BY <1>3, <1>4, <1>6, <1>7 DEF Operation

\* The capacity that a sync which was refused leaves is where it stopped.
LEMMA SyncFailsFits ==
  ASSUME TypeOK, LengthsFit, SyncFails
  PROVE  LengthsFit'
<1>1. PICK et \in EntryTables, dt \in DirTables : \E n \in 0..(Len(et) + Len(dt)) :
          /\ writeOffset + n <= DiskSize
          /\ FullAt(SyncBase, writeOffset + n)
          /\ mmap' = WithCap(Extend(SyncBase, TableCells(et, dt, n)), writeOffset + n)
  BY DEF SyncFails
<1>2. PICK n \in 0..(Len(et) + Len(dt)) :
          /\ writeOffset + n <= DiskSize
          /\ FullAt(SyncBase, writeOffset + n)
          /\ mmap' = WithCap(Extend(SyncBase, TableCells(et, dt, n)), writeOffset + n)
  BY <1>1
<1>3. mmap \in Mapped /\ writeOffset \in 0..DiskSize /\ writeOffset \in Nat /\ n \in Nat
  BY EntryTableType, DirTableType, FormatAssumption DEF TypeOK
<1>4. /\ SyncBase.len = writeOffset /\ SyncBase.committed = mmap.committed
      /\ SyncBase.committed <= SyncBase.cap /\ SyncBase.cap \in Nat
      /\ SyncBase.committed \in Nat
  <2>1. SyncBase.cap = Reserved(mmap, writeOffset)
    BY <1>3, SetLenEffect DEF SyncBase
  <2>2. mmap.cap \in Nat /\ mmap.committed \in Nat
    BY <1>3, FormatAssumption DEF Mapped
  <2>3. SyncBase.cap \in Nat
    BY <1>3, <2>1, <2>2, ReservedBound
  <2> QED BY <1>3, <2>2, <2>3, SetLenEffect, SetLenFits DEF SyncBase, LengthsFit
<1>5. SyncBase.cap <= writeOffset + n
  BY <1>2 DEF FullAt
<1>6. mmap'.len = writeOffset + n /\ mmap'.cap = writeOffset + n
      /\ mmap'.committed = SyncBase.committed
  BY <1>2, <1>3, <1>4 DEF WithCap, Extend, TableCells
<1> QED BY <1>3, <1>4, <1>5, <1>6 DEF LengthsFit

LEMMA StepFits ==
  ASSUME TypeOK, LengthsFit, [Next]_vars
  PROVE  LengthsFit'
<1>1. mmap.cap \in Nat
  BY FormatAssumption DEF TypeOK, Mapped
<1>2. CASE UNCHANGED mmap
  BY <1>2 DEF LengthsFit
<1>3. CASE Create
  <2>1. /\ mmap'.len = 1 /\ mmap'.cap = Reserved(MapNew, 1) /\ mmap'.committed = 0
    BY <1>3 DEF Create, Extend, MapNew
  <2>2. MapNew.cap \in Nat
    BY ChunkAssumption, FormatAssumption DEF MapNew
  <2> QED BY <2>1, <2>2, ReservedBound DEF LengthsFit
<1>4. CASE OpenIntact \/ OpenDamaged
  BY <1>1, <1>4 DEF OpenIntact, OpenDamaged, MapOpen, LengthsFit
<1>5. CASE Sync
  <2>1. PICK m : mmap' = Commit(m)
    BY <1>5 DEF Sync
  <2>2. mmap'.len = mmap'.cap /\ mmap'.committed = mmap'.cap
    BY <2>1 DEF Commit
  <2>3. mmap'.cap \in Nat
    BY <1>5, SessionType, FormatAssumption DEF TypeOK, Mapped
  <2> QED BY <2>2, <2>3 DEF LengthsFit
<1>6. CASE SyncCrash \/ Drop \/ Crash
  <2>1. mmap'.len = 0 /\ mmap'.committed = 0
    BY <1>6 DEF SyncCrash, Drop, Crash, Unmap, Abandon
  <2>2. mmap'.cap \in Nat
    BY <1>6, SessionType, FormatAssumption DEF TypeOK, Mapped
  <2> QED BY <2>1, <2>2 DEF LengthsFit
<1> QED BY <1>2, <1>3, <1>4, <1>5, <1>6, OperationFits, SyncFailsFits DEF Next, OpenRejected, vars

LEMMA NewRowUnplaced ==
  ASSUME NEW rows, NEW fewer \in SUBSET rows, Unplaced(rows), NEW id, NEW kind,
         NEW data \in Seq(Bytes), NEW off \in BlockOffsets, StoresBlock(data, off)
  PROVE  Unplaced(fewer \cup {NewRow(id, kind, off, data)})
<1>1. Len(data) = 0 => off = 0
  BY DEF StoresBlock
<1> QED BY <1>1 DEF Unplaced, NewRow

LEMMA StepUnplaced ==
  ASSUME IInv, AllOrdered, Unplaced(entryRows), [Next]_vars
  PROVE  Unplaced(entryRows)'
<1>1. ASSUME entryRows' \subseteq entryRows PROVE Unplaced(entryRows)'
  BY <1>1 DEF Unplaced
<1>2. ASSUME NEW raw \in RawPaths, NEW kind \in Kind, NEW data \in Data,
             AddEntry(raw, kind, data)
      PROVE  Unplaced(entryRows)'
  <2>1. PICK off \in BlockOffsets :
            /\ StoresBlock(data, off)
            /\ entryRows' = entryRows \cup {NewRow(trailer.nextId, kind, off, data)}
    BY <1>2 DEF AddEntry
  <2> QED BY <2>1, WriterAssumption, NewRowUnplaced
<1>3. ASSUME NEW raw \in RawPaths, NEW data \in Data, ReplaceContent(raw, data)
      PROVE  Unplaced(entryRows)'
  <2>1. PICK r \in entryRows, off \in BlockOffsets :
            /\ StoresBlock(data, off)
            /\ entryRows' = (entryRows \ {r}) \cup {NewRow(r.id, "file", off, data)}
    BY <1>3 DEF ReplaceContent
  <2> QED BY <2>1, WriterAssumption, NewRowUnplaced
<1>4. CASE OpenIntact
  <2> DEFINE c == mmap.cells[mmap.cap - 1]
  <2>1. mmap.cap - 1 \in Index /\ c.t = "trailer" /\ entryRows' = Elements(c.entries)
    BY <1>4, FormatAssumption DEF OpenIntact, HasTrailer, MinArchiveSize, IInv, TypeOK, Mapped, Index
  <2> QED BY <2>1 DEF AllOrdered, TableOrdered
<1>5. ASSUME NEW raw \in RawPaths, NEW data \in Data,
             AddEntryFails(raw, data) \/ ReplaceContentFails(raw, data)
      PROVE  entryRows' \subseteq entryRows
  BY <1>5 DEF AddEntryFails, ReplaceContentFails
<1>6. ASSUME NEW raw \in RawPaths, NEW to \in RawPaths,
             Delete(raw) \/ Unlink(raw) \/ HardLink(raw, to) \/ Rename(raw, to)
      PROVE  entryRows' \subseteq entryRows
  BY <1>6 DEF Delete, Unlink, EntriesLeft, HardLink, Rename
<1>7. CASE Operation
  BY <1>1, <1>2, <1>3, <1>5, <1>6, <1>7 DEF Operation
<1>8. CASE \/ Create \/ OpenDamaged \/ OpenRejected \/ Sync \/ SyncFails
           \/ SyncCrash \/ Drop \/ Crash \/ UNCHANGED vars
  BY <1>1, <1>8 DEF Create, OpenDamaged, OpenRejected, Sync, SyncFails, SyncCrash,
                    Drop, Crash, NoSession, vars
<1> QED BY <1>4, <1>7, <1>8 DEF Next

-----------------------------------------------------------------------------
(* The invariant *)

LEMMA InitRead == Init => ReadInv
<1> SUFFICES ASSUME Init PROVE ReadInv
  OBVIOUS
<1>1. \A i \in Index : mmap.cells[i] = Zero
  BY DEF Init, NoFile
<1>2. \A i \in Index : mmap.cells[i].t # "trailer"
  BY <1>1 DEF Zero
<1>3. mmap.cap = 0 /\ session = "none"
  BY DEF Init, NoFile
<1>4. LengthsFit /\ Unplaced(entryRows)
  BY DEF Init, NoFile, LengthsFit, Unplaced
<1> QED BY <1>2, <1>3, <1>4, InitSafe DEF ReadInv, FileInv, AllOrdered, AllCommitted, HasHeader, CleanStored

LEMMA StepRead ==
  ASSUME ReadInv, [Next]_vars
  PROVE  ReadInv'
<1>1. FileInv'
  BY StepSafe, StepFits, StepUnplaced DEF ReadInv, FileInv, IInv
<1>2. CASE UNCHANGED vars
  BY <1>1, <1>2 DEF vars, ReadInv, AllOrdered, AllCommitted, HasHeader, CleanStored, SessionStored
<1>3. CASE OpenRejected
  BY <1>1, <1>3 DEF OpenRejected, vars, ReadInv, AllOrdered, AllCommitted, HasHeader,
                    CleanStored, SessionStored
<1> QED BY <1>1, <1>2, <1>3, OperationRead, CreateRead, OpenIntactRead, OpenDamagedRead,
           SyncRead, SyncFailsRead, SyncCrashRead, DropRead, CrashRead DEF Next

(***************************************************************************)
(* ReadInv is an invariant of the writer: only sync sorts the tables, and   *)
(* yet every trailer that a crash, a failed sync or a drop can leave ends   *)
(* tables in order; and a session with nothing to sync is what it committed.*)
(***************************************************************************)
THEOREM ReadInvariance == Spec => []ReadInv
BY InitRead, StepRead, PTL DEF Spec

=============================================================================
