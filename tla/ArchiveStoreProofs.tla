------------------------- MODULE ArchiveStoreProofs -------------------------
(***************************************************************************)
(* The writer implements ArchiveStore, for every value of the constants:    *)
(* whatever operations, failures and kills there are, readers find the      *)
(* archive of the last sync that took effect, or refuse the file.           *)
(*                                                                          *)
(* A trailer is written only as the last cell of a sync.  So what a step    *)
(* can make of the file at its committed end is what was there, if its rows *)
(* are, or nothing; and that no row comes back once it is gone is TailKept. *)
(***************************************************************************)
EXTENDS ArchiveReadingSafety

-----------------------------------------------------------------------------
(* The cells that a block, stored or not, leaves *)

\* What is new in the second file lies below a limit and is no part of a table.
OnlyBlocks(cells, other, limit) ==
    \A i \in Index : \/ other[i] = cells[i]
                     \/ i < limit /\ other[i].t \in {"zero", "data"}

LEMMA StoresBlockCells ==
  ASSUME TypeOK, NEW data \in Seq(Bytes), NEW off \in BlockOffsets,
         StoresBlock(data, off)
  PROVE  /\ OnlyBlocks(mmap.cells, mmap'.cells, writeOffset')
         /\ mmap'.committed = mmap.committed /\ mmap.cap <= mmap'.cap
<1>1. mmap \in Mapped /\ writeOffset \in Nat /\ DiskSize \in Nat /\ mmap.cap \in Nat
      /\ mmap.len \in Nat
  BY FormatAssumption DEF TypeOK, Mapped
<1>2. CASE data = <<>>
  BY <1>1, <1>2 DEF StoresBlock, OnlyBlocks
<1>3. CASE data # <<>>
  <2> DEFINE m == SetLen(mmap, off)
             T == DataCells(data)
  <2>1. /\ off = Aligned(writeOffset) /\ off <= DiskSize /\ Fits(mmap, off)
        /\ off + Len(data) <= DiskSize
        /\ mmap' = Extend(m, T) /\ writeOffset' = off + Len(data)
    BY <1>3 DEF StoresBlock, BlockEnd
  <2>2. off \in 0..DiskSize /\ off \in Nat
    BY <1>1, <2>1, AlignedBound
  <2>3. /\ m \in Mapped /\ m.len = off /\ m.cap = Reserved(mmap, off)
        /\ m.committed = mmap.committed
        /\ \A i \in Index :
              m.cells[i] = IF i \in mmap.len..(off - 1) THEN Zero ELSE mmap.cells[i]
    BY <1>1, <2>1, <2>2, SetLenEffect
  <2>4. T \in Seq(Cell) /\ Len(T) = Len(data) /\ Len(data) \in Nat
        /\ \A k \in 1..Len(data) : T[k] = DataCell(data[k])
    BY DataCellsType DEF DataCells
  <2> HIDE DEF m, T
  <2>5. /\ mmap'.cap = Reserved(m, off + Len(data))
        /\ mmap'.committed = m.committed
        /\ \A i \in Index :
              mmap'.cells[i] = IF i \in off..(off + Len(data) - 1)
                               THEN T[i - off + 1] ELSE m.cells[i]
    BY <2>1, <2>3, <2>4, ExtendEffect
  <2>6. mmap.cap <= mmap'.cap
    <3>1. m.cap \in Nat /\ off + Len(data) \in Nat
      BY <2>2, <2>3, <2>4, FormatAssumption DEF Mapped
    <3>2. mmap.cap <= m.cap
      BY <1>1, <2>2, <2>3, ReservedBound
    <3>3. m.cap <= mmap'.cap /\ mmap'.cap \in Nat
      BY <2>5, <3>1, ReservedBound
    <3> QED BY <1>1, <3>1, <3>2, <3>3
  <2>7. ASSUME NEW i \in Index, mmap'.cells[i] # mmap.cells[i]
        PROVE  i < writeOffset' /\ mmap'.cells[i].t \in {"zero", "data"}
    <3>1. CASE i \in off..(off + Len(data) - 1)
      <4>1. i - off + 1 \in 1..Len(data) /\ i < writeOffset'
        BY <2>1, <2>2, <2>4, <3>1
      <4>2. mmap'.cells[i] = DataCell(data[i - off + 1])
        BY <2>4, <2>5, <3>1, <4>1
      <4>3. mmap'.cells[i].t = "data"
        BY <4>2 DEF DataCell
      <4> QED BY <4>1, <4>3
    <3>2. CASE i \notin off..(off + Len(data) - 1)
      <4>1. mmap'.cells[i] = m.cells[i]
        BY <2>5, <3>2
      <4>2. i \in mmap.len..(off - 1) /\ mmap'.cells[i] = Zero
        BY <2>3, <2>7, <4>1
      <4>3. i < writeOffset'
        BY <1>1, <2>1, <2>2, <2>4, <4>2 DEF Index
      <4> QED BY <4>2, <4>3 DEF Zero
    <3> QED BY <3>1, <3>2
  <2> QED BY <2>3, <2>5, <2>6, <2>7 DEF OnlyBlocks
<1> QED BY <1>2, <1>3

LEMMA BlockFailsCells ==
  ASSUME TypeOK, NEW data \in Seq(Bytes), BlockFails(data)
  PROVE  /\ OnlyBlocks(mmap.cells, mmap'.cells, writeOffset')
         /\ mmap'.committed = mmap.committed /\ mmap.cap <= mmap'.cap
<1> DEFINE off == Aligned(writeOffset)
<1>1. mmap \in Mapped /\ writeOffset \in Nat /\ DiskSize \in Nat /\ mmap.cap \in Nat
      /\ mmap.len \in Nat
  BY FormatAssumption DEF TypeOK, Mapped
<1> off \in Nat
  BY <1>1, AlignedBound
<1>2. CASE UNCHANGED <<mmap, writeOffset>>
  BY <1>1, <1>2 DEF OnlyBlocks
<1>3. CASE off <= DiskSize /\ mmap' = SetLen(mmap, off) /\ writeOffset' = off
  <2>1. off \in 0..DiskSize
    BY <1>1, <1>3
  <2> HIDE DEF off
  <2>2. /\ mmap'.cap = Reserved(mmap, off) /\ mmap'.committed = mmap.committed
        /\ \A i \in Index :
              mmap'.cells[i] = IF i \in mmap.len..(off - 1) THEN Zero ELSE mmap.cells[i]
    BY <1>1, <1>3, <2>1, SetLenEffect
  <2>3. mmap.cap <= mmap'.cap
    BY <1>1, <2>2, ReservedBound
  <2>4. ASSUME NEW i \in Index, mmap'.cells[i] # mmap.cells[i]
        PROVE  i < writeOffset' /\ mmap'.cells[i].t \in {"zero", "data"}
    <3>1. i \in mmap.len..(off - 1) /\ mmap'.cells[i] = Zero
      BY <2>2, <2>4
    <3> QED BY <1>1, <1>3, <3>1 DEF Zero, Index
  <2> QED BY <2>2, <2>3, <2>4 DEF OnlyBlocks
<1> QED BY <1>2, <1>3 DEF BlockFails

\* What an operation of a session does to the file.
BlocksWritten ==
    /\ OnlyBlocks(mmap.cells, mmap'.cells, writeOffset')
    /\ Agree(mmap.cells, mmap'.cells, writeOffset)
    /\ NoNewTrailer(mmap.cells, mmap'.cells)
    /\ writeOffset <= writeOffset'
    /\ mmap'.committed = mmap.committed
    /\ mmap.cap <= mmap'.cap

LEMMA OperationCells ==
  ASSUME ReadInv, Operation
  PROVE  session = "open" /\ session' = "open" /\ BlocksWritten
<1>1. /\ TypeOK /\ mmap.cap \in Nat /\ Data \subseteq Seq(Bytes) /\ writeOffset \in Nat
      /\ session = "open" =>
            /\ 1 <= writeOffset /\ writeOffset <= mmap.len
            /\ ZeroBeyond(mmap.cells, mmap.cap)
  <2>1. TypeOK /\ mmap.cap \in Nat /\ Data \subseteq Seq(Bytes) /\ writeOffset \in Nat
    BY FormatAssumption, WriterAssumption DEF ReadInv, FileInv, IInv, TypeOK, Mapped
  <2> QED BY <2>1, OpenFacts DEF ReadInv, FileInv
<1>2. ASSUME session = "open", UNCHANGED <<mmap, writeOffset>> PROVE BlocksWritten
  BY <1>1, <1>2 DEF BlocksWritten, OnlyBlocks, Agree, NoNewTrailer
<1>3. ASSUME session = "open", NEW data \in Data, NEW off \in BlockOffsets,
             StoresBlock(data, off)
      PROVE  BlocksWritten
  BY <1>1, <1>3, StoresBlockCells, StoresBlockWrites DEF BlocksWritten
<1>4. ASSUME session = "open", NEW data \in Data, BlockFails(data) PROVE BlocksWritten
  BY <1>1, <1>4, BlockFailsCells, BlockFailsWrites DEF BlocksWritten
<1>5. ASSUME NEW raw \in RawPaths, NEW data \in Data, NEW kind \in Kind,
             AddEntry(raw, kind, data) \/ ReplaceContent(raw, data)
      PROVE  session = "open" /\ session' = "open" /\ BlocksWritten
  <2>1. session = "open" /\ session' = "open" /\ \E off \in BlockOffsets : StoresBlock(data, off)
    BY <1>5 DEF AddEntry, ReplaceContent
  <2> QED BY <1>3, <2>1
<1>6. ASSUME NEW raw \in RawPaths, NEW data \in Data,
             AddEntryFails(raw, data) \/ ReplaceContentFails(raw, data)
      PROVE  session = "open" /\ session' = "open" /\ BlocksWritten
  BY <1>4, <1>6 DEF AddEntryFails, ReplaceContentFails
<1>7. ASSUME NEW raw \in RawPaths, Delete(raw) \/ Unlink(raw)
      PROVE  session = "open" /\ session' = "open" /\ BlocksWritten
  BY <1>2, <1>7 DEF Delete, Unlink
<1>8. ASSUME NEW raw \in RawPaths, NEW to \in RawPaths, HardLink(raw, to) \/ Rename(raw, to)
      PROVE  session = "open" /\ session' = "open" /\ BlocksWritten
  BY <1>2, <1>8 DEF HardLink, Rename
<1>9. Kind # {}
  BY DEF Kind
<1> QED BY <1>5, <1>6, <1>7, <1>8, <1>9 DEF Operation

-----------------------------------------------------------------------------
(* What is left of the committed tables *)

\* The last committed cell, of the file as it is or as a step leaves it.
LEMMA CommittedPlace ==
  ASSUME NEW m \in Mapped, m.committed > 0, \A p \in Index : TrailerSound(m.cells, p)
  PROVE  /\ m.committed - 1 \in Index /\ m.committed \in Nat
         /\ m.cells \in [Index -> Cell]
         /\ TrailerSound(m.cells, m.committed - 1)
<1>1. m.committed \in 0..DiskSize /\ DiskSize \in Nat /\ m.cells \in [Index -> Cell]
  BY FormatAssumption DEF Mapped
<1>2. m.committed - 1 \in Index
  BY <1>1 DEF Index
<1> QED BY <1>1, <1>2

\* A row of a table is no trailer, no byte of a block and no zero.
LEMMA RowCells ==
  ASSUME NEW x
  PROVE  EntryCell(x).t = "entry" /\ DirCell(x).t = "dir"
BY DEF EntryCell, DirCell

LEMMA OperationTail ==
  ASSUME ReadInv, TailKept, Operation, ReadInv'
  PROVE  TailKept'
<1> DEFINE p == mmap'.committed - 1
           c == mmap'.cells[p]
<1> SUFFICES ASSUME session' = "open", mmap'.committed > 0, c.t = "trailer"
             PROVE  RowsLeft(mmap'.cells, c, writeOffset')
  BY DEF TailKept
<1>1. /\ TypeOK /\ writeOffset \in Nat /\ writeOffset' \in Nat
      /\ mmap'.cells \in [Index -> Cell]
  BY FormatAssumption DEF ReadInv, FileInv, IInv, TypeOK, Mapped
<1>2. /\ session = "open"
      /\ OnlyBlocks(mmap.cells, mmap'.cells, writeOffset')
      /\ NoNewTrailer(mmap.cells, mmap'.cells)
      /\ writeOffset <= writeOffset'
      /\ mmap'.committed = mmap.committed
  BY OperationCells DEF BlocksWritten
<1>3. p \in Index /\ c = mmap.cells[p] /\ p = mmap.committed - 1 /\ TrailerSound(mmap'.cells, p)
  <2>1. mmap' \in Mapped /\ \A i \in Index : TrailerSound(mmap'.cells, i)
    BY DEF ReadInv, FileInv, IInv, TypeOK, FileSound
  <2>2. p \in Index /\ TrailerSound(mmap'.cells, p)
    BY <2>1, CommittedPlace
  <2> QED BY <1>2, <2>2 DEF NoNewTrailer
<1>4. RowsLeft(mmap.cells, c, writeOffset)
  BY <1>2, <1>3 DEF TailKept
<1>5. /\ c.trailer.entryOff \in Nat /\ c.trailer.dirOff \in Nat
      /\ \A i \in 1..Len(c.entries) : c.trailer.entryOff + i - 1 \in Index
      /\ \A i \in 1..Len(c.dirs) : c.trailer.dirOff + i - 1 \in Index
  BY <1>1, <1>3, TablePlaces
<1> HIDE DEF c, p
<1>6. \A k \in Index : k >= writeOffset' => mmap'.cells[k] = mmap.cells[k] /\ k >= writeOffset
  <2>1. \A k \in Index : k \in Nat
    BY DEF Index
  <2> QED BY <1>1, <1>2, <2>1 DEF OnlyBlocks
<1> QED BY <1>4, <1>5, <1>6 DEF RowsLeft

\* A sync fails only where the file is full, beyond what was committed: if the
\* old trailer is still there, then so is everything above the write offset.
LEMMA SyncFailsFile ==
  ASSUME ReadInv, SyncFails
  PROVE  /\ session = "open" /\ session' = "open" /\ writeOffset' = writeOffset
         /\ mmap'.committed = mmap.committed /\ mmap.cap <= mmap'.cap
         /\ Agree(mmap.cells, mmap'.cells, writeOffset)
         /\ NoNewTrailer(mmap.cells, mmap'.cells)
         /\ \A i \in Index : (writeOffset <= i /\ i < mmap.committed) =>
                mmap'.cells[i].t # "trailer"
<1>1. session = "open" /\ session' = "open" /\ writeOffset' = writeOffset
  BY DEF SyncFails
<1>2. PICK et \in EntryTables, dt \in DirTables : \E n \in 0..(Len(et) + Len(dt)) :
          /\ writeOffset + n <= DiskSize
          /\ FullAt(SyncBase, writeOffset + n)
          /\ mmap' = WithCap(Extend(SyncBase, TableCells(et, dt, n)), writeOffset + n)
  BY DEF SyncFails
<1>3. PICK n \in 0..(Len(et) + Len(dt)) :
          /\ writeOffset + n <= DiskSize
          /\ FullAt(SyncBase, writeOffset + n)
          /\ mmap' = WithCap(Extend(SyncBase, TableCells(et, dt, n)), writeOffset + n)
  BY <1>2
<1>4. /\ IInv /\ TypeOK /\ mmap \in Mapped /\ mmap.cap \in Nat /\ mmap.committed \in Nat
      /\ mmap.committed <= mmap.cap /\ writeOffset \in Nat /\ DiskSize \in Nat
      /\ writeOffset \in 0..DiskSize /\ writeOffset <= mmap.len /\ mmap.len \in Nat
      /\ Len(et) \in Nat /\ Len(dt) \in Nat
  <2>1. /\ IInv /\ TypeOK /\ mmap \in Mapped /\ mmap.cap \in Nat /\ mmap.committed \in Nat
        /\ mmap.committed <= mmap.cap /\ writeOffset \in Nat /\ DiskSize \in Nat
        /\ writeOffset \in 0..DiskSize /\ mmap.len \in Nat
    BY FormatAssumption DEF ReadInv, FileInv, LengthsFit, IInv, TypeOK, Mapped
  <2> QED BY <1>1, <2>1, OpenFacts, EntryTableType, DirTableType
<1>5. /\ n \in 0..(Len(et) + Len(dt) + 1) /\ n # Len(et) + Len(dt) + 1 /\ n \in Nat
      /\ writeOffset + n \in 0..DiskSize /\ writeOffset + n <= writeOffset + n
  BY <1>3, <1>4
<1>6. SyncBase.cap <= writeOffset + n /\ SyncBase.cap = Reserved(mmap, writeOffset)
  <2>1. SyncBase.cap = Reserved(mmap, writeOffset)
    BY DEF SyncBase, SetLen
  <2>2. SyncBase.cap \in Nat
    BY <1>4, <2>1, ReservedBound
  <2>3. writeOffset + n >= SyncBase.cap
    BY <1>3 DEF FullAt
  <2>4. writeOffset + n \in Nat
    BY <1>4, <1>5
  <2> QED BY <2>1, <2>2, <2>3, <2>4
<1>7. mmap.cap <= writeOffset + n
  <2>1. mmap.cap <= SyncBase.cap /\ SyncBase.cap \in Nat
    BY <1>4, <1>6, ReservedBound
  <2>2. writeOffset + n \in Nat /\ mmap.cap \in Nat
    BY <1>4, <1>5
  <2> QED BY <1>6, <2>1, <2>2
<1>8. /\ mmap'.cells = Extend(SyncBase, TableCells(et, dt, n)).cells
      /\ mmap'.committed = mmap.committed /\ mmap'.cap = writeOffset + n
  BY <1>3 DEF WithCap, Extend, SyncBase, SetLen
<1>9. Agree(mmap.cells, mmap'.cells, writeOffset)
  BY <1>1, <1>3, <1>4, <1>5, <1>6, <1>8, SyncedFile
<1>10. /\ NoNewTrailer(mmap.cells, mmap'.cells)
       /\ \A k \in 1..n : mmap'.cells[writeOffset + k - 1] = TableCells(et, dt, n)[k]
  BY <1>1, <1>3, <1>5, <1>6, <1>8, SyncedCells DEF NoNewTrailer
<1>11. ASSUME NEW i \in Index, writeOffset <= i, i < mmap.committed
       PROVE  mmap'.cells[i].t # "trailer"
  <2> DEFINE k == i - writeOffset + 1
  <2>1. k \in 1..n /\ i = writeOffset + k - 1
    BY <1>4, <1>5, <1>7, <1>11 DEF Index
  <2>2. mmap'.cells[i] = TableCells(et, dt, n)[k]
    BY <1>10, <2>1
  <2>3. k # Len(et) + Len(dt) + 1
    BY <1>4, <1>5, <2>1
  <2> HIDE DEF k
  <2> QED BY <1>4, <1>5, <2>1, <2>2, <2>3, TableTrailer
<1> QED BY <1>1, <1>7, <1>8, <1>9, <1>10, <1>11

LEMMA SyncFailsTail ==
  ASSUME ReadInv, SyncFails, ReadInv'
  PROVE  TailKept'
<1> DEFINE p == mmap'.committed - 1
           c == mmap'.cells[p]
<1> SUFFICES ASSUME session' = "open", mmap'.committed > 0, c.t = "trailer"
             PROVE  RowsLeft(mmap'.cells, c, writeOffset')
  BY DEF TailKept
<1>1. writeOffset' \in Nat /\ mmap'.cells \in [Index -> Cell]
  BY FormatAssumption DEF ReadInv, FileInv, IInv, TypeOK, Mapped
<1>2. p \in Index /\ mmap'.committed \in Nat /\ TrailerSound(mmap'.cells, p)
  <2>1. mmap' \in Mapped /\ \A i \in Index : TrailerSound(mmap'.cells, i)
    BY DEF ReadInv, FileInv, IInv, TypeOK, FileSound
  <2> QED BY <2>1, CommittedPlace
<1>3. p < writeOffset'
  <2>1. mmap'.committed = mmap.committed /\ writeOffset' = writeOffset
        /\ (writeOffset <= p /\ p < mmap.committed => c.t # "trailer")
    BY <1>2, SyncFailsFile
  <2> QED BY <1>1, <1>2, <2>1
<1>4. /\ c.trailer.entryOff \in Nat /\ c.trailer.dirOff \in Nat
      /\ \A i \in 1..Len(c.entries) : c.trailer.entryOff + i - 1 < p
      /\ \A i \in 1..Len(c.dirs) : c.trailer.dirOff + i - 1 < p
  BY <1>1, <1>2, TablePlaces
<1>5. p \in Nat
  BY <1>2 DEF Index
<1> HIDE DEF c, p
<1>6. /\ \A i \in 1..Len(c.entries) : ~(c.trailer.entryOff + i - 1 >= writeOffset')
      /\ \A i \in 1..Len(c.dirs) : ~(c.trailer.dirOff + i - 1 >= writeOffset')
  BY <1>1, <1>3, <1>4, <1>5
<1> QED BY <1>6 DEF RowsLeft

LEMMA TailStep ==
  ASSUME ReadInv, TailKept, [Next]_vars, ReadInv'
  PROVE  TailKept'
<1>1. CASE UNCHANGED vars
  BY <1>1 DEF vars, TailKept
<1>2. CASE OpenRejected
  BY <1>2 DEF OpenRejected, vars, TailKept
<1>3. CASE Create
  BY <1>3 DEF Create, Extend, MapNew, TailKept
<1>4. CASE OpenIntact \/ Sync
  <2>1. ~dirty'
    BY <1>4 DEF OpenIntact, Sync
  <2> QED BY <2>1 DEF ReadInv, CleanStored, SessionStored, TablesMatch, TailKept, RowsLeft
<1>5. CASE OpenDamaged \/ SyncCrash \/ Drop \/ Crash
  <2>1. session' # "open"
    BY <1>5 DEF OpenDamaged, SyncCrash, Drop, Crash, NoSession
  <2> QED BY <2>1 DEF TailKept
<1> QED BY <1>1, <1>2, <1>3, <1>4, <1>5, OperationTail, SyncFailsTail DEF Next

(***************************************************************************)
(* TailKept is an invariant: no failed block and no failed sync takes a row *)
(* at or above the write offset from the committed tables and leaves their  *)
(* trailer.                                                                 *)
(***************************************************************************)
THEOREM TailIsKept == Spec => []TailKept
<1>1. Init => TailKept
  BY DEF Init, TailKept
<1>2. ReadInv /\ ReadInv' /\ TailKept /\ [Next]_vars => TailKept'
  BY TailStep
<1> QED BY <1>1, <1>2, ReadInvariance, PTL DEF Spec

-----------------------------------------------------------------------------
(* What readers find in files that agree *)

Nobody == [unreadable |-> TRUE]

LEMMA ViewBelow ==
  ASSUME NEW cells, NEW other, NEW rows \in SUBSET EntryRow, NEW names, NEW nextId,
         NEW limit \in 0..DiskSize, RowsSound(cells, rows, names, nextId, limit),
         Unplaced(rows), Agree(cells, other, limit)
  PROVE  View(other, rows, names) = View(cells, rows, names)
<1>1. ASSUME NEW r \in rows PROVE ReadData(other, r) = ReadData(cells, r)
  <2>1. r.off \in Nat /\ r.size \in Nat /\ limit \in Nat /\ DiskSize \in Nat /\ limit <= DiskSize
    BY FormatAssumption DEF EntryRow
  <2>2. CASE r.off = 0
    BY <2>2 DEF ReadData
  <2>3. CASE r.off # 0
    <3>1. r.off + r.size <= limit
      BY <2>3 DEF Unplaced, RowsSound, SeparateBlocks, HasBlock
    <3>2. ASSUME NEW k \in 1..r.size PROVE other[r.off + k - 1] = cells[r.off + k - 1]
      <4>1. r.off + k - 1 \in Index /\ r.off + k - 1 < limit
        BY <2>1, <3>1 DEF Index
      <4> QED BY <4>1 DEF Agree
    <3>3. [k \in 1..r.size |-> other[r.off + k - 1]]
            = [k \in 1..r.size |-> cells[r.off + k - 1]]
      BY <3>2
    <3> QED BY <2>3, <3>3 DEF ReadData
  <2> QED BY <2>2, <2>3
<1> QED BY <1>1 DEF View

\* Two files with the same trailer that agree below its tables.
LEMMA SameArchive ==
  ASSUME NEW cells \in [Index -> Cell], NEW other, NEW p \in Index,
         cells[p].t = "trailer", TrailerSound(cells, p), TableOrdered(cells[p]),
         NEW limit \in Nat, cells[p].trailer.entryOff <= limit,
         Agree(cells, other, limit)
  PROVE  View(other, Elements(cells[p].entries), Elements(cells[p].dirs))
            = View(cells, Elements(cells[p].entries), Elements(cells[p].dirs))
<1> DEFINE c == cells[p]
           rows == Elements(c.entries)
           names == Elements(c.dirs)
<1>1. /\ c.trailer \in Trailer /\ c.entries \in Seq(EntryRow)
      /\ c.trailer.entryOff \in Nat
  BY TablePlaces
<1>2. RowsSound(cells, rows, names, c.trailer.nextId, c.trailer.entryOff)
  BY DEF TrailerSound
<1>3. Unplaced(rows)
  BY DEF TableOrdered
<1> HIDE DEF c
<1>4. rows \in SUBSET EntryRow /\ c.trailer.entryOff \in 0..DiskSize
  BY <1>1, ElementsFinite DEF Trailer
<1>5. Agree(cells, other, c.trailer.entryOff)
  <2>1. \A i \in Index : i \in Nat
    BY DEF Index
  <2> QED BY <1>1, <2>1 DEF Agree, c
<1> HIDE DEF rows, names
<1>6. View(other, rows, names) = View(cells, rows, names)
  BY <1>2, <1>3, <1>4, <1>5, ViewBelow
<1> QED BY <1>6 DEF c, rows, names

AllSound(cells) == \A p \in Index : TrailerSound(cells, p)
InOrderAll(cells) == \A p \in Index : cells[p].t = "trailer" => TableOrdered(cells[p])

\* What ends at e is found alike in files that agree up to there.
LEMMA FoundBelow ==
  ASSUME NEW cells \in [Index -> Cell], NEW other \in [Index -> Cell],
         AllSound(cells), AllSound(other), InOrderAll(cells),
         NEW e \in 0..DiskSize, Agree(cells, other, e)
  PROVE  FoundIn(other, e) = FoundIn(cells, e)
<1> DEFINE p == e - 1
           c == cells[p]
<1>1. CASE e < 2
  <2>1. ~ReaderAccepts(cells, e) /\ ~ReaderAccepts(other, e)
    BY <1>1, FormatAssumption DEF ReaderAccepts, HasTrailer, MinArchiveSize
  <2> QED BY <2>1 DEF FoundIn
<1>2. CASE e >= 2
  <2>1. p \in Index /\ p < e /\ 0 \in Index /\ 0 < e /\ e \in Nat /\ p + 1 = e
    BY <1>2, FormatAssumption DEF Index
  <2>2. other[p] = c /\ other[0] = cells[0]
    BY <2>1 DEF Agree
  <2>3. CASE c.t # "trailer"
    <3>1. ~ReaderAccepts(cells, e) /\ ~ReaderAccepts(other, e)
      BY <2>2, <2>3 DEF ReaderAccepts, HasTrailer
    <3> QED BY <3>1 DEF FoundIn
  <2>4. CASE c.t = "trailer"
    <3>1. Agree(other, cells, p + 1) /\ Agree(cells, other, p + 1)
      BY <2>1 DEF Agree
    <3>2. TrailerSound(cells, p) /\ TrailerSound(other, p) /\ TableOrdered(c)
      BY <2>1, <2>4 DEF AllSound, InOrderAll
    <3>3. TablesMatch(cells, c) => TablesMatch(other, c)
      BY <2>1, <2>4, <3>1, <3>2, TablesStayMatched
    <3>4. TablesMatch(other, c) => TablesMatch(cells, c)
      <4>1. other[p].t = "trailer" /\ (TablesMatch(other, other[p]) => TablesMatch(cells, other[p]))
        BY <2>1, <2>2, <2>4, <3>1, <3>2, TablesStayMatched
      <4> QED BY <2>2, <4>1
    <3>5. ReaderAccepts(other, e) <=> ReaderAccepts(cells, e)
      BY <2>2, <3>3, <3>4 DEF ReaderAccepts, HasTrailer
    <3>6. c.trailer.entryOff <= e
      <4>1. /\ c.trailer.entryOff \in Nat /\ Len(c.entries) \in Nat /\ Len(c.dirs) \in Nat
            /\ p = (c.trailer.entryOff + Len(c.entries)) + Len(c.dirs)
        BY <2>1, <2>4, <3>2, TablePlaces
      <4> HIDE DEF c
      <4> QED BY <2>1, <4>1
    <3>7. View(other, Elements(c.entries), Elements(c.dirs))
            = View(cells, Elements(c.entries), Elements(c.dirs))
      BY <2>1, <2>4, <3>2, <3>6, SameArchive
    <3> QED BY <2>2, <3>5, <3>7 DEF FoundIn
  <2> QED BY <2>3, <2>4
<1> QED BY <1>1, <1>2, FormatAssumption

\* What ends at e is found as it was or not at all, if no trailer and no row of
\* a table has come to be there.
LEMMA FoundOrLost ==
  ASSUME NEW cells \in [Index -> Cell], NEW other \in [Index -> Cell],
         AllSound(cells), InOrderAll(cells), NEW limit \in Nat, 1 <= limit,
         TrailersBelow(cells, limit), Agree(cells, other, limit),
         NEW e \in 0..DiskSize,
         ReaderAccepts(other, e) =>
            other[e - 1] = cells[e - 1] /\ TablesMatch(cells, cells[e - 1])
  PROVE  FoundIn(other, e) \in {FoundIn(cells, e), Nobody}
<1>1. CASE ~ReaderAccepts(other, e)
  BY <1>1 DEF FoundIn, Nobody
<1>2. CASE ReaderAccepts(other, e)
  <2> DEFINE p == e - 1
             c == cells[p]
  <2>1. e >= 2 /\ other[p].t = "trailer" /\ other[0] = Header
    BY <1>2 DEF ReaderAccepts, HasTrailer, MinArchiveSize
  <2>2. p \in Index /\ 0 \in Index /\ 0 < limit
    BY <2>1, FormatAssumption DEF Index
  <2>3. other[p] = c /\ TablesMatch(cells, c) /\ c.t = "trailer" /\ cells[0] = Header
    BY <1>2, <2>1, <2>2 DEF Agree
  <2>4. ReaderAccepts(cells, e)
    BY <2>1, <2>3 DEF ReaderAccepts, HasTrailer, MinArchiveSize
  <2>5. TrailerSound(cells, p) /\ TableOrdered(c) /\ c.trailer.entryOff <= limit
    BY <2>2, <2>3 DEF AllSound, InOrderAll, TrailersBelow
  <2>6. View(other, Elements(c.entries), Elements(c.dirs))
            = View(cells, Elements(c.entries), Elements(c.dirs))
    BY <2>2, <2>3, <2>5, SameArchive
  <2> QED BY <1>2, <2>3, <2>4, <2>6 DEF FoundIn
<1> QED BY <1>1, <1>2

LEMMA RowsNotNew ==
  ASSUME NEW cells \in [Index -> Cell], NEW other, NEW p \in Index, NEW limit,
         cells[p].t = "trailer", TrailerSound(cells, p),
         OnlyBlocks(cells, other, limit), TablesMatch(other, cells[p])
  PROVE  TablesMatch(cells, cells[p])
<1> DEFINE c == cells[p]
<1>1. /\ \A i \in 1..Len(c.entries) : c.trailer.entryOff + i - 1 \in Index
      /\ \A i \in 1..Len(c.dirs) : c.trailer.dirOff + i - 1 \in Index
  BY TablePlaces
<1>2. TablesMatch(other, c)
  OBVIOUS
<1> HIDE DEF c
<1>3. ASSUME NEW k \in Index, other[k].t \in {"entry", "dir"} PROVE cells[k] = other[k]
  BY <1>3 DEF OnlyBlocks
<1>4. ASSUME NEW i \in 1..Len(c.entries)
      PROVE  cells[c.trailer.entryOff + i - 1] = EntryCell(c.entries[i])
  <2>1. other[c.trailer.entryOff + i - 1] = EntryCell(c.entries[i])
    BY <1>2 DEF TablesMatch
  <2> QED BY <1>1, <1>3, <2>1, RowCells
<1>5. ASSUME NEW i \in 1..Len(c.dirs)
      PROVE  cells[c.trailer.dirOff + i - 1] = DirCell(c.dirs[i])
  <2>1. other[c.trailer.dirOff + i - 1] = DirCell(c.dirs[i])
    BY <1>2 DEF TablesMatch
  <2> QED BY <1>1, <1>3, <2>1, RowCells
<1> QED BY <1>4, <1>5 DEF TablesMatch, c

-----------------------------------------------------------------------------
(* The states that are mapped *)

\* What is known of the file, before a step and after it.
FileFacts ==
    /\ mmap \in Mapped
    /\ mmap.cells \in [Index -> Cell]
    /\ AllSound(mmap.cells) /\ InOrderAll(mmap.cells)
    /\ mmap.cap \in Nat /\ mmap.len \in Nat /\ mmap.committed \in Nat /\ DiskSize \in Nat
    /\ mmap.cap \in 0..DiskSize /\ mmap.len \in 0..DiskSize
    /\ mmap.committed \in 0..DiskSize
    /\ mmap.len <= mmap.cap /\ mmap.committed <= mmap.cap
    /\ writeOffset \in Nat
    /\ session = "open" =>
        /\ 1 <= writeOffset /\ writeOffset <= mmap.len
        /\ TrailersBelow(mmap.cells, writeOffset)
        /\ \A i \in Index : mmap.cells[i].t = "trailer" => i < mmap.committed

LEMMA StepFacts ==
  ASSUME ReadInv, ReadInv'
  PROVE  FileFacts /\ FileFacts'
<1>1. FileFacts
  BY FormatAssumption DEF ReadInv, FileInv, IInv, TypeOK, Mapped, FileSound, SessionSound,
        LengthsFit, AllOrdered, AllCommitted, FileFacts, AllSound, InOrderAll
<1>2. FileFacts'
  BY FormatAssumption DEF ReadInv, FileInv, IInv, TypeOK, Mapped, FileSound, SessionSound,
        LengthsFit, AllOrdered, AllCommitted, FileFacts, AllSound, InOrderAll
<1> QED BY <1>1, <1>2

\* The views of archives and what stands for there being none all differ.
LEMMA Distinct ==
  /\ \A cells, rows, names :
        /\ View(cells, rows, names) # [closed |-> TRUE]
        /\ View(cells, rows, names) # [absent |-> TRUE]
        /\ View(cells, rows, names) # Nobody
  /\ Nobody # [absent |-> TRUE]
<1>1. /\ DOMAIN [closed |-> TRUE] = {"closed"}
      /\ DOMAIN [absent |-> TRUE] = {"absent"}
      /\ DOMAIN Nobody = {"unreadable"}
  BY DEF Nobody
<1>2. ASSUME NEW cells, NEW rows, NEW names
      PROVE  DOMAIN View(cells, rows, names) = {"nodes", "names"}
  BY DEF View
<1>3. Nobody # [absent |-> TRUE]
  BY <1>1
<1>4. ASSUME NEW cells, NEW rows, NEW names
      PROVE  /\ View(cells, rows, names) # [closed |-> TRUE]
             /\ View(cells, rows, names) # [absent |-> TRUE]
             /\ View(cells, rows, names) # Nobody
  BY <1>1, <1>2
<1> QED BY <1>3, <1>4

LEMMA FoundIsNotAbsent ==
  ASSUME NEW cells, NEW e
  PROVE  FoundIn(cells, e) # [absent |-> TRUE]
BY Distinct DEF FoundIn, Nobody

\* A file that goes on beyond its last trailer is no archive.
LEMMA NothingAtEnd ==
  ASSUME NEW cells \in [Index -> Cell], NEW e \in 0..DiskSize, NEW committed \in Nat,
         committed < e,
         \A i \in Index : cells[i].t = "trailer" => i < committed
  PROVE  FoundIn(cells, e) = Nobody
<1>1. e - 1 \in Index /\ ~(e - 1 < committed)
  BY FormatAssumption DEF Index
<1>2. ~ReaderAccepts(cells, e)
  BY <1>1 DEF ReaderAccepts, HasTrailer
<1> QED BY <1>2 DEF FoundIn, Nobody

(***************************************************************************)
(* A step within a session that leaves what was committed where it is, and  *)
(* lets the file only grow: readers find the same or nothing.               *)
(***************************************************************************)
LEMMA ChangeMaps ==
  ASSUME ReadInv, ReadInv', session = "open", session' = "open",
         mmap'.committed = mmap.committed, mmap.cap <= mmap'.cap,
         FoundIn(mmap'.cells, mmap.committed)
            \in {FoundIn(mmap.cells, mmap.committed), Nobody}
  PROVE  Store!StoreChange
<1>1. FileFacts /\ FileFacts'
  BY StepFacts
<1>2. /\ InMemory # [closed |-> TRUE] /\ InMemory' # [closed |-> TRUE]
  BY Distinct DEF InMemory
<1>3. Kept = FoundIn(mmap.cells, mmap.committed) /\ Kept' = FoundIn(mmap'.cells, mmap.committed)
  BY DEF Kept
<1>4. Disk = FoundIn(mmap.cells, mmap.cap) /\ Disk' = FoundIn(mmap'.cells, mmap'.cap)
  BY <1>1 DEF Disk, FileFacts
<1>5. Disk' \in {Disk, Nobody}
  <2>1. CASE mmap'.cap = mmap.committed
    <3>1. mmap.cap = mmap.committed
      BY <1>1, <2>1 DEF FileFacts
    <3> QED BY <1>4, <2>1, <3>1
  <2>2. CASE mmap'.cap # mmap.committed
    <3>1. mmap'.committed < mmap'.cap
      BY <1>1, <2>2 DEF FileFacts
    <3>2. FoundIn(mmap'.cells, mmap'.cap) = Nobody
      BY <1>1, <3>1, NothingAtEnd DEF FileFacts
    <3> QED BY <1>4, <3>2
  <2> QED BY <2>1, <2>2
<1> QED BY <1>2, <1>3, <1>5 DEF Store!StoreChange, Nobody

LEMMA OperationMaps ==
  ASSUME ReadInv, ReadInv', Operation
  PROVE  Store!StoreChange
<1> DEFINE old == mmap.cells
           new == mmap'.cells
           e == mmap.committed
           found == FoundIn(new, e) \in {FoundIn(old, e), Nobody}
<1>1. FileFacts /\ FileFacts'
  BY StepFacts
<1>2. /\ session = "open" /\ session' = "open"
      /\ OnlyBlocks(old, new, writeOffset') /\ Agree(old, new, writeOffset)
      /\ NoNewTrailer(old, new)
      /\ mmap'.committed = e /\ mmap.cap <= mmap'.cap
  BY OperationCells DEF BlocksWritten
<1>3. /\ old \in [Index -> Cell] /\ new \in [Index -> Cell]
      /\ AllSound(old) /\ InOrderAll(old)
      /\ writeOffset \in Nat /\ 1 <= writeOffset /\ TrailersBelow(old, writeOffset)
      /\ e \in 0..DiskSize /\ e \in Nat /\ DiskSize \in Nat
  BY <1>1, <1>2 DEF FileFacts
<1> DEFINE above == writeOffset'
<1>4. OnlyBlocks(old, new, above)
  BY <1>2
<1>5. found
  <2> HIDE DEF old, new, e, above
  <2>1. ASSUME ReaderAccepts(new, e)
        PROVE  new[e - 1] = old[e - 1] /\ TablesMatch(old, old[e - 1])
    <3>1. e >= 2 /\ new[e - 1].t = "trailer" /\ TablesMatch(new, new[e - 1])
      BY <2>1 DEF ReaderAccepts, HasTrailer, MinArchiveSize
    <3>2. e - 1 \in Index
      BY <1>3, <3>1 DEF Index
    <3>3. new[e - 1] = old[e - 1]
      BY <1>2, <3>1, <3>2 DEF NoNewTrailer
    <3>4. TrailerSound(old, e - 1)
      BY <1>3, <3>2 DEF AllSound
    <3> QED BY <1>3, <1>4, <3>1, <3>2, <3>3, <3>4, RowsNotNew
  <2> QED BY <1>2, <1>3, <2>1, FoundOrLost
<1> QED BY <1>2, <1>5, ChangeMaps

LEMMA SyncFailsMaps ==
  ASSUME ReadInv, ReadInv', SyncFails
  PROVE  Store!StoreChange
<1> DEFINE old == mmap.cells
           new == mmap'.cells
           e == mmap.committed
           found == FoundIn(new, e) \in {FoundIn(old, e), Nobody}
<1>1. FileFacts /\ FileFacts'
  BY StepFacts
<1>2. /\ session = "open" /\ session' = "open"
      /\ Agree(old, new, writeOffset) /\ NoNewTrailer(old, new)
      /\ \A i \in Index : (writeOffset <= i /\ i < e) => new[i].t # "trailer"
      /\ mmap'.committed = e /\ mmap.cap <= mmap'.cap
  BY SyncFailsFile
<1>3. /\ old \in [Index -> Cell] /\ new \in [Index -> Cell]
      /\ AllSound(old) /\ InOrderAll(old) /\ AllSound(new)
      /\ writeOffset \in Nat /\ 1 <= writeOffset /\ TrailersBelow(old, writeOffset)
      /\ e \in 0..DiskSize /\ e \in Nat /\ DiskSize \in Nat
  BY <1>1, <1>2 DEF FileFacts
<1>4. found
  <2> HIDE DEF old, new, e
  <2>1. ASSUME ReaderAccepts(new, e)
        PROVE  new[e - 1] = old[e - 1] /\ TablesMatch(old, old[e - 1])
    <3>1. e >= 2 /\ new[e - 1].t = "trailer" /\ TablesMatch(new, new[e - 1])
      BY <2>1 DEF ReaderAccepts, HasTrailer, MinArchiveSize
    <3>2. e - 1 \in Index /\ e - 1 < e /\ (e - 1) + 1 = e /\ \A i \in Index : i \in Nat
      BY <1>3, <3>1 DEF Index
    <3>3. new[e - 1] = old[e - 1]
      BY <1>2, <3>1, <3>2 DEF NoNewTrailer
    <3>4. e - 1 < writeOffset
      BY <1>2, <1>3, <3>1, <3>2
    <3>5. Agree(new, old, (e - 1) + 1)
      BY <1>2, <1>3, <3>2, <3>4 DEF Agree
    <3>6. TrailerSound(new, e - 1)
      BY <1>3, <3>2 DEF AllSound
    <3>7. TablesMatch(old, new[e - 1])
      BY <1>3, <3>1, <3>2, <3>5, <3>6, TablesStayMatched
    <3> QED BY <3>3, <3>7
  <2> QED BY <1>2, <1>3, <2>1, FoundOrLost
<1> QED BY <1>2, <1>4, ChangeMaps

-----------------------------------------------------------------------------
(* The end of a session *)

LEMMA EndMaps ==
  ASSUME session = "open", session' = "none", Disk' \in {Kept, Nobody}
  PROVE  Store!StoreEnd
<1>1. InMemory # [closed |-> TRUE]
  BY Distinct DEF InMemory
<1>2. InMemory' = [closed |-> TRUE] /\ Kept' = Disk'
  BY DEF InMemory, Kept
<1> QED BY <1>1, <1>2 DEF Store!StoreEnd, Nobody

\* A drop cuts the file off where it was committed, or beyond any trailer.
LEMMA DropMaps ==
  ASSUME ReadInv, ReadInv', Drop, session = "open"
  PROVE  Store!StoreEnd
<1> DEFINE old == mmap.cells
           new == mmap'.cells
           e == DropLen(mmap)
<1>1. FileFacts /\ FileFacts'
  BY StepFacts
<1>2. /\ new = CutAt(old, e) /\ mmap'.cap = e /\ session' = "none"
  BY DEF Drop, Unmap, NoSession
<1>3. /\ old \in [Index -> Cell] /\ new \in [Index -> Cell]
      /\ AllSound(old) /\ InOrderAll(old) /\ AllSound(new)
      /\ e \in 0..DiskSize /\ e \in Nat /\ e > 0
      /\ mmap.committed \in Nat
      /\ e = mmap.committed \/ mmap.committed < e
      /\ \A i \in Index : old[i].t = "trailer" => i < mmap.committed
  BY <1>1 DEF FileFacts, DropLen
<1> HIDE DEF old, e
<1>4. \A i \in Index : new[i] = IF i < e THEN old[i] ELSE Zero
  BY <1>2, <1>3, CutAtEffect
<1> HIDE DEF new
<1>5. Disk' = FoundIn(new, e) /\ Kept = FoundIn(old, mmap.committed)
  BY <1>2, <1>3 DEF Disk, Kept, new, old
<1>6. CASE e = mmap.committed
  <2>1. Agree(old, new, e)
    BY <1>4 DEF Agree
  <2>2. FoundIn(new, e) = FoundIn(old, e)
    BY <1>3, <2>1, FoundBelow
  <2>3. Disk' = Kept
    BY <1>5, <1>6, <2>2
  <2> QED BY <1>2, <2>3, EndMaps
<1>7. CASE mmap.committed < e
  <2>1. \A i \in Index : new[i].t = "trailer" => i < mmap.committed
    BY <1>3, <1>4 DEF Zero
  <2>2. FoundIn(new, e) = Nobody
    BY <1>3, <1>7, <2>1, NothingAtEnd
  <2>3. Disk' = Nobody
    BY <1>5, <2>2
  <2> QED BY <1>2, <2>3, EndMaps
<1> QED BY <1>3, <1>6, <1>7

LEMMA CrashMaps ==
  ASSUME ReadInv, ReadInv', Crash, session = "open"
  PROVE  Store!StoreEnd
<1>1. FileFacts
  BY StepFacts
<1>2. mmap'.cells = mmap.cells /\ mmap'.cap = mmap.cap /\ session' = "none"
  BY DEF Crash, Abandon, NoSession
<1>3. mmap.cap > 0 /\ (mmap.committed = mmap.cap \/ mmap.committed < mmap.cap)
  BY <1>1 DEF FileFacts
<1>4. Disk' = FoundIn(mmap.cells, mmap.cap) /\ Kept = FoundIn(mmap.cells, mmap.committed)
  BY <1>1, <1>2, <1>3 DEF Disk, Kept, FileFacts
<1>5. CASE mmap.committed = mmap.cap
  BY <1>2, <1>4, <1>5, EndMaps
<1>6. CASE mmap.committed < mmap.cap
  <2>1. FoundIn(mmap.cells, mmap.cap) = Nobody
    BY <1>1, <1>6, NothingAtEnd DEF FileFacts
  <2> QED BY <1>2, <1>4, <2>1, EndMaps
<1> QED BY <1>3, <1>5, <1>6

\* A session over damaged tables ends without a change.
LEMMA DamagedMaps ==
  ASSUME ReadInv, ReadInv', Drop \/ Crash, session = "damaged"
  PROVE  UNCHANGED Store!storeVars
<1>1. FileFacts
  BY StepFacts
<1>2. session' = "none"
  BY DEF Drop, Crash, NoSession
<1>3. mmap'.cells = mmap.cells /\ mmap'.cap = mmap.cap
  <2>1. CASE Crash
    BY <2>1 DEF Crash, Abandon
  <2>2. CASE Drop
    <3>1. mmap.len = mmap.cap
      BY DEF ReadInv, FileInv, IInv, SessionSound
    <3>2. DropLen(mmap) = mmap.cap
      BY <1>1, <3>1 DEF DropLen, FileFacts
    <3>3. mmap'.cells = CutAt(mmap.cells, mmap.cap) /\ mmap'.cap = mmap.cap
      BY <2>2, <3>2 DEF Drop, Unmap
    <3>4. mmap.cells \in [Index -> Cell] /\ mmap.cap \in Nat
      BY <1>1 DEF FileFacts
    <3>5. ASSUME NEW i \in Index PROVE CutAt(mmap.cells, mmap.cap)[i] = mmap.cells[i]
      <4>1. i >= mmap.cap => mmap.cells[i] = Zero
        BY DEF ReadInv, FileInv, IInv, FileSound
      <4>2. i \in Nat
        BY DEF Index
      <4> QED BY <3>4, <4>1, <4>2, CutAtEffect
    <3>6. CutAt(mmap.cells, mmap.cap) = mmap.cells
      BY <3>4, <3>5, CutAtEffect
    <3> QED BY <3>3, <3>6
  <2> QED BY <2>1, <2>2
<1>4. Disk' = Disk
  BY <1>3 DEF Disk
<1> QED BY <1>2, <1>4 DEF Store!storeVars, Kept, InMemory

-----------------------------------------------------------------------------
(* The start of a session *)

LEMMA CreateMaps ==
  ASSUME ReadInv, ReadInv', Create
  PROVE  Store!StoreCreate
<1>1. FileFacts'
  BY StepFacts
<1>2. /\ mmap.cap = 0 /\ session = "none" /\ session' = "open"
      /\ entryRows' = entryRows /\ dirEntries' = dirEntries
      /\ mmap'.committed = 0
  BY DEF Create, Extend, MapNew
<1>3. entryRows' = {} /\ dirEntries' = {}
  BY <1>2 DEF ReadInv, FileInv, IInv, SessionSound
<1>4. mmap'.cap > 0
  BY <1>1, <1>2 DEF FileFacts
<1>5. Disk' = Nobody
  <2>1. FoundIn(mmap'.cells, mmap'.cap) = Nobody
    BY <1>1, <1>2, <1>4, NothingAtEnd DEF FileFacts
  <2> QED BY <1>4, <2>1 DEF Disk
<1>6. Kept' = Nobody
  BY <1>2 DEF Kept, FoundIn, ReaderAccepts, HasTrailer, MinArchiveSize, Nobody
<1>7. InMemory' = [nodes |-> {}, names |-> {}]
  BY <1>2, <1>3 DEF InMemory, View
<1>8. Disk = [absent |-> TRUE]
  BY <1>2 DEF Disk
<1> QED BY <1>5, <1>6, <1>7, <1>8 DEF Store!StoreCreate, Nobody

\* The tables in memory are those of the last cell.
LEMMA LoadedView ==
  ASSUME NEW cells, NEW c
  PROVE  View(cells, Elements(c.entries), LoadedDirs(c.dirs))
            = View(cells, Elements(c.entries), Elements(c.dirs))
<1> DEFINE dirs == c.dirs
<1> HIDE DEF dirs
<1>1. { [path |-> d.path, id |-> d.id] : d \in Elements(dirs) }
            = { [path |-> d.path, id |-> d.id] : d \in LoadedDirs(dirs) }
  BY LoadedNames
<1> QED BY <1>1 DEF View, dirs

LEMMA OpenMaps ==
  ASSUME ReadInv, OpenIntact
  PROVE  Store!StoreOpen
<1> DEFINE c == mmap.cells[mmap.cap - 1]
<1>1. /\ session = "none" /\ session' = "open"
      /\ HasTrailer(mmap.cells, mmap.cap) /\ TablesMatch(mmap.cells, c)
      /\ mmap' = MapOpen(mmap)
      /\ entryRows' = Elements(c.entries) /\ dirEntries' = LoadedDirs(c.dirs)
  BY Zenon DEF OpenIntact
<1>2. mmap.cap >= 2 /\ mmap.cap # 0 /\ mmap.cells[0] = Header
  BY <1>1, FormatAssumption
     DEF HasTrailer, MinArchiveSize, ReadInv, FileInv, IInv, TypeOK, Mapped, HasHeader
<1>3. ReaderAccepts(mmap.cells, mmap.cap)
  BY <1>1, <1>2 DEF ReaderAccepts
<1>4. mmap'.cells = mmap.cells /\ mmap'.cap = mmap.cap /\ mmap'.committed = mmap.cap
  BY <1>1 DEF MapOpen
<1>5. Disk = View(mmap.cells, Elements(c.entries), Elements(c.dirs))
  BY <1>2, <1>3 DEF Disk, FoundIn
<1>6. Disk' = Disk /\ Kept = Disk /\ Kept' = Disk
  BY <1>1, <1>2, <1>4 DEF Disk, Kept
<1> HIDE DEF c
<1>7. InMemory' = Disk
  <2>1. InMemory' = View(mmap.cells, Elements(c.entries), LoadedDirs(c.dirs))
    BY <1>1, <1>4 DEF InMemory
  <2> QED BY <1>5, <2>1, LoadedView
<1>8. InMemory = [closed |-> TRUE]
  BY <1>1 DEF InMemory
<1>9. Disk \notin {[absent |-> TRUE], [unreadable |-> TRUE]}
  BY <1>5, Distinct DEF Nobody
<1> QED BY <1>6, <1>7, <1>8, <1>9 DEF Store!StoreOpen

LEMMA OpenDamagedMaps ==
  ASSUME OpenDamaged
  PROVE  UNCHANGED Store!storeVars
<1>1. /\ session = "none" /\ session' = "damaged"
      /\ mmap'.cells = mmap.cells /\ mmap'.cap = mmap.cap
  BY DEF OpenDamaged, MapOpen
<1>2. Disk' = Disk
  BY <1>1 DEF Disk
<1> QED BY <1>1, <1>2 DEF Store!storeVars, Kept, InMemory

LEMMA UnchangedMaps ==
  ASSUME UNCHANGED vars
  PROVE  UNCHANGED Store!storeVars
BY DEF vars, Store!storeVars, Disk, Kept, InMemory

-----------------------------------------------------------------------------
(* Syncing *)

\* The names that sync writes, and leaves in memory, are those it found there.
LEMMA SyncedNames ==
  ASSUME TypeOK, NEW dt \in DirTables
  PROVE  { [path |-> d.path, id |-> d.id] : d \in Elements(DirRowsOf(dt)) }
            = { [path |-> d.path, id |-> d.id] : d \in dirEntries }
<1> DEFINE name(d) == [path |-> d.path, id |-> d.id]
           rows == DirRowsOf(dt)
<1>1. /\ dt \in Seq(DirEntry) /\ Elements(dt) = dirEntries
      /\ rows \in Seq(DirRow) /\ Len(rows) = Len(dt)
      /\ \A i \in 1..Len(dt) : rows[i] = name(dt[i])
  BY DirTableType
<1>2. \A d : name(name(d)) = name(d)
  OBVIOUS
<1>3. /\ Elements(rows) = { rows[i] : i \in 1..Len(dt) }
      /\ dirEntries = { dt[i] : i \in 1..Len(dt) }
  BY <1>1 DEF Elements
<1> HIDE DEF name, rows
<1>4. { name(d) : d \in Elements(rows) } = { name(d) : d \in dirEntries }
  BY <1>1, <1>2, <1>3
<1> QED BY <1>4 DEF name, rows

\* What a file holds of the tables that sync writes is what the session has.
LEMMA SyncedView ==
  ASSUME ReadInv, session = "open", NEW et \in EntryTables, NEW dt \in DirTables,
         NEW cells, Agree(mmap.cells, cells, writeOffset)
  PROVE  View(cells, Elements(et), Elements(DirRowsOf(dt))) = InMemory
<1>1. /\ TypeOK /\ entryRows \in SUBSET EntryRow /\ Unplaced(entryRows)
      /\ writeOffset \in 0..DiskSize
      /\ RowsSound(mmap.cells, entryRows, dirEntries, trailer.nextId, writeOffset)
  BY OpenFacts DEF ReadInv, FileInv, IInv, TypeOK
<1>2. Elements(et) = entryRows
  BY <1>1, EntryTableType
<1>3. View(cells, entryRows, dirEntries) = View(mmap.cells, entryRows, dirEntries)
  BY <1>1, ViewBelow
<1>4. View(cells, entryRows, Elements(DirRowsOf(dt))) = View(cells, entryRows, dirEntries)
  BY <1>1, SyncedNames DEF View
<1> QED BY <1>2, <1>3, <1>4 DEF InMemory

\* What sync has written of its tables, in a mapping that is still as large.
LEMMA Written ==
  ASSUME ReadInv, session = "open", NEW et \in EntryTables, NEW dt \in DirTables,
         NEW n \in 1..(Len(et) + Len(dt) + 1), writeOffset + n <= DiskSize,
         ExtendEach(SyncBase, TableCells(et, dt, n)).cap <= DiskSize
  PROVE  LET w == ExtendEach(SyncBase, TableCells(et, dt, n))
         IN  /\ w.cells = Extend(SyncBase, TableCells(et, dt, n)).cells
             /\ w.cells \in [Index -> Cell]
             /\ w.len = writeOffset + n
             /\ w.cap \in 0..DiskSize
             /\ mmap.cap <= w.cap /\ writeOffset + n <= w.cap
             /\ Agree(mmap.cells, w.cells, writeOffset)
             /\ \A p \in Index : w.cells[p].t = "trailer" =>
                    \/ w.cells[p] = mmap.cells[p]
                    \/ n = Len(et) + Len(dt) + 1 /\ p = writeOffset + n - 1
             /\ \A k \in 1..n : w.cells[writeOffset + k - 1] = TableCells(et, dt, n)[k]
<1> DEFINE T == TableCells(et, dt, n)
           w == ExtendEach(SyncBase, T)
<1>1. /\ IInv /\ TypeOK /\ mmap \in Mapped /\ writeOffset \in 0..DiskSize
      /\ writeOffset \in Nat /\ mmap.cap \in Nat
  BY FormatAssumption DEF ReadInv, FileInv, IInv, TypeOK, Mapped
<1>2. n \in 0..(Len(et) + Len(dt) + 1) /\ n \in Nat /\ writeOffset + n \in Nat
  BY <1>1, EntryTableType, DirTableType
<1>3. /\ SyncBase.len = writeOffset /\ SyncBase.cap = Reserved(mmap, writeOffset)
      /\ Len(T) = n
  BY <1>1, <1>2, SetLenEffect DEF SyncBase, TableCells
<1>4. /\ w.cap = ReservedEach(SyncBase, writeOffset + n)
      /\ w.cells = Extend(SyncBase, T).cells
      /\ w.len = writeOffset + n
  BY <1>3 DEF ExtendEach, WithCap, Extend
<1>5. /\ w.cap \in 0..DiskSize /\ SyncBase.cap <= w.cap /\ writeOffset + n <= w.cap
  BY <1>1, <1>2, <1>4, SyncedCapacity
<1>6. mmap.cap <= w.cap
  <2>1. mmap.cap <= SyncBase.cap /\ SyncBase.cap \in Nat
    BY <1>1, <1>3, ReservedBound
  <2>2. w.cap \in Nat
    BY <1>5, FormatAssumption
  <2> QED BY <1>1, <1>5, <2>1, <2>2
<1> HIDE DEF w
<1>7. Agree(mmap.cells, w.cells, writeOffset)
  BY <1>1, <1>2, <1>4, <1>5, SyncedFile
<1>8. /\ w.cells \in [Index -> Cell]
      /\ \A p \in Index : w.cells[p].t = "trailer" =>
            \/ w.cells[p] = mmap.cells[p]
            \/ n = Len(et) + Len(dt) + 1 /\ p = writeOffset + n - 1
      /\ \A k \in 1..n : w.cells[writeOffset + k - 1] = T[k]
  BY <1>2, <1>4, <1>5, SyncedCells
<1> QED BY <1>4, <1>5, <1>6, <1>7, <1>8 DEF w

\* A sync that ends makes the session's view the archive.
LEMMA SyncMaps ==
  ASSUME ReadInv, ReadInv', Sync
  PROVE  Store!StoreSync
<1> DEFINE N(et, dt) == Len(et) + Len(dt) + 1
<1>1. /\ session = "open" /\ session' = "open" /\ ~dirty'
      /\ entryRows' = entryRows
  BY DEF Sync
<1>2. PICK et \in EntryTables, dt \in DirTables :
          /\ writeOffset + Len(TableCells(et, dt, N(et, dt))) <= DiskSize
          /\ ExtendEach(SyncBase, TableCells(et, dt, N(et, dt))).cap <= DiskSize
          /\ mmap' = Commit(ExtendEach(SyncBase, TableCells(et, dt, N(et, dt))))
          /\ dirEntries' = Sorted(dt)
  BY DEF Sync
<1> DEFINE n == N(et, dt)
           w == ExtendEach(SyncBase, TableCells(et, dt, n))
           new == mmap'.cells
<1>3. FileFacts /\ FileFacts' /\ TypeOK
  BY StepFacts DEF ReadInv, FileInv, IInv
<1>4. n \in 1..(Len(et) + Len(dt) + 1) /\ Len(TableCells(et, dt, n)) = n /\ n \in Nat
  <2>1. n \in Nat /\ 1 <= n /\ n = Len(et) + Len(dt) + 1
    BY <1>3, EntryTableType, DirTableType
  <2> HIDE DEF n
  <2> QED BY <2>1 DEF TableCells
<1>5. /\ w.cells \in [Index -> Cell] /\ w.len = writeOffset + n
      /\ Agree(mmap.cells, w.cells, writeOffset)
  <2>1. writeOffset + n <= DiskSize /\ w.cap <= DiskSize
    BY <1>2, <1>4
  <2> HIDE DEF n
  <2> QED BY <1>1, <1>4, <2>1, Written
<1>6. /\ new = CutAt(w.cells, w.len) /\ mmap'.cap = w.len /\ mmap'.committed = w.len
      /\ mmap'.len = w.len
  BY <1>2 DEF Commit
<1> HIDE DEF n, N, w
<1>7. writeOffset \in Nat /\ writeOffset <= w.len /\ w.len \in Nat /\ w.len > 0
  BY <1>1, <1>3, <1>4, <1>5 DEF FileFacts
<1>8. Agree(mmap.cells, new, writeOffset)
  <2>1. \A i \in Index : new[i] = IF i < w.len THEN w.cells[i] ELSE Zero
    BY <1>5, <1>6, <1>7, CutAtEffect
  <2>2. \A i \in Index : i \in Nat
    BY DEF Index
  <2> QED BY <1>5, <1>7, <2>1, <2>2 DEF Agree
<1>9. InMemory' = InMemory
  <2> DEFINE rows == DirRowsOf(dt)
  <2>1. View(new, Elements(et), Elements(rows)) = InMemory
    BY <1>1, <1>8, SyncedView
  <2>2. Elements(et) = entryRows
    BY <1>3, EntryTableType
  <2>3. InMemory' = View(new, entryRows, LoadedDirs(rows))
    BY <1>1, <1>2 DEF InMemory, Sorted
  <2> HIDE DEF new, rows
  <2>4. View(new, entryRows, LoadedDirs(rows)) = View(new, entryRows, Elements(rows))
    BY LoadedNames DEF View
  <2> QED BY <2>1, <2>2, <2>3, <2>4
<1>10. FoundIn(new, mmap'.committed) = InMemory'
  <2> DEFINE c == new[mmap'.committed - 1]
  <2>1. /\ mmap'.committed >= MinArchiveSize /\ c.t = "trailer" /\ TablesMatch(new, c)
        /\ entryRows' = Elements(c.entries) /\ dirEntries' = LoadedDirs(c.dirs)
    BY <1>1 DEF ReadInv, CleanStored, SessionStored
  <2>2. new[0] = Header
    BY <1>1 DEF ReadInv, HasHeader
  <2>3. FoundIn(new, mmap'.committed) = View(new, Elements(c.entries), Elements(c.dirs))
    BY <2>1, <2>2 DEF FoundIn, ReaderAccepts, HasTrailer
  <2>4. InMemory' = View(new, entryRows', dirEntries')
    BY <1>1 DEF InMemory
  <2> HIDE DEF c, new
  <2>5. View(new, Elements(c.entries), LoadedDirs(c.dirs))
            = View(new, Elements(c.entries), Elements(c.dirs))
    BY LoadedView
  <2> QED BY <2>1, <2>3, <2>4, <2>5
<1>11. Disk' = InMemory' /\ Kept' = InMemory'
  BY <1>1, <1>6, <1>7, <1>10 DEF Disk, Kept
<1>12. InMemory # [closed |-> TRUE]
  BY <1>1, Distinct DEF InMemory
<1> QED BY <1>9, <1>11, <1>12 DEF Store!StoreSync

\* Tables that can be pieced together again from what a file still holds.
LEMMA FallBack ==
  ASSUME NEW cells \in [Index -> Cell], NEW other, NEW p \in Index, NEW limit \in Nat,
         cells[p].t = "trailer", TrailerSound(cells, p), Agree(cells, other, limit),
         RowsLeft(cells, cells[p], limit), TablesMatch(other, cells[p])
  PROVE  TablesMatch(cells, cells[p])
<1> DEFINE c == cells[p]
<1>1. /\ \A i \in 1..Len(c.entries) : c.trailer.entryOff + i - 1 \in Index
      /\ \A i \in 1..Len(c.dirs) : c.trailer.dirOff + i - 1 \in Index
  BY TablePlaces
<1>2. TablesMatch(other, c) /\ RowsLeft(cells, c, limit)
  OBVIOUS
<1> HIDE DEF c
<1>3. \A k \in Index : k >= limit \/ cells[k] = other[k]
  <2>1. \A k \in Index : k \in Nat
    BY DEF Index
  <2> QED BY <2>1 DEF Agree
<1>4. ASSUME NEW i \in 1..Len(c.entries)
      PROVE  cells[c.trailer.entryOff + i - 1] = EntryCell(c.entries[i])
  BY <1>1, <1>2, <1>3 DEF TablesMatch, RowsLeft
<1>5. ASSUME NEW i \in 1..Len(c.dirs)
      PROVE  cells[c.trailer.dirOff + i - 1] = DirCell(c.dirs[i])
  BY <1>1, <1>2, <1>3 DEF TablesMatch, RowsLeft
<1> QED BY <1>4, <1>5 DEF TablesMatch, c

(***************************************************************************)
(* A sync that is killed: it has taken effect if its trailer is there and   *)
(* ends the file.  A file that ends with another trailer is the one of the  *)
(* last sync, with the tables that TailKept says the session still had.     *)
(***************************************************************************)
LEMMA SyncCrashMaps ==
  ASSUME ReadInv, ReadInv', TailKept, SyncCrash
  PROVE  Store!StoreEnd \/ Store!StoreEndInSync
<1>1. session = "open" /\ session' = "none"
  BY DEF SyncCrash, NoSession
<1>2. PICK et \in EntryTables, dt \in DirTables :
      \E n \in 1..(Len(et) + Len(dt) + 1) :
          /\ writeOffset + n <= DiskSize
          /\ ExtendEach(SyncBase, TableCells(et, dt, n)).cap <= DiskSize
          /\ mmap' = Abandon(ExtendEach(SyncBase, TableCells(et, dt, n)))
  BY DEF SyncCrash
<1>3. PICK n \in 1..(Len(et) + Len(dt) + 1) :
          /\ writeOffset + n <= DiskSize
          /\ ExtendEach(SyncBase, TableCells(et, dt, n)).cap <= DiskSize
          /\ mmap' = Abandon(ExtendEach(SyncBase, TableCells(et, dt, n)))
  BY <1>2
<1> DEFINE T == TableCells(et, dt, n)
           w == ExtendEach(SyncBase, T)
           old == mmap.cells
           new == mmap'.cells
           e == mmap'.cap
<1>4. FileFacts /\ FileFacts' /\ TypeOK
  BY StepFacts DEF ReadInv, FileInv, IInv
<1>5. new = w.cells /\ e = w.cap
  BY <1>3 DEF Abandon
<1>6. /\ mmap.cap <= e /\ writeOffset + n <= e
      /\ Agree(old, new, writeOffset)
      /\ \A p \in Index : new[p].t = "trailer" =>
            \/ new[p] = old[p]
            \/ n = Len(et) + Len(dt) + 1 /\ p = writeOffset + n - 1
      /\ \A k \in 1..n : new[writeOffset + k - 1] = T[k]
  BY <1>1, <1>3, <1>5, Written
<1>7. /\ old \in [Index -> Cell] /\ new \in [Index -> Cell]
      /\ AllSound(old) /\ InOrderAll(old) /\ TrailersBelow(old, writeOffset)
      /\ writeOffset \in Nat /\ 1 <= writeOffset
      /\ e \in 0..DiskSize /\ e \in Nat /\ DiskSize \in Nat /\ n \in Nat /\ e > 0
      /\ mmap.committed \in Nat /\ mmap.cap \in Nat /\ mmap.committed <= mmap.cap
      /\ \A i \in Index : old[i].t = "trailer" => i < mmap.committed
  <2>1. n \in Nat /\ 1 <= n
    BY <1>4, EntryTableType, DirTableType
  <2>2. writeOffset \in Nat /\ e \in Nat /\ e \in 0..DiskSize /\ DiskSize \in Nat
    BY <1>4 DEF FileFacts
  <2>3. e > 0
    BY <1>6, <2>1, <2>2
  <2> QED BY <1>1, <1>4, <2>1, <2>2, <2>3 DEF FileFacts
<1>8. Disk' = FoundIn(new, e) /\ Kept = FoundIn(old, mmap.committed)
  BY <1>1, <1>7 DEF Disk, Kept
<1> HIDE DEF w, old, new, e
<1>9. CASE ~ReaderAccepts(new, e)
  <2>1. Disk' = Nobody
    BY <1>8, <1>9 DEF FoundIn, Nobody
  <2> QED BY <1>1, <2>1, EndMaps
<1>10. CASE ReaderAccepts(new, e) /\ n = Len(et) + Len(dt) + 1 /\ e = writeOffset + n
  <2> DEFINE c == TrailerCell(SyncedTrailer(et, dt), et, DirRowsOf(dt))
  <2>1. new[e - 1] = c
    <3>1. n = Len(et) + Len(dt) + 1 /\ e - 1 = writeOffset + n - 1
      BY <1>7, <1>10
    <3>2. \A k \in 1..n : new[writeOffset + k - 1] = TableCells(et, dt, n)[k]
      BY <1>6
    <3>3. new[writeOffset + n - 1] = c
      BY <1>4, <1>7, <3>1, <3>2, SyncedTables
    <3> QED BY <3>1, <3>3
  <2>2. c.entries = et /\ c.dirs = DirRowsOf(dt)
    BY DEF TrailerCell
  <2>3. FoundIn(new, e) = View(new, Elements(et), Elements(DirRowsOf(dt)))
    BY <1>10, <2>1, <2>2 DEF FoundIn
  <2>4. Agree(mmap.cells, new, writeOffset)
    BY <1>6 DEF old
  <2>5. FoundIn(new, e) = InMemory
    BY <1>1, <2>3, <2>4, SyncedView
  <2>6. Disk' = InMemory /\ Kept' = Disk' /\ InMemory' = [closed |-> TRUE]
    BY <1>1, <1>8, <2>5 DEF Kept, InMemory
  <2>7. InMemory # [closed |-> TRUE]
    BY <1>1, Distinct DEF InMemory
  <2> QED BY <2>6, <2>7 DEF Store!StoreEndInSync
<1>11. CASE ReaderAccepts(new, e) /\ ~(n = Len(et) + Len(dt) + 1 /\ e = writeOffset + n)
  <2>1. e >= 2 /\ new[e - 1].t = "trailer" /\ TablesMatch(new, new[e - 1])
    BY <1>11 DEF ReaderAccepts, HasTrailer, MinArchiveSize
  <2>2. e - 1 \in Index
    BY <1>7, <2>1 DEF Index
  <2>3. new[e - 1] = old[e - 1]
    <3>1. \/ new[e - 1] = old[e - 1]
          \/ n = Len(et) + Len(dt) + 1 /\ e - 1 = writeOffset + n - 1
      BY <1>6, <2>1, <2>2
    <3>2. e - 1 = writeOffset + n - 1 => e = writeOffset + n
      BY <1>7
    <3> QED BY <1>11, <3>1, <3>2
  <2>4. e = mmap.committed
    <3>1. e - 1 < mmap.committed
      BY <1>7, <2>1, <2>2, <2>3
    <3> QED BY <1>6, <1>7, <3>1
  <2>5. TrailerSound(old, e - 1)
    BY <1>7, <2>2 DEF AllSound
  <2>6. RowsLeft(old, old[e - 1], writeOffset)
    BY <1>1, <1>7, <2>1, <2>3, <2>4 DEF TailKept, old
  <2>7. TablesMatch(old, old[e - 1])
    BY <1>6, <1>7, <2>1, <2>2, <2>3, <2>5, <2>6, FallBack
  <2>8. FoundIn(new, e) \in {FoundIn(old, e), Nobody}
    BY <1>6, <1>7, <2>3, <2>7, FoundOrLost
  <2>9. Disk' \in {Kept, Nobody}
    BY <1>8, <2>4, <2>8
  <2> QED BY <1>1, <2>9, EndMaps
<1> QED BY <1>9, <1>10, <1>11

-----------------------------------------------------------------------------
(* The refinement *)

LEMMA InitMaps ==
  ASSUME Init
  PROVE  Store!StoreInit
BY DEF Init, NoFile, Store!StoreInit, Disk, Kept, InMemory

LEMMA StepMaps ==
  ASSUME ReadInv, ReadInv', TailKept, [Next]_vars
  PROVE  [Store!StoreNext]_(Store!storeVars)
<1>1. CASE UNCHANGED vars \/ OpenRejected
  BY <1>1, UnchangedMaps DEF OpenRejected
<1>2. CASE Create
  BY <1>2, CreateMaps DEF Store!StoreNext
<1>3. CASE OpenIntact
  BY <1>3, OpenMaps DEF Store!StoreNext
<1>4. CASE OpenDamaged
  BY <1>4, OpenDamagedMaps
<1>5. CASE Operation
  BY <1>5, OperationMaps DEF Store!StoreNext
<1>6. CASE Sync
  BY <1>6, SyncMaps DEF Store!StoreNext
<1>7. CASE SyncFails
  BY <1>7, SyncFailsMaps DEF Store!StoreNext
<1>8. CASE SyncCrash
  BY <1>8, SyncCrashMaps DEF Store!StoreNext
<1>9. CASE Drop \/ Crash
  <2>1. session \in {"open", "damaged"}
    BY <1>9 DEF Drop, Crash, ReadInv, FileInv, IInv, TypeOK
  <2> QED BY <1>9, <2>1, DropMaps, CrashMaps, DamagedMaps DEF Store!StoreNext
<1> QED BY <1>1, <1>2, <1>3, <1>4, <1>5, <1>6, <1>7, <1>8, <1>9 DEF Next

(***************************************************************************)
(* The writer implements ArchiveStore: a sync replaces the archive that     *)
(* readers find in one step; a failed operation, a failed sync, a drop or a *)
(* kill, one in the middle of a sync included, leaves the archive of the    *)
(* last sync that took effect, or a file that readers refuse.               *)
(***************************************************************************)
THEOREM StoreIsImplemented == Spec => StoreRefined
<1>1. Init => Store!StoreInit
  BY InitMaps
<1>2. ReadInv /\ ReadInv' /\ TailKept /\ [Next]_vars
        => [Store!StoreNext]_(Store!storeVars)
  BY StepMaps
<1> QED BY <1>1, <1>2, ReadInvariance, TailIsKept, PTL
        DEF Spec, StoreRefined, Store!StoreSpec

=============================================================================
