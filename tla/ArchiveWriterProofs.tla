------------------------- MODULE ArchiveWriterProofs -------------------------
(***************************************************************************)
(* What is proved of the archive writer for every value of the constants.   *)
(***************************************************************************)
EXTENDS ArchiveWriter, TLAPS, FiniteSetTheorems, SequenceTheorems

-----------------------------------------------------------------------------
(* Arithmetic of the file *)

LEMMA Multiple ==
  ASSUME NEW a \in Nat \ {0}, NEW k \in Nat
  PROVE  /\ k * a \in Nat
         /\ (k * a) % a = 0
  OBVIOUS

LEMMA DivMod ==
  ASSUME NEW a \in Nat \ {0}, NEW n \in Nat
  PROVE  /\ n \div a \in Nat
         /\ n = (n \div a) * a + (n % a)
         /\ n % a \in 0..(a - 1)
  OBVIOUS

LEMMA AlignedBound ==
  ASSUME NEW n \in Nat
  PROVE  /\ Aligned(n) \in Nat
         /\ Aligned(n) >= n
         /\ Aligned(n) % Alignment = 0
<1> DEFINE k == (n + Alignment - 1) \div Alignment
<1>1. Alignment \in Nat \ {0}
  BY FormatAssumption
<1>2. k \in Nat /\ n + Alignment - 1 = k * Alignment + ((n + Alignment - 1) % Alignment)
      /\ (n + Alignment - 1) % Alignment \in 0..(Alignment - 1)
  BY <1>1, DivMod, n + Alignment - 1 \in Nat
<1> HIDE DEF k
<1>3. k * Alignment \in Nat /\ (k * Alignment) % Alignment = 0
  BY <1>1, <1>2, Multiple
<1>4. Aligned(n) = k * Alignment
  BY DEF Aligned, k
<1>5. k * Alignment >= n
  BY <1>1, <1>2, <1>3
<1> QED BY <1>3, <1>4, <1>5

LEMMA RoundUpBound ==
  ASSUME NEW n \in Nat
  PROVE  RoundUp(n) \in Nat /\ RoundUp(n) > n
<1> DEFINE k == n \div Chunk
<1>1. Chunk \in Nat \ {0}
  BY ChunkAssumption, FormatAssumption
<1>2. k \in Nat /\ n = k * Chunk + (n % Chunk) /\ n % Chunk \in 0..(Chunk - 1)
  BY <1>1, DivMod
<1> HIDE DEF k
<1>3. k * Chunk \in Nat
  BY <1>1, <1>2, Multiple
<1>4. (k + 1) * Chunk = k * Chunk + Chunk
  BY <1>1, <1>2
<1>5. RoundUp(n) = (k + 1) * Chunk
  BY DEF RoundUp, k
<1> QED BY <1>1, <1>2, <1>3, <1>4, <1>5

LEMMA ReservedBound ==
  ASSUME NEW m, m.cap \in Nat, NEW n \in Nat
  PROVE  /\ Reserved(m, n) \in Nat
         /\ Reserved(m, n) >= n
         /\ Reserved(m, n) >= m.cap
  BY RoundUpBound DEF Reserved

LEMMA ReservedEachBound ==
  ASSUME NEW m, m.cap \in Nat, NEW n \in Nat
  PROVE  /\ ReservedEach(m, n) \in Nat
         /\ ReservedEach(m, n) >= n
         /\ ReservedEach(m, n) >= m.cap
<1> DEFINE k == (n + Chunk - 1) \div Chunk
<1>1. Chunk \in Nat \ {0} /\ m.cap \in Nat
  BY ChunkAssumption, FormatAssumption
<1>2. k \in Nat /\ n + Chunk - 1 = k * Chunk + ((n + Chunk - 1) % Chunk)
      /\ (n + Chunk - 1) % Chunk \in 0..(Chunk - 1)
  BY <1>1, DivMod, n + Chunk - 1 \in Nat
<1> HIDE DEF k
<1>3. k * Chunk \in Nat /\ k * Chunk >= n
  BY <1>1, <1>2, Multiple
<1>4. RoundUp(m.cap + 1) \in Nat /\ RoundUp(m.cap + 1) > m.cap + 1
  BY <1>1, RoundUpBound
<1>5. ReservedEach(m, n) = IF n <= m.cap THEN m.cap
                           ELSE IF n <= RoundUp(m.cap + 1) THEN RoundUp(m.cap + 1)
                           ELSE k * Chunk
  BY DEF ReservedEach, k
<1> QED BY <1>1, <1>3, <1>4, <1>5

-----------------------------------------------------------------------------
(* What the methods of the mapped file leave *)

LEMMA ExtendEffect ==
  ASSUME NEW m \in Mapped, NEW data \in Seq(Cell),
         m.len + Len(data) <= DiskSize
  PROVE  LET e == Extend(m, data)
         IN  /\ e.cells \in [Index -> Cell]
             /\ e.len = m.len + Len(data)
             /\ e.cap = Reserved(m, m.len + Len(data))
             /\ e.committed = m.committed
             /\ \A i \in Index :
                    e.cells[i] = IF i \in m.len..(m.len + Len(data) - 1)
                                 THEN data[i - m.len + 1] ELSE m.cells[i]
<1>1. m.cells \in [Index -> Cell] /\ m.len \in Nat
  BY FormatAssumption DEF Mapped
<1>2. \A i \in Index : i \in m.len..(m.len + Len(data) - 1) =>
          data[i - m.len + 1] \in Cell
  BY <1>1 DEF Index
<1> QED BY <1>1, <1>2 DEF Extend

LEMMA SetLenEffect ==
  ASSUME NEW m \in Mapped, NEW n \in 0..DiskSize
  PROVE  LET e == SetLen(m, n)
         IN  /\ e.cells \in [Index -> Cell]
             /\ e.len = n
             /\ e.cap = Reserved(m, n)
             /\ e.committed = m.committed
             /\ \A i \in Index :
                    e.cells[i] = IF i \in m.len..(n - 1) THEN Zero ELSE m.cells[i]
             /\ Fits(m, n) => e \in Mapped
<1>1. m.cells \in [Index -> Cell] /\ m.len \in Nat /\ Zero \in Cell
  BY FormatAssumption DEF Mapped, Cell, Zero
<1>2. Reserved(m, n) \in Nat
  BY ReservedBound, FormatAssumption DEF Mapped
<1>3. Fits(m, n) => Reserved(m, n) \in 0..DiskSize
  BY <1>2, FormatAssumption DEF Fits
<1> QED BY <1>1, <1>3 DEF SetLen, Mapped

LEMMA CutAtEffect ==
  ASSUME NEW cells \in [Index -> Cell], NEW n \in Nat
  PROVE  /\ CutAt(cells, n) \in [Index -> Cell]
         /\ \A i \in Index : CutAt(cells, n)[i] = IF i < n THEN cells[i] ELSE Zero
<1>1. Zero \in Cell
  BY DEF Cell, Zero
<1> QED BY <1>1 DEF CutAt

-----------------------------------------------------------------------------
(* Finite tables *)

LEMMA ImageFinite ==
  ASSUME NEW S, IsFiniteSet(S), NEW f, DOMAIN f = S, f = [x \in S |-> f[x]]
  PROVE  IsFiniteSet({f[x] : x \in S})
<1> DEFINE T == {f[x] : x \in S}
<1>1. f \in Surjection(S, T)
  BY DEF Surjection
<1> QED BY <1>1, FS_Surjection

LEMMA ElementsFinite ==
  ASSUME NEW S, NEW s \in Seq(S)
  PROVE  /\ IsFiniteSet(Elements(s))
         /\ Elements(s) \subseteq S
         /\ \A x \in Elements(s) : \E i \in 1..Len(s) : x = s[i]
         /\ \A i \in 1..Len(s) : s[i] \in Elements(s)
<1>1. IsFiniteSet(DOMAIN s)
  BY FS_Interval
<1>2. s = [i \in DOMAIN s |-> s[i]]
  OBVIOUS
<1> QED BY <1>1, <1>2, ImageFinite DEF Elements

LEMMA EntryTableType ==
  ASSUME TypeOK, NEW et \in EntryTables
  PROVE  /\ et \in Seq(EntryRow)
         /\ Elements(et) = entryRows
<1>1. Cardinality(entryRows) \in Nat
  BY FS_CardinalityType DEF TypeOK
<1> QED BY <1>1 DEF EntryTables, TypeOK

LEMMA DirTableType ==
  ASSUME TypeOK, NEW dt \in DirTables
  PROVE  /\ dt \in Seq(DirEntry)
         /\ Elements(dt) = dirEntries
         /\ DirRowsOf(dt) \in Seq(DirRow)
         /\ Len(DirRowsOf(dt)) = Len(dt)
         /\ \A i \in 1..Len(dt) :
                DirRowsOf(dt)[i] = [path |-> dt[i].path, id |-> dt[i].id]
<1>1. Cardinality(dirEntries) \in Nat
  BY FS_CardinalityType DEF TypeOK
<1>2. dt \in Seq(DirEntry) /\ Elements(dt) = dirEntries
  BY <1>1 DEF DirTables, TypeOK
<1>3. ASSUME NEW i \in 1..Len(dt)
      PROVE  [path |-> dt[i].path, id |-> dt[i].id] \in DirRow
  <2>1. dt[i] \in DirEntry
    BY <1>2
  <2> QED BY <2>1 DEF DirEntry, DirRow
<1> QED BY <1>2, <1>3 DEF DirRowsOf

LEMMA LoadedDirsType ==
  ASSUME NEW dirs \in Seq(DirRow)
  PROVE  /\ LoadedDirs(dirs) \subseteq DirEntry
         /\ IsFiniteSet(LoadedDirs(dirs))
         /\ \A d \in LoadedDirs(dirs) : \E i \in 1..Len(dirs) :
                d.path = dirs[i].path /\ d.id = dirs[i].id
         /\ \A i \in 1..Len(dirs) : \E d \in LoadedDirs(dirs) :
                d.path = dirs[i].path /\ d.id = dirs[i].id
<1> DEFINE f == [i \in DOMAIN dirs |->
                    [path |-> dirs[i].path, id |-> dirs[i].id, at |-> i]]
<1>1. IsFiniteSet(DOMAIN dirs)
  BY FS_Interval
<1>2. IsFiniteSet({f[i] : i \in DOMAIN dirs})
  <2>1. DOMAIN f = DOMAIN dirs /\ f = [i \in DOMAIN dirs |-> f[i]]
    OBVIOUS
  <2> HIDE DEF f
  <2> QED BY <1>1, <2>1, ImageFinite
<1>3. LoadedDirs(dirs) = {f[i] : i \in DOMAIN dirs}
  BY DEF LoadedDirs
<1> HIDE DEF f
<1>4. ASSUME NEW i \in 1..Len(dirs)
      PROVE  [path |-> dirs[i].path, id |-> dirs[i].id, at |-> i] \in DirEntry
  <2>1. dirs[i] \in DirRow /\ i \in Nat
    OBVIOUS
  <2> QED BY <2>1 DEF DirEntry, DirRow
<1>5. \A d \in LoadedDirs(dirs) : \E i \in 1..Len(dirs) :
          d = [path |-> dirs[i].path, id |-> dirs[i].id, at |-> i]
  BY DEF LoadedDirs
<1>6. \A i \in 1..Len(dirs) :
          [path |-> dirs[i].path, id |-> dirs[i].id, at |-> i] \in LoadedDirs(dirs)
  BY DEF LoadedDirs
<1>7. LoadedDirs(dirs) \subseteq DirEntry
  BY <1>4, <1>5
<1>8. ASSUME NEW d \in LoadedDirs(dirs)
      PROVE  \E i \in 1..Len(dirs) : d.path = dirs[i].path /\ d.id = dirs[i].id
  BY <1>5
<1>9. ASSUME NEW i \in 1..Len(dirs)
      PROVE  \E d \in LoadedDirs(dirs) : d.path = dirs[i].path /\ d.id = dirs[i].id
  <2> DEFINE d == [path |-> dirs[i].path, id |-> dirs[i].id, at |-> i]
  <2>1. d \in LoadedDirs(dirs) /\ d.path = dirs[i].path /\ d.id = dirs[i].id
    BY <1>6
  <2> QED BY <2>1
<1> QED BY <1>2, <1>3, <1>7, <1>8, <1>9

-----------------------------------------------------------------------------
(* What sync writes *)

LEMMA SyncedTrailerType ==
  ASSUME TypeOK, NEW et \in EntryTables, NEW dt \in DirTables,
         writeOffset + Len(et) + Len(dt) <= DiskSize
  PROVE  SyncedTrailer(et, dt) \in Trailer
<1>1. Len(et) \in Nat /\ Len(dt) \in Nat
  BY EntryTableType, DirTableType
<1>2. writeOffset \in Nat /\ writeOffset <= DiskSize /\ DiskSize \in Nat
      /\ trailer.nextId \in 1..MaxId
  BY FormatAssumption DEF TypeOK, Trailer
<1>3. writeOffset + Len(et) \in 0..DiskSize /\ writeOffset + Len(et) + Len(dt) + 1 \in Nat
  BY <1>1, <1>2
<1> QED BY <1>1, <1>2, <1>3 DEF SyncedTrailer, Trailer

LEMMA TableCellsType ==
  ASSUME TypeOK, NEW et \in EntryTables, NEW dt \in DirTables,
         NEW n \in 0..(Len(et) + Len(dt) + 1), writeOffset + n <= DiskSize
  PROVE  /\ TableCells(et, dt, n) \in Seq(Cell)
         /\ Len(TableCells(et, dt, n)) = n
<1> DEFINE T == TableCells(et, dt, n)
<1>1. /\ et \in Seq(EntryRow) /\ dt \in Seq(DirEntry)
      /\ DirRowsOf(dt) \in Seq(DirRow) /\ Len(DirRowsOf(dt)) = Len(dt)
      /\ Len(et) \in Nat /\ Len(dt) \in Nat /\ n \in Nat
  BY EntryTableType, DirTableType
<1>2. ASSUME NEW i \in 1..n PROVE T[i] \in Cell
  <2>1. CASE i <= Len(et)
    <3>1. et[i] \in EntryRow
      BY <1>1, <2>1
    <3>2. T[i] = EntryCell(et[i])
      BY <2>1 DEF TableCells
    <3> QED BY <3>1, <3>2 DEF EntryCell, Cell
  <2>2. CASE i > Len(et) /\ i <= Len(et) + Len(dt)
    <3>1. DirRowsOf(dt)[i - Len(et)] \in DirRow
      BY <1>1, <2>2
    <3>2. T[i] = DirCell(DirRowsOf(dt)[i - Len(et)])
      BY <1>1, <2>2 DEF TableCells
    <3> QED BY <3>1, <3>2 DEF DirCell, Cell
  <2>3. CASE i > Len(et) + Len(dt)
    <3>1. n = Len(et) + Len(dt) + 1
      BY <1>1, <2>3
    <3>2. SyncedTrailer(et, dt) \in Trailer
      BY <1>1, <3>1, SyncedTrailerType, FormatAssumption DEF TypeOK
    <3>3. T[i] = TrailerCell(SyncedTrailer(et, dt), et, DirRowsOf(dt))
      BY <1>1, <2>3 DEF TableCells
    <3> QED BY <1>1, <3>2, <3>3 DEF TrailerCell, Cell
  <2> QED BY <1>1, <2>1, <2>2, <2>3
<1> QED BY <1>1, <1>2 DEF TableCells

-----------------------------------------------------------------------------
(* Type correctness *)

LEMMA DataCellsType ==
  ASSUME NEW data \in Seq(Bytes)
  PROVE  /\ DataCells(data) \in Seq(Cell)
         /\ Len(DataCells(data)) = Len(data)
<1>1. ASSUME NEW k \in 1..Len(data) PROVE DataCell(data[k]) \in Cell
  BY DEF DataCell, Cell
<1> QED BY <1>1 DEF DataCells

\* A method's result is a mapped file when its capacity fits on the disk.
LEMMA ExtendType ==
  ASSUME NEW m \in Mapped, NEW T \in Seq(Cell), m.len + Len(T) <= DiskSize
  PROVE  /\ Fits(m, m.len + Len(T)) => Extend(m, T) \in Mapped
         /\ \A cap \in 0..DiskSize : WithCap(Extend(m, T), cap) \in Mapped
<1> DEFINE e == Extend(m, T)
<1>1. e.cells \in [Index -> Cell] /\ e.len = m.len + Len(T)
      /\ e.cap = Reserved(m, m.len + Len(T)) /\ e.committed = m.committed
  BY ExtendEffect
<1>2. m.len \in 0..DiskSize /\ m.committed \in 0..DiskSize /\ Len(T) \in Nat
      /\ m.cap \in Nat /\ DiskSize \in Nat
  BY FormatAssumption DEF Mapped
<1>3. e.len \in 0..DiskSize
  BY <1>1, <1>2
<1>4. Reserved(m, m.len + Len(T)) \in Nat
  <2>1. m.len + Len(T) \in Nat
    BY <1>2
  <2> QED BY <1>2, <2>1, ReservedBound
<1>5. e = [cells |-> e.cells, cap |-> e.cap, len |-> e.len, committed |-> e.committed]
  BY DEF Extend
<1>6. Fits(m, m.len + Len(T)) => e.cap \in 0..DiskSize
  BY <1>1, <1>2, <1>4 DEF Fits
<1> HIDE DEF e
<1>7. ASSUME NEW cap \in 0..DiskSize PROVE WithCap(e, cap) \in Mapped
  BY <1>1, <1>2, <1>3 DEF WithCap, Mapped
<1>8. Fits(m, m.len + Len(T)) => e \in Mapped
  BY <1>1, <1>2, <1>3, <1>5, <1>6 DEF Mapped
<1> QED BY <1>7, <1>8 DEF e

LEMMA StoresBlockType ==
  ASSUME TypeOK, NEW data \in Seq(Bytes), NEW off \in BlockOffsets,
         StoresBlock(data, off)
  PROVE  /\ mmap' \in Mapped
         /\ writeOffset' \in 0..DiskSize
         /\ off \in 0..DiskSize
<1>1. mmap \in Mapped /\ writeOffset \in Nat /\ writeOffset \in 0..DiskSize
      /\ DiskSize \in Nat
  BY FormatAssumption DEF TypeOK
<1>2. CASE data = <<>>
  BY <1>1, <1>2 DEF StoresBlock
<1>3. CASE data # <<>>
  <2> DEFINE m == SetLen(mmap, off)
  <2>1. /\ off = Aligned(writeOffset) /\ off <= DiskSize /\ Fits(mmap, off)
        /\ off + Len(data) <= DiskSize /\ Fits(m, off + Len(data))
        /\ mmap' = Extend(m, DataCells(data)) /\ writeOffset' = off + Len(data)
    BY <1>3 DEF StoresBlock, BlockEnd
  <2>2. off \in 0..DiskSize
    BY <1>1, <2>1, AlignedBound
  <2>3. m \in Mapped /\ m.len = off
    BY <1>1, <2>1, <2>2, SetLenEffect
  <2> HIDE DEF m
  <2>4. mmap' \in Mapped
    BY <2>1, <2>3, DataCellsType, ExtendType
  <2> QED BY <1>1, <2>1, <2>2, <2>4
<1> QED BY <1>2, <1>3

LEMMA BlockFailsType ==
  ASSUME TypeOK, NEW data \in Seq(Bytes), BlockFails(data)
  PROVE  /\ mmap' \in Mapped
         /\ writeOffset' \in 0..DiskSize
<1>1. mmap \in Mapped /\ writeOffset \in Nat /\ writeOffset \in 0..DiskSize
      /\ DiskSize \in Nat
  BY FormatAssumption DEF TypeOK
<1> DEFINE off == Aligned(writeOffset)
<1>2. off \in Nat
  BY <1>1, AlignedBound
<1>3. \/ UNCHANGED <<mmap, writeOffset>>
      \/ /\ off <= DiskSize /\ Fits(mmap, off)
         /\ mmap' = SetLen(mmap, off) /\ writeOffset' = off
  BY DEF BlockFails
<1> HIDE DEF off
<1> QED BY <1>1, <1>2, <1>3, SetLenEffect

LEMMA NewRowType ==
  ASSUME NEW id \in 1..MaxId, NEW kind \in Kind, NEW off \in 0..DiskSize,
         NEW data \in Seq(Bytes)
  PROVE  NewRow(id, kind, off, data) \in EntryRow
BY DEF NewRow, EntryRow

LEMMA PushedType ==
  ASSUME TypeOK, NEW path \in Path, NEW id \in 1..MaxId
  PROVE  /\ Pushed(path, id) \subseteq DirEntry
         /\ IsFiniteSet(Pushed(path, id))
<1>1. Cardinality(dirEntries) + 1 \in Nat
  BY FS_CardinalityType DEF TypeOK
<1>2. [path |-> path, id |-> id, at |-> Cardinality(dirEntries) + 1] \in DirEntry
  BY <1>1 DEF DirEntry
<1> QED BY <1>2, FS_AddElement DEF Pushed, TypeOK

LEMMA RetainedType ==
  ASSUME TypeOK, NEW kept \in SUBSET dirEntries
  PROVE  /\ Retained(kept) \subseteq DirEntry
         /\ IsFiniteSet(Retained(kept))
         /\ \A e \in Retained(kept) : \E d \in kept : e.path = d.path /\ e.id = d.id
         /\ \A d \in kept : \E e \in Retained(kept) : e.path = d.path /\ e.id = d.id
<1> DEFINE row(d) == [path |-> d.path, id |-> d.id,
                      at |-> Cardinality({e \in kept : e.at <= d.at})]
<1> DEFINE f == [d \in kept |-> row(d)]
<1>1. IsFiniteSet(kept)
  BY FS_Subset DEF TypeOK
<1>2. ASSUME NEW d \in kept PROVE row(d) \in DirEntry
  <2>1. d \in DirEntry
    BY DEF TypeOK
  <2>2. Cardinality({e \in kept : e.at <= d.at}) \in Nat
    BY <1>1, FS_Subset, FS_CardinalityType, {e \in kept : e.at <= d.at} \in SUBSET kept
  <2> QED BY <2>1, <2>2 DEF DirEntry
<1>3. Retained(kept) = {row(d) : d \in kept}
  BY DEF Retained
<1>4. \A d \in kept : row(d).path = d.path /\ row(d).id = d.id
  OBVIOUS
<1> HIDE DEF row
<1>5. f = [d \in kept |-> f[d]] /\ DOMAIN f = kept
  OBVIOUS
<1>6. {row(d) : d \in kept} = {f[d] : d \in kept}
  OBVIOUS
<1> HIDE DEF f
<1>7. IsFiniteSet({f[d] : d \in kept})
  BY <1>1, <1>5, ImageFinite
<1> QED BY <1>2, <1>3, <1>4, <1>6, <1>7

LEMMA TrailerCellType ==
  ASSUME NEW c \in Cell, c.t = "trailer"
  PROVE  /\ c.trailer \in Trailer
         /\ c.entries \in Seq(EntryRow)
         /\ c.dirs \in Seq(DirRow)
BY DEF Cell

LEMMA RenamedType ==
  ASSUME TypeOK, NEW from \in Path, NEW to \in Path, NEW d \in dirEntries,
         \A e \in Descendants(d) : Storable(Rebased(e.path, from, to)),
         dirEntries' =
            { IF e = d THEN [e EXCEPT !.path = to]
              ELSE IF e \in Descendants(d)
                   THEN [e EXCEPT !.path = Rebased(e.path, from, to)]
              ELSE e : e \in dirEntries }
  PROVE  /\ dirEntries' \subseteq DirEntry
         /\ IsFiniteSet(dirEntries')
         /\ \A r \in dirEntries' : \E e \in dirEntries : r.id = e.id
         /\ \A e \in dirEntries : \E r \in dirEntries' : r.id = e.id
<1> DEFINE row(e) == IF e = d THEN [e EXCEPT !.path = to]
                     ELSE IF e \in Descendants(d)
                          THEN [e EXCEPT !.path = Rebased(e.path, from, to)]
                     ELSE e
<1> DEFINE f == [e \in dirEntries |-> row(e)]
<1>1. ASSUME NEW e \in dirEntries PROVE row(e) \in DirEntry /\ row(e).id = e.id
  <2>1. e \in DirEntry
    BY DEF TypeOK
  <2>2. \A p \in Path : [e EXCEPT !.path = p] \in DirEntry
                        /\ [e EXCEPT !.path = p].id = e.id
    BY <2>1 DEF DirEntry
  <2>3. e \in Descendants(d) => Rebased(e.path, from, to) \in Path
    BY DEF Storable
  <2> QED BY <2>1, <2>2, <2>3
<1>2. dirEntries' = {row(e) : e \in dirEntries}
  OBVIOUS
<1> HIDE DEF row
<1>3. f = [e \in dirEntries |-> f[e]] /\ DOMAIN f = dirEntries
  OBVIOUS
<1>4. {row(e) : e \in dirEntries} = {f[e] : e \in dirEntries}
  OBVIOUS
<1> HIDE DEF f
<1>5. IsFiniteSet({f[e] : e \in dirEntries})
  BY <1>3, ImageFinite DEF TypeOK
<1> QED BY <1>1, <1>2, <1>4, <1>5

LEMMA NoSessionType ==
  ASSUME NoSession, mmap' \in Mapped
  PROVE  TypeOK'
<1>1. NewTrailer \in Trailer
  BY FormatAssumption DEF NewTrailer, Trailer
<1>2. writeOffset' \in 0..DiskSize /\ session' \in {"none", "open", "damaged"}
      /\ trailer' \in Trailer
  BY <1>1, FormatAssumption DEF NoSession
<1>5. dirty' \in BOOLEAN
  BY Zenon DEF NoSession
<1>3. entryRows' = {} /\ dirEntries' = {}
  BY DEF NoSession
<1>4. IsFiniteSet(entryRows') /\ IsFiniteSet(dirEntries')
  <2>1. IsFiniteSet({})
    BY FS_EmptySet
  <2> QED BY <1>3, <2>1, Zenon
<1> QED BY <1>2, <1>3, <1>4, <1>5 DEF TypeOK

LEMMA InitType == Init => TypeOK
<1>1. NewTrailer \in Trailer
  BY FormatAssumption DEF NewTrailer, Trailer
<1>2. NoFile \in Mapped
  BY FormatAssumption DEF NoFile, Mapped, Cell, Zero
<1> SUFFICES ASSUME Init PROVE TypeOK
  OBVIOUS
<1>3. writeOffset \in 0..DiskSize /\ mmap \in Mapped
      /\ session \in {"none", "open", "damaged"} /\ trailer \in Trailer
  BY <1>1, <1>2, FormatAssumption DEF Init
<1>5. dirty \in BOOLEAN
  BY Zenon DEF Init
<1>4. IsFiniteSet(entryRows) /\ IsFiniteSet(dirEntries)
  <2>1. IsFiniteSet({})
    BY FS_EmptySet
  <2>2. entryRows = {} /\ dirEntries = {}
    BY DEF Init
  <2> QED BY <2>1, <2>2, Zenon
<1> QED BY <1>3, <1>4, <1>5 DEF Init, TypeOK

\* The operations of an open session keep the types.
LEMMA OperationType ==
  ASSUME TypeOK, Operation
  PROVE  TypeOK'
<1>1. ASSUME NEW raw \in RawPaths, NEW kind \in Kind, NEW data \in Data,
             AddEntry(raw, kind, data)
      PROVE  TypeOK'
  <2>1. data \in Seq(Bytes)
    BY WriterAssumption
  <2>2. trailer.nextId \in 1..MaxId /\ trailer.nextId # MaxId /\ MaxId \in Nat
        /\ Canonical[raw] \in Path
    BY <1>1, FormatAssumption DEF AddEntry, TypeOK, Trailer, Storable
  <2>3. PICK off \in BlockOffsets :
            /\ StoresBlock(data, off)
            /\ entryRows' = entryRows \cup {NewRow(trailer.nextId, kind, off, data)}
    BY <1>1 DEF AddEntry
  <2>4. mmap' \in Mapped /\ writeOffset' \in 0..DiskSize /\ off \in 0..DiskSize
    BY <2>1, <2>3, StoresBlockType
  <2>5. entryRows' \subseteq EntryRow /\ IsFiniteSet(entryRows')
    BY <2>1, <2>2, <2>3, <2>4, NewRowType, FS_AddElement DEF TypeOK
  <2>6. trailer' \in Trailer
    <3>1. trailer.nextId + 1 \in 1..MaxId
      BY <2>2
    <3> QED BY <1>1, <3>1 DEF AddEntry, Spent, TypeOK, Trailer
  <2>7. dirEntries' \subseteq DirEntry /\ IsFiniteSet(dirEntries')
    BY <1>1, <2>2, PushedType DEF AddEntry
  <2> QED BY <1>1, <2>4, <2>5, <2>6, <2>7 DEF AddEntry, TypeOK
<1>2. ASSUME NEW raw \in RawPaths, NEW data \in Data, AddEntryFails(raw, data)
      PROVE  TypeOK'
  <2>1. mmap' \in Mapped /\ writeOffset' \in 0..DiskSize
    BY <1>2, WriterAssumption, BlockFailsType DEF AddEntryFails
  <2>2. trailer.nextId + 1 \in 1..MaxId
    BY <1>2, FormatAssumption DEF AddEntryFails, TypeOK, Trailer
  <2>3. trailer' \in Trailer
    BY <1>2, <2>2 DEF AddEntryFails, Spent, TypeOK, Trailer
  <2> QED BY <1>2, <2>1, <2>3 DEF AddEntryFails, TypeOK
<1>3. ASSUME NEW raw \in RawPaths, NEW data \in Data, ReplaceContent(raw, data)
      PROVE  TypeOK'
  <2>1. PICK r \in entryRows, off \in BlockOffsets :
            /\ StoresBlock(data, off)
            /\ entryRows' = (entryRows \ {r}) \cup {NewRow(r.id, "file", off, data)}
    BY <1>3 DEF ReplaceContent
  <2>2. mmap' \in Mapped /\ writeOffset' \in 0..DiskSize /\ off \in 0..DiskSize
    BY <2>1, WriterAssumption, StoresBlockType
  <2>3. r.id \in 1..MaxId
    BY DEF TypeOK, EntryRow
  <2>4. NewRow(r.id, "file", off, data) \in EntryRow
    BY <2>2, <2>3, WriterAssumption, NewRowType, "file" \in Kind DEF Kind
  <2>5. IsFiniteSet(entryRows')
    BY <2>1, FS_RemoveElement, FS_AddElement DEF TypeOK
  <2> QED BY <1>3, <2>1, <2>2, <2>4, <2>5 DEF ReplaceContent, TypeOK
<1>4. ASSUME NEW raw \in RawPaths, NEW data \in Data, ReplaceContentFails(raw, data)
      PROVE  TypeOK'
  <2>1. mmap' \in Mapped /\ writeOffset' \in 0..DiskSize
    BY <1>4, WriterAssumption, BlockFailsType DEF ReplaceContentFails
  <2> QED BY <1>4, <2>1 DEF ReplaceContentFails, TypeOK
<1>5. ASSUME NEW raw \in RawPaths, Delete(raw) PROVE TypeOK'
  <2>1. entryRows' \in SUBSET entryRows /\ IsFiniteSet(entryRows')
    BY <1>5, FS_Subset, entryRows' \in SUBSET entryRows DEF Delete, TypeOK
  <2>2. dirEntries' \subseteq DirEntry /\ IsFiniteSet(dirEntries')
    BY <1>5, RetainedType DEF Delete
  <2> QED BY <1>5, <2>1, <2>2 DEF Delete, TypeOK
<1>6. ASSUME NEW raw \in RawPaths, Unlink(raw) PROVE TypeOK'
  <2>1. PICK d \in dirEntries :
            /\ dirEntries' = Retained(dirEntries \ {d})
            /\ entryRows' = EntriesLeft(d, dirEntries \ {d})
    BY <1>6 DEF Unlink
  <2>2. entryRows' \in SUBSET entryRows
    BY <2>1 DEF EntriesLeft
  <2>3. IsFiniteSet(entryRows')
    BY <2>2, FS_Subset DEF TypeOK
  <2>4. dirEntries' \subseteq DirEntry /\ IsFiniteSet(dirEntries')
    BY <2>1, RetainedType
  <2> QED BY <1>6, <2>2, <2>3, <2>4 DEF Unlink, TypeOK
<1>7. ASSUME NEW raw \in RawPaths, NEW to \in RawPaths, HardLink(raw, to)
      PROVE  TypeOK'
  <2>1. PICK r \in entryRows : dirEntries' = Pushed(Canonical[to], r.id)
    BY <1>7 DEF HardLink
  <2>2. Canonical[to] \in Path /\ r.id \in 1..MaxId
    BY <1>7 DEF HardLink, Storable, TypeOK, EntryRow
  <2>3. dirEntries' \subseteq DirEntry /\ IsFiniteSet(dirEntries')
    BY <2>1, <2>2, PushedType
  <2> QED BY <1>7, <2>3 DEF HardLink, TypeOK
<1>8. ASSUME NEW raw \in RawPaths, NEW to \in RawPaths, Rename(raw, to)
      PROVE  TypeOK'
  <2>1. Canonical[raw] \in Path /\ Canonical[to] \in Path
    BY <1>8 DEF Rename, Storable
  <2>2. dirEntries' \subseteq DirEntry /\ IsFiniteSet(dirEntries')
    BY <1>8, <2>1, RenamedType DEF Rename
  <2> QED BY <1>8, <2>2 DEF Rename, TypeOK
<1> QED BY <1>1, <1>2, <1>3, <1>4, <1>5, <1>6, <1>7, <1>8 DEF Operation

LEMMA SyncWrites ==
  ASSUME TypeOK, NEW et \in EntryTables, NEW dt \in DirTables,
         NEW n \in 0..(Len(et) + Len(dt) + 1), writeOffset + n <= DiskSize,
         NEW cap \in 0..DiskSize, SyncBase.cap <= cap
  PROVE  /\ SyncBase \in Mapped
         /\ WithCap(Extend(SyncBase, TableCells(et, dt, n)), cap) \in Mapped
<1> DEFINE T == TableCells(et, dt, n)
<1>1. mmap \in Mapped /\ writeOffset \in 0..DiskSize /\ DiskSize \in Nat
      /\ writeOffset \in Nat /\ mmap.cap \in Nat
  BY FormatAssumption DEF TypeOK, Mapped
<1>2. SyncBase.cap = Reserved(mmap, writeOffset) /\ SyncBase.len = writeOffset
  BY <1>1, SetLenEffect DEF SyncBase
<1>3. Fits(mmap, writeOffset)
  BY <1>1, <1>2, ReservedBound DEF Fits
<1>4. SyncBase \in Mapped
  BY <1>1, <1>3, SetLenEffect DEF SyncBase
<1>5. T \in Seq(Cell) /\ Len(T) = n
  BY TableCellsType
<1> HIDE DEF T
<1>6. WithCap(Extend(SyncBase, T), cap) \in Mapped
  BY <1>2, <1>4, <1>5, ExtendType
<1> QED BY <1>4, <1>6 DEF T

\* The capacity a row of extends ends with lies between the base's and the disk's.
LEMMA SyncCapacity ==
  ASSUME TypeOK, NEW n \in Nat, ReservedEach(SyncBase, writeOffset + n) <= DiskSize
  PROVE  /\ ReservedEach(SyncBase, writeOffset + n) \in 0..DiskSize
         /\ SyncBase.cap <= ReservedEach(SyncBase, writeOffset + n)
<1>1. mmap \in Mapped /\ writeOffset \in 0..DiskSize /\ DiskSize \in Nat
      /\ writeOffset + n \in Nat /\ writeOffset \in Nat /\ mmap.cap \in Nat
  BY FormatAssumption DEF TypeOK, Mapped
<1>2. SyncBase.cap \in Nat
  BY <1>1, SetLenEffect, ReservedBound DEF SyncBase
<1> QED BY <1>1, <1>2, ReservedEachBound

LEMMA EndedType ==
  ASSUME NEW m \in Mapped
  PROVE  /\ Commit(m) \in Mapped
         /\ Unmap(m) \in Mapped
         /\ Abandon(m) \in Mapped
         /\ MapOpen(m) \in Mapped
<1>1. m.cells \in [Index -> Cell] /\ m.len \in 0..DiskSize /\ m.cap \in 0..DiskSize
      /\ m.committed \in 0..DiskSize /\ DropLen(m) \in 0..DiskSize
      /\ 0 \in 0..DiskSize /\ m.len \in Nat /\ DropLen(m) \in Nat
  BY FormatAssumption DEF Mapped, DropLen
<1>2. CutAt(m.cells, m.len) \in [Index -> Cell]
      /\ CutAt(m.cells, DropLen(m)) \in [Index -> Cell]
  BY <1>1, CutAtEffect
<1> QED BY <1>1, <1>2 DEF Commit, Unmap, Abandon, MapOpen, Mapped

LEMMA CreateType ==
  /\ Extend(MapNew, <<Header>>) \in Mapped
  /\ Extend(MapNew, <<Header>>).len = 1
<1>1. Zero \in Cell /\ Header \in Cell
  BY DEF Cell, Zero, Header
<1>2. MapNew \in Mapped /\ MapNew.len = 0 /\ MapNew.cap = Chunk
  BY <1>1, ChunkAssumption, FormatAssumption DEF MapNew, NoFile, Mapped
<1>3. <<Header>> \in Seq(Cell) /\ Len(<<Header>>) = 1
  BY <1>1
<1>4. Fits(MapNew, 1)
  BY <1>2, ChunkAssumption, FormatAssumption DEF Fits, Reserved
<1>5. MapNew.len + Len(<<Header>>) = 1 /\ 1 <= DiskSize
  BY <1>2, <1>3, FormatAssumption
<1> QED BY <1>2, <1>3, <1>4, <1>5, ExtendType, ExtendEffect

\* The steps that open, sync or end a session keep the types.
LEMMA SessionType ==
  ASSUME TypeOK,
         \/ Create \/ OpenIntact \/ OpenDamaged \/ OpenRejected
         \/ Sync \/ SyncFails \/ SyncCrash \/ Drop \/ Crash
  PROVE  TypeOK'
<1>1. CASE Create
  <2>1. 1 \in 0..DiskSize
    BY FormatAssumption
  <2> QED BY <1>1, <2>1, CreateType DEF Create, TypeOK
<1>2. CASE OpenIntact
  <2> DEFINE c == mmap.cells[mmap.cap - 1]
  <2>1. mmap.cap - 1 \in Index /\ mmap.cells \in [Index -> Cell]
    BY <1>2, FormatAssumption DEF OpenIntact, HasTrailer, MinArchiveSize, TypeOK, Mapped, Index
  <2>2. c \in Cell /\ c.t = "trailer"
    BY <1>2, <2>1 DEF OpenIntact, HasTrailer
  <2> HIDE DEF c
  <2>3. c.trailer \in Trailer /\ c.entries \in Seq(EntryRow) /\ c.dirs \in Seq(DirRow)
    BY <2>2, TrailerCellType
  <2>4. c.trailer.entryOff \in 0..DiskSize
    BY <2>3 DEF Trailer
  <2>5. /\ mmap' = MapOpen(mmap) /\ session' = "open" /\ trailer' = c.trailer
        /\ writeOffset' = c.trailer.entryOff /\ dirty' = FALSE
        /\ entryRows' = Elements(c.entries) /\ dirEntries' = LoadedDirs(c.dirs)
    BY <1>2, Zenon DEF OpenIntact, c
  <2>6. mmap' \in Mapped
    BY <2>5, EndedType DEF TypeOK
  <2>7. entryRows' \subseteq EntryRow /\ IsFiniteSet(entryRows')
    BY <2>3, <2>5, ElementsFinite
  <2>8. dirEntries' \subseteq DirEntry /\ IsFiniteSet(dirEntries')
    BY <2>3, <2>5, LoadedDirsType
  <2> QED BY <2>3, <2>4, <2>5, <2>6, <2>7, <2>8 DEF TypeOK
<1>3. CASE OpenDamaged
  BY <1>3, EndedType DEF OpenDamaged, TypeOK
<1>4. CASE OpenRejected
  BY <1>4 DEF OpenRejected, TypeOK, vars
<1>5. CASE Sync
  <2> DEFINE N(et, dt) == Len(et) + Len(dt) + 1
  <2>1. PICK et \in EntryTables, dt \in DirTables :
            /\ writeOffset + Len(TableCells(et, dt, N(et, dt))) <= DiskSize
            /\ ExtendEach(SyncBase, TableCells(et, dt, N(et, dt))).cap <= DiskSize
            /\ mmap' = Commit(ExtendEach(SyncBase, TableCells(et, dt, N(et, dt))))
            /\ trailer' = SyncedTrailer(et, dt)
            /\ dirEntries' = Sorted(dt)
    BY <1>5 DEF Sync
  <2>2. Len(et) \in Nat /\ Len(dt) \in Nat /\ DirRowsOf(dt) \in Seq(DirRow)
    BY EntryTableType, DirTableType
  <2> DEFINE n == N(et, dt)
             T == TableCells(et, dt, n)
  <2>3. n \in 0..n /\ n \in Nat
    BY <2>2
  <2>4. Len(T) = n
    BY <2>3 DEF TableCells
  <2>5. SyncBase.len = writeOffset
    BY SetLenEffect DEF SyncBase, TypeOK
  <2>6. ExtendEach(SyncBase, T)
            = WithCap(Extend(SyncBase, T), ReservedEach(SyncBase, writeOffset + n))
    BY <2>4, <2>5 DEF ExtendEach
  <2>7. WithCap(Extend(SyncBase, T), ReservedEach(SyncBase, writeOffset + n)).cap
            = ReservedEach(SyncBase, writeOffset + n)
    BY DEF WithCap
  <2>8. /\ ReservedEach(SyncBase, writeOffset + n) \in 0..DiskSize
        /\ SyncBase.cap <= ReservedEach(SyncBase, writeOffset + n)
    BY <2>1, <2>3, <2>6, <2>7, SyncCapacity
  <2>9. ExtendEach(SyncBase, T) \in Mapped
    BY <2>1, <2>3, <2>4, <2>6, <2>8, SyncWrites
  <2>10. mmap' \in Mapped
    BY <2>1, <2>9, EndedType
  <2>11. trailer' \in Trailer
    <3>1. writeOffset + Len(et) + Len(dt) <= DiskSize
      BY <2>1, <2>2, <2>4, FormatAssumption DEF TypeOK
    <3> QED BY <2>1, <3>1, SyncedTrailerType
  <2>12. dirEntries' \subseteq DirEntry /\ IsFiniteSet(dirEntries')
    BY <2>1, <2>2, LoadedDirsType DEF Sorted
  <2> QED BY <1>5, <2>10, <2>11, <2>12 DEF Sync, TypeOK
<1>6. CASE SyncFails
  <2>1. PICK et \in EntryTables, dt \in DirTables : \E n \in 0..(Len(et) + Len(dt)) :
            /\ writeOffset + n <= DiskSize
            /\ FullAt(SyncBase, writeOffset + n)
            /\ mmap' = WithCap(Extend(SyncBase, TableCells(et, dt, n)),
                               writeOffset + n)
            /\ trailer' = IF n = Len(et) + Len(dt) THEN SyncedTrailer(et, dt)
                          ELSE trailer
            /\ dirEntries' = Sorted(dt)
    BY <1>6 DEF SyncFails
  <2>2. PICK n \in 0..(Len(et) + Len(dt)) :
            /\ writeOffset + n <= DiskSize
            /\ FullAt(SyncBase, writeOffset + n)
            /\ mmap' = WithCap(Extend(SyncBase, TableCells(et, dt, n)),
                               writeOffset + n)
            /\ trailer' = IF n = Len(et) + Len(dt) THEN SyncedTrailer(et, dt)
                          ELSE trailer
    BY <2>1
  <2>3. Len(et) \in Nat /\ Len(dt) \in Nat /\ DirRowsOf(dt) \in Seq(DirRow)
    BY EntryTableType, DirTableType
  <2>4. n \in 0..(Len(et) + Len(dt) + 1) /\ writeOffset + n \in 0..DiskSize
    BY <2>2, <2>3, FormatAssumption DEF TypeOK
  <2>5. SyncBase.cap <= writeOffset + n
    BY <2>2 DEF FullAt
  <2>6. mmap' \in Mapped
    BY <2>2, <2>4, <2>5, SyncWrites
  <2>7. trailer' \in Trailer
    <3>1. CASE n = Len(et) + Len(dt)
      <4>1. writeOffset + Len(et) + Len(dt) <= DiskSize
        BY <2>2, <2>3, <3>1, FormatAssumption DEF TypeOK
      <4> QED BY <2>2, <3>1, <4>1, SyncedTrailerType
    <3>2. CASE n # Len(et) + Len(dt)
      BY <2>2, <3>2 DEF TypeOK
    <3> QED BY <3>1, <3>2
  <2>8. dirEntries' \subseteq DirEntry /\ IsFiniteSet(dirEntries')
    BY <2>1, <2>3, LoadedDirsType DEF Sorted
  <2> QED BY <1>6, <2>6, <2>7, <2>8 DEF SyncFails, TypeOK
<1>7. CASE SyncCrash
  <2>1. PICK et \in EntryTables, dt \in DirTables :
        \E n \in 1..(Len(et) + Len(dt) + 1) :
            /\ writeOffset + n <= DiskSize
            /\ ExtendEach(SyncBase, TableCells(et, dt, n)).cap <= DiskSize
            /\ mmap' = Abandon(ExtendEach(SyncBase, TableCells(et, dt, n)))
    BY <1>7 DEF SyncCrash
  <2>2. PICK n \in 1..(Len(et) + Len(dt) + 1) :
            /\ writeOffset + n <= DiskSize
            /\ ExtendEach(SyncBase, TableCells(et, dt, n)).cap <= DiskSize
            /\ mmap' = Abandon(ExtendEach(SyncBase, TableCells(et, dt, n)))
    BY <2>1
  <2> DEFINE T == TableCells(et, dt, n)
  <2>3. n \in 0..(Len(et) + Len(dt) + 1) /\ n \in Nat
    BY EntryTableType, DirTableType
  <2>4. Len(T) = n
    BY <2>3 DEF TableCells
  <2>5. SyncBase.len = writeOffset
    BY SetLenEffect DEF SyncBase, TypeOK
  <2>6. ExtendEach(SyncBase, T)
            = WithCap(Extend(SyncBase, T), ReservedEach(SyncBase, writeOffset + n))
    BY <2>4, <2>5 DEF ExtendEach
  <2>7. WithCap(Extend(SyncBase, T), ReservedEach(SyncBase, writeOffset + n)).cap
            = ReservedEach(SyncBase, writeOffset + n)
    BY DEF WithCap
  <2>8. /\ ReservedEach(SyncBase, writeOffset + n) \in 0..DiskSize
        /\ SyncBase.cap <= ReservedEach(SyncBase, writeOffset + n)
    BY <2>2, <2>3, <2>6, <2>7, SyncCapacity
  <2>9. ExtendEach(SyncBase, T) \in Mapped
    BY <2>2, <2>3, <2>6, <2>8, SyncWrites
  <2>10. mmap' \in Mapped
    BY <2>2, <2>9, EndedType
  <2> QED BY <1>7, <2>10, NoSessionType DEF SyncCrash
<1>8. CASE Drop
  BY <1>8, EndedType, NoSessionType DEF Drop, TypeOK
<1>9. CASE Crash
  BY <1>9, EndedType, NoSessionType DEF Crash, TypeOK
<1> QED BY <1>1, <1>2, <1>3, <1>4, <1>5, <1>6, <1>7, <1>8, <1>9

LEMMA TypeStep ==
  ASSUME TypeOK, [Next]_vars
  PROVE  TypeOK'
<1>1. CASE UNCHANGED vars
  BY <1>1 DEF vars, TypeOK
<1>2. CASE Next
  BY <1>2, OperationType, SessionType DEF Next
<1> QED BY <1>1, <1>2

(***************************************************************************)
(* Every state of the writer, in every instance, is of its type: offsets    *)
(* and lengths stay within the disk, IDs within u32, the tables finite.     *)
(***************************************************************************)
THEOREM TypeCorrect == Spec => []TypeOK
BY InitType, TypeStep, PTL DEF Spec

=============================================================================
