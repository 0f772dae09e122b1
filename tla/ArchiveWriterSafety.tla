------------------------ MODULE ArchiveWriterSafety ------------------------
(***************************************************************************)
(* The safety properties of the archive writer, proved from the inductive   *)
(* invariant IInv for every value of the constants.                         *)
(*                                                                          *)
(* Every step either leaves the cells below the write offset alone or ends  *)
(* the session.  So what holds of the cells below a limit is first carried  *)
(* from one file to another that agrees with it there (the lemmas on        *)
(* RowsSound and TrailerSound), and then each step is shown to write a file *)
(* that agrees.                                                             *)
(***************************************************************************)
EXTENDS ArchiveWriterProofs

-----------------------------------------------------------------------------
(* Files that agree below a limit *)

Agree(cells, other, limit) == \A i \in Index : i < limit => other[i] = cells[i]

\* A trailer cell of the second file is one of the first.
NoNewTrailer(cells, other) ==
    \A p \in Index : other[p].t = "trailer" => other[p] = cells[p]

LEMMA CrcBelow ==
  ASSUME NEW cells, NEW other, NEW r \in EntryRow, NEW limit \in 0..DiskSize,
         Agree(cells, other, limit), VerifyCrc(cells, r),
         HasBlock(r) => r.off >= 1 /\ r.off + r.size <= limit
  PROVE  VerifyCrc(other, r)
<1> SUFFICES ASSUME NEW k \in 1..r.size, r.off # 0
             PROVE  other[r.off + k - 1] = DataCell(r.crc[k])
  BY DEF VerifyCrc
<1>1. r.size \in Nat /\ r.off \in Nat /\ limit \in Nat /\ limit <= DiskSize
      /\ DiskSize \in Nat
  BY FormatAssumption DEF EntryRow
<1>2. r.size # 0
  BY <1>1
<1>3. r.off + k - 1 \in Index /\ r.off + k - 1 < limit
  BY <1>1, <1>2 DEF HasBlock, Index
<1>4. other[r.off + k - 1] = cells[r.off + k - 1]
  BY <1>3 DEF Agree
<1>5. cells[r.off + k - 1] = DataCell(r.crc[k])
  BY DEF VerifyCrc
<1> QED BY <1>4, <1>5

\* What is sound below a limit is sound in a file that agrees below it, with
\* any names for the same IDs, and below any higher limit.
LEMMA RowsSoundBelow ==
  ASSUME NEW cells, NEW other, NEW rows \in SUBSET EntryRow,
         NEW names, NEW others, NEW nextId,
         NEW limit \in 0..DiskSize, NEW higher \in Nat, limit <= higher,
         RowsSound(cells, rows, names, nextId, limit), Agree(cells, other, limit),
         \A d \in others : \E e \in names : e.id = d.id,
         \A e \in names : \E d \in others : e.id = d.id
  PROVE  RowsSound(other, rows, others, nextId, higher)
<1>1. UniqueIds(rows, others, nextId)
  <2>1. \A d \in others : d.id < nextId
    BY DEF RowsSound, UniqueIds
  <2> QED BY <2>1 DEF RowsSound, UniqueIds
<1>2. SeparateBlocks(rows, higher)
  <2>1. SeparateBlocks(rows, limit)
    BY DEF RowsSound
  <2>2. \A r \in rows : r.off \in Nat /\ r.size \in Nat
    BY FormatAssumption DEF EntryRow
  <2>3. \A r \in rows : r.off + r.size <= limit => r.off + r.size <= higher
    BY <2>2, FormatAssumption
  <2> QED BY <2>1, <2>3 DEF SeparateBlocks
<1>3. ASSUME NEW r \in rows PROVE VerifyCrc(other, r)
  <2>1. HasBlock(r) => r.off >= 1 /\ r.off + r.size <= limit
    BY DEF RowsSound, SeparateBlocks
  <2>2. VerifyCrc(cells, r) /\ r \in EntryRow
    BY DEF RowsSound
  <2> QED BY <2>1, <2>2, CrcBelow
<1>4. Referenced(rows, others)
  BY DEF RowsSound, Referenced
<1> QED BY <1>1, <1>2, <1>3, <1>4 DEF RowsSound

LEMMA TrailerStaysSound ==
  ASSUME NEW cells \in [Index -> Cell], NEW other \in [Index -> Cell],
         NEW limit \in Nat, NEW p \in Index, other[p] = cells[p],
         TrailerSound(cells, p), Agree(cells, other, limit),
         cells[p].t = "trailer", cells[p].trailer.entryOff <= limit
  PROVE  TrailerSound(other, p)
<1> DEFINE c == cells[p]
<1>1. other[p] = c /\ c.t = "trailer" /\ c \in Cell
  OBVIOUS
<1>2. c.trailer.entryOff <= limit
  OBVIOUS
<1>3. /\ 1 <= c.trailer.entryOff
      /\ c.trailer.dirOff = c.trailer.entryOff + Len(c.entries)
      /\ p = c.trailer.dirOff + Len(c.dirs)
      /\ RowsSound(cells, Elements(c.entries), Elements(c.dirs),
                   c.trailer.nextId, c.trailer.entryOff)
  BY <1>1 DEF TrailerSound
<1> HIDE DEF c
<1>4. c.trailer \in Trailer /\ c.entries \in Seq(EntryRow) /\ c.dirs \in Seq(DirRow)
  BY <1>1, TrailerCellType
<1>5. c.trailer.entryOff \in 0..DiskSize /\ c.trailer.entryOff \in Nat
  BY <1>4, FormatAssumption DEF Trailer
<1>6. Agree(cells, other, c.trailer.entryOff)
  BY <1>2, <1>5 DEF Agree, Index
<1>7. RowsSound(other, Elements(c.entries), Elements(c.dirs),
                c.trailer.nextId, c.trailer.entryOff)
  <2> DEFINE rows == Elements(c.entries)
             names == Elements(c.dirs)
             off == c.trailer.entryOff
  <2>1. rows \in SUBSET EntryRow
    BY <1>4, ElementsFinite
  <2>2. RowsSound(cells, rows, names, c.trailer.nextId, off)
        /\ off \in 0..DiskSize /\ off \in Nat /\ off <= off
        /\ Agree(cells, other, off)
    BY <1>3, <1>5, <1>6
  <2>3. \A d \in names : \E e \in names : e.id = d.id
    OBVIOUS
  <2> HIDE DEF rows, names, off
  <2>4. RowsSound(other, rows, names, c.trailer.nextId, off)
    BY <2>1, <2>2, <2>3, RowsSoundBelow
  <2> QED BY <2>4 DEF rows, names, off
<1> QED BY <1>1, <1>3, <1>7 DEF TrailerSound

LEMMA TrailersStaySound ==
  ASSUME NEW cells \in [Index -> Cell], NEW other \in [Index -> Cell],
         NEW limit \in Nat,
         \A p \in Index : TrailerSound(cells, p), TrailersBelow(cells, limit),
         Agree(cells, other, limit), NoNewTrailer(cells, other)
  PROVE  /\ \A p \in Index : TrailerSound(other, p)
         /\ TrailersBelow(other, limit)
<1>1. ASSUME NEW p \in Index, other[p].t = "trailer"
      PROVE  /\ TrailerSound(other, p)
             /\ other[p].trailer.entryOff <= limit
  <2>1. other[p] = cells[p] /\ cells[p].t = "trailer"
    BY <1>1 DEF NoNewTrailer
  <2>2. cells[p].trailer.entryOff <= limit
    BY <2>1 DEF TrailersBelow
  <2> QED BY <2>1, <2>2, TrailerStaysSound
<1>2. \A p \in Index : other[p].t # "trailer" => TrailerSound(other, p)
  BY DEF TrailerSound
<1> QED BY <1>1, <1>2 DEF TrailersBelow

-----------------------------------------------------------------------------
(* What the steps write *)

ZeroBeyond(cells, cap) == \A i \in Index : i >= cap => cells[i] = Zero

LEMMA SetLenWrites ==
  ASSUME NEW m \in Mapped, NEW n \in 0..DiskSize, NEW limit \in Nat,
         limit <= n, limit <= m.len, ZeroBeyond(m.cells, m.cap)
  PROVE  /\ Agree(m.cells, SetLen(m, n).cells, limit)
         /\ NoNewTrailer(m.cells, SetLen(m, n).cells)
         /\ ZeroBeyond(SetLen(m, n).cells, SetLen(m, n).cap)
<1> DEFINE e == SetLen(m, n)
<1>1. /\ e.cap = Reserved(m, n)
      /\ \A i \in Index :
            e.cells[i] = IF i \in m.len..(n - 1) THEN Zero ELSE m.cells[i]
  BY SetLenEffect
<1>2. m.cap \in Nat /\ m.len \in Nat /\ n \in Nat
  BY FormatAssumption DEF Mapped
<1>3. e.cap >= n /\ e.cap >= m.cap /\ e.cap \in Nat
  BY <1>1, <1>2, ReservedBound
<1> HIDE DEF e
<1>4. Agree(m.cells, e.cells, limit)
  BY <1>1, <1>2 DEF Agree, Index
<1>5. NoNewTrailer(m.cells, e.cells)
  BY <1>1 DEF NoNewTrailer, Zero
<1>6. ZeroBeyond(e.cells, e.cap)
  BY <1>1, <1>2, <1>3 DEF ZeroBeyond, Index
<1> QED BY <1>4, <1>5, <1>6 DEF e

LEMMA ExtendWrites ==
  ASSUME NEW m \in Mapped, NEW T \in Seq(Cell), m.len + Len(T) <= DiskSize,
         NEW cap \in Nat, m.cap <= cap, m.len + Len(T) <= cap,
         ZeroBeyond(m.cells, m.cap)
  PROVE  /\ Agree(m.cells, Extend(m, T).cells, m.len)
         /\ ZeroBeyond(Extend(m, T).cells, cap)
         /\ \A k \in 1..Len(T) : Extend(m, T).cells[m.len + k - 1] = T[k]
         /\ \A i \in Index : \/ Extend(m, T).cells[i] = m.cells[i]
                             \/ \E k \in 1..Len(T) : /\ i = m.len + k - 1
                                                     /\ Extend(m, T).cells[i] = T[k]
<1> DEFINE e == Extend(m, T)
<1>1. \A i \in Index : e.cells[i] = IF i \in m.len..(m.len + Len(T) - 1)
                                    THEN T[i - m.len + 1] ELSE m.cells[i]
  BY ExtendEffect
<1>2. m.cap \in Nat /\ m.len \in Nat /\ Len(T) \in Nat /\ DiskSize \in Nat
  BY FormatAssumption DEF Mapped
<1> HIDE DEF e
<1>3. Agree(m.cells, e.cells, m.len)
  BY <1>1, <1>2 DEF Agree, Index
<1>4. ZeroBeyond(e.cells, cap)
  BY <1>1, <1>2 DEF ZeroBeyond, Index
<1>5. ASSUME NEW k \in 1..Len(T) PROVE e.cells[m.len + k - 1] = T[k]
  <2>1. m.len + k - 1 \in Index /\ m.len + k - 1 \in m.len..(m.len + Len(T) - 1)
        /\ (m.len + k - 1) - m.len + 1 = k
    BY <1>2 DEF Index
  <2> QED BY <1>1, <2>1
<1>6. ASSUME NEW i \in Index, i \in m.len..(m.len + Len(T) - 1)
      PROVE  \E k \in 1..Len(T) : i = m.len + k - 1 /\ e.cells[i] = T[k]
  <2>1. i - m.len + 1 \in 1..Len(T) /\ i = m.len + (i - m.len + 1) - 1
    BY <1>2, <1>6
  <2> QED BY <1>1, <1>6, <2>1
<1>7. \A i \in Index : i \notin m.len..(m.len + Len(T) - 1) => e.cells[i] = m.cells[i]
  BY <1>1
<1> QED BY <1>3, <1>4, <1>5, <1>6, <1>7 DEF e

LEMMA AgreeTransitive ==
  ASSUME NEW a, NEW b, NEW c, NEW limit \in Nat, NEW higher \in Nat, limit <= higher,
         Agree(a, b, limit), Agree(b, c, higher)
  PROVE  Agree(a, c, limit)
BY DEF Agree, Index

\* write_data_block leaves everything below the write offset alone.
LEMMA StoresBlockWrites ==
  ASSUME TypeOK, 1 <= writeOffset, writeOffset <= mmap.len,
         ZeroBeyond(mmap.cells, mmap.cap),
         NEW data \in Seq(Bytes), NEW off \in BlockOffsets, StoresBlock(data, off)
  PROVE  /\ Agree(mmap.cells, mmap'.cells, writeOffset)
         /\ NoNewTrailer(mmap.cells, mmap'.cells)
         /\ ZeroBeyond(mmap'.cells, mmap'.cap)
         /\ writeOffset <= writeOffset'
         /\ writeOffset' <= mmap'.len
         /\ Len(data) # 0 =>
                /\ off >= writeOffset
                /\ off % Alignment = 0
                /\ off + Len(data) = writeOffset'
                /\ \A k \in 1..Len(data) : mmap'.cells[off + k - 1] = DataCell(data[k])
<1>1. mmap \in Mapped /\ writeOffset \in Nat /\ DiskSize \in Nat
  BY FormatAssumption DEF TypeOK
<1>2. CASE data = <<>>
  BY <1>1, <1>2 DEF StoresBlock, Agree, NoNewTrailer
<1>3. CASE data # <<>>
  <2> DEFINE m == SetLen(mmap, off)
             T == DataCells(data)
  <2>1. /\ off = Aligned(writeOffset) /\ off <= DiskSize /\ Fits(mmap, off)
        /\ off + Len(data) <= DiskSize /\ Fits(m, off + Len(data))
        /\ mmap' = Extend(m, T) /\ writeOffset' = off + Len(data)
    BY <1>3 DEF StoresBlock, BlockEnd
  <2>2. off \in 0..DiskSize /\ off \in Nat /\ off >= writeOffset /\ off % Alignment = 0
    BY <1>1, <2>1, AlignedBound
  <2>3. m \in Mapped /\ m.len = off
    BY <1>1, <2>1, <2>2, SetLenEffect
  <2>4. /\ Agree(mmap.cells, m.cells, writeOffset)
        /\ NoNewTrailer(mmap.cells, m.cells)
        /\ ZeroBeyond(m.cells, m.cap)
    BY <1>1, <2>2, SetLenWrites
  <2>5. T \in Seq(Cell) /\ Len(T) = Len(data) /\ Len(data) \in Nat
        /\ \A k \in 1..Len(data) : T[k] = DataCell(data[k])
    BY DataCellsType DEF DataCells
  <2> HIDE DEF m, T
  <2>6. mmap'.len = off + Len(data) /\ mmap'.cap = Reserved(m, off + Len(data))
    BY <2>1, <2>3, <2>5, ExtendEffect
  <2>7. m.cap \in Nat /\ off + Len(data) \in Nat
    BY <2>2, <2>3, <2>5, FormatAssumption DEF Mapped
  <2>8. mmap'.cap \in Nat /\ m.cap <= mmap'.cap /\ off + Len(data) <= mmap'.cap
    BY <2>6, <2>7, ReservedBound
  <2>9. /\ Agree(m.cells, mmap'.cells, off)
        /\ ZeroBeyond(mmap'.cells, mmap'.cap)
        /\ \A k \in 1..Len(data) : mmap'.cells[off + k - 1] = T[k]
        /\ \A i \in Index : \/ mmap'.cells[i] = m.cells[i]
                            \/ \E k \in 1..Len(data) : mmap'.cells[i] = T[k]
    BY <2>1, <2>3, <2>4, <2>5, <2>8, ExtendWrites
  <2>10. Agree(mmap.cells, mmap'.cells, writeOffset)
    BY <1>1, <2>2, <2>4, <2>9, AgreeTransitive
  <2>11. NoNewTrailer(mmap.cells, mmap'.cells)
    <3>1. ASSUME NEW k \in 1..Len(data) PROVE T[k].t # "trailer"
      <4>1. T[k] = DataCell(data[k])
        BY <2>5
      <4>2. DataCell(data[k]).t = "data"
        BY DEF DataCell
      <4> QED BY <4>1, <4>2
    <3> SUFFICES ASSUME NEW p \in Index, mmap'.cells[p].t = "trailer"
                 PROVE  mmap'.cells[p] = mmap.cells[p]
      BY DEF NoNewTrailer
    <3>2. mmap'.cells[p] = m.cells[p]
      BY <2>9, <3>1
    <3>3. m.cells[p] = mmap.cells[p]
      BY <2>4, <3>2 DEF NoNewTrailer
    <3> QED BY <3>2, <3>3
  <2> QED BY <1>1, <2>1, <2>2, <2>5, <2>6, <2>9, <2>10, <2>11
<1> QED BY <1>2, <1>3

LEMMA BlockFailsWrites ==
  ASSUME TypeOK, 1 <= writeOffset, writeOffset <= mmap.len,
         ZeroBeyond(mmap.cells, mmap.cap),
         NEW data \in Seq(Bytes), BlockFails(data)
  PROVE  /\ Agree(mmap.cells, mmap'.cells, writeOffset)
         /\ NoNewTrailer(mmap.cells, mmap'.cells)
         /\ ZeroBeyond(mmap'.cells, mmap'.cap)
         /\ writeOffset <= writeOffset'
         /\ writeOffset' <= mmap'.len
<1>1. mmap \in Mapped /\ writeOffset \in Nat /\ DiskSize \in Nat /\ mmap.len \in Nat
  BY FormatAssumption DEF TypeOK, Mapped
<1> DEFINE off == Aligned(writeOffset)
<1>2. off \in Nat /\ off >= writeOffset
  BY <1>1, AlignedBound
<1>3. CASE UNCHANGED <<mmap, writeOffset>>
  BY <1>1, <1>3 DEF Agree, NoNewTrailer
<1>4. CASE /\ off <= DiskSize /\ Fits(mmap, off)
           /\ mmap' = SetLen(mmap, off) /\ writeOffset' = off
  <2>1. off \in 0..DiskSize
    BY <1>1, <1>2, <1>4
  <2>2. mmap'.len = off
    BY <1>1, <1>4, <2>1, SetLenEffect
  <2>3. /\ Agree(mmap.cells, mmap'.cells, writeOffset)
        /\ NoNewTrailer(mmap.cells, mmap'.cells)
        /\ ZeroBeyond(mmap'.cells, mmap'.cap)
    BY <1>1, <1>2, <1>4, <2>1, SetLenWrites
  <2> QED BY <1>1, <1>2, <1>4, <2>2, <2>3
<1> QED BY <1>3, <1>4 DEF BlockFails

-----------------------------------------------------------------------------
(* Changes of the tables *)

\* Rows may go, names may change and IDs may be spent.
LEMMA RowsSoundFewer ==
  ASSUME NEW cells, NEW rows \in SUBSET EntryRow, NEW fewer \in SUBSET rows,
         NEW names, NEW others, NEW nextId \in Nat, NEW later \in Nat, NEW limit,
         nextId <= later, RowsSound(cells, rows, names, nextId, limit),
         \A d \in others : d.id \in Nat /\ d.id < nextId, Referenced(fewer, others)
  PROVE  RowsSound(cells, fewer, others, later, limit)
<1>1. \A r \in rows : r.id \in Nat
  BY FormatAssumption DEF EntryRow
<1>2. UniqueIds(fewer, others, later)
  BY <1>1 DEF RowsSound, UniqueIds
<1>3. SeparateBlocks(fewer, limit)
  BY DEF RowsSound, SeparateBlocks
<1>4. \A r \in fewer : VerifyCrc(cells, r)
  BY DEF RowsSound
<1> QED BY <1>2, <1>3, <1>4 DEF RowsSound

\* A row over a new block: the rows that stay end before it.
LEMMA RowsSoundMore ==
  ASSUME NEW cells, NEW rows \in SUBSET EntryRow, NEW row \in EntryRow,
         NEW names, NEW others, NEW nextId \in Nat, NEW later \in Nat,
         NEW limit \in Nat, NEW higher \in Nat, nextId <= later, limit <= higher,
         UniqueIds(rows, names, nextId), SeparateBlocks(rows, limit),
         \A r \in rows : VerifyCrc(cells, r), VerifyCrc(cells, row),
         row.id < later, \A r \in rows : r.id # row.id,
         HasBlock(row) => /\ 1 <= row.off /\ limit <= row.off
                          /\ row.off % Alignment = 0 /\ row.off + row.size <= higher,
         \A d \in others : d.id \in Nat /\ d.id < later,
         Referenced(rows \cup {row}, others)
  PROVE  RowsSound(cells, rows \cup {row}, others, later, higher)
<1>1. \A r \in rows \cup {row} : r.id \in Nat /\ r.off \in Nat /\ r.size \in Nat
  BY FormatAssumption DEF EntryRow
<1>2. UniqueIds(rows \cup {row}, others, later)
  <2>1. \A r \in rows : r.id < later
    BY <1>1 DEF UniqueIds
  <2>2. \A r, s \in rows \cup {row} : r.id = s.id => r = s
    BY DEF UniqueIds
  <2> QED BY <2>1, <2>2 DEF UniqueIds
<1>3. ASSUME NEW r \in rows \cup {row}, HasBlock(r),
             NEW s \in (rows \cup {row}) \ {r}, HasBlock(s)
      PROVE  r.off + r.size <= s.off \/ s.off + s.size <= r.off
  <2>1. CASE r \in rows /\ s \in rows
    BY <1>3, <2>1 DEF SeparateBlocks
  <2>2. CASE r \in rows /\ s = row
    <3>1. r.off + r.size <= limit /\ limit <= s.off
      BY <1>3, <2>2 DEF SeparateBlocks
    <3> QED BY <1>1, <3>1
  <2>3. CASE r = row /\ s \in rows
    <3>1. s.off + s.size <= limit /\ limit <= r.off
      BY <1>3, <2>3 DEF SeparateBlocks
    <3> QED BY <1>1, <3>1
  <2> QED BY <1>3, <2>1, <2>2, <2>3
<1>4. ASSUME NEW r \in rows \cup {row}, HasBlock(r)
      PROVE  r.off >= 1 /\ r.off % Alignment = 0 /\ r.off + r.size <= higher
  <2>1. CASE r = row
    BY <1>1, <1>4, <2>1
  <2>2. CASE r \in rows
    <3>1. r.off >= 1 /\ r.off % Alignment = 0 /\ r.off + r.size <= limit
      BY <1>4, <2>2 DEF SeparateBlocks
    <3> QED BY <1>1, <3>1
  <2> QED BY <2>1, <2>2
<1>5. SeparateBlocks(rows \cup {row}, higher)
  BY <1>3, <1>4 DEF SeparateBlocks
<1> QED BY <1>2, <1>5 DEF RowsSound

-----------------------------------------------------------------------------
(* The operations of a session keep the invariant *)

\* A session's step on the file: what it needs to keep the file sound.
LEMMA FileStaysSound ==
  ASSUME IInv, session = "open", mmap' \in Mapped,
         Agree(mmap.cells, mmap'.cells, writeOffset),
         NoNewTrailer(mmap.cells, mmap'.cells), ZeroBeyond(mmap'.cells, mmap'.cap)
  PROVE  /\ FileSound'
         /\ TrailersBelow(mmap'.cells, writeOffset)
         /\ RowsSound(mmap'.cells, entryRows, dirEntries, trailer.nextId, writeOffset)
<1>1. /\ mmap.cells \in [Index -> Cell] /\ mmap'.cells \in [Index -> Cell]
      /\ writeOffset \in Nat /\ writeOffset \in 0..DiskSize
      /\ entryRows \in SUBSET EntryRow
  BY FormatAssumption DEF IInv, TypeOK, Mapped
<1>2. /\ \A p \in Index : TrailerSound(mmap.cells, p)
      /\ TrailersBelow(mmap.cells, writeOffset)
      /\ RowsSound(mmap.cells, entryRows, dirEntries, trailer.nextId, writeOffset)
  BY DEF IInv, FileSound, SessionSound
<1>3. /\ \A p \in Index : TrailerSound(mmap'.cells, p)
      /\ TrailersBelow(mmap'.cells, writeOffset)
  BY <1>1, <1>2, TrailersStaySound
<1>4. FileSound'
  BY <1>3 DEF FileSound, ZeroBeyond
<1>5. RowsSound(mmap'.cells, entryRows, dirEntries, trailer.nextId, writeOffset)
  <2>1. writeOffset <= writeOffset
        /\ \A d \in dirEntries : \E e \in dirEntries : e.id = d.id
    BY <1>1
  <2> QED BY <1>1, <1>2, <2>1, RowsSoundBelow
<1> QED BY <1>3, <1>4, <1>5

LEMMA TrailersBelowHigher ==
  ASSUME NEW cells \in [Index -> Cell], NEW limit \in Nat, NEW higher \in Nat,
         limit <= higher, TrailersBelow(cells, limit)
  PROVE  TrailersBelow(cells, higher)
<1>1. ASSUME NEW p \in Index, cells[p].t = "trailer"
      PROVE  cells[p].trailer.entryOff <= higher
  <2>1. cells[p].trailer \in Trailer
    BY <1>1, TrailerCellType
  <2>2. cells[p].trailer.entryOff \in Nat
    BY <2>1, FormatAssumption DEF Trailer
  <2> QED BY <1>1, <2>2 DEF TrailersBelow
<1> QED BY <1>1 DEF TrailersBelow

\* An operation that leaves the file alone, and needs only sound tables.
LEMMA TableStep ==
  ASSUME IInv, session = "open", session' = "open", TypeOK',
         mmap' = mmap, writeOffset' = writeOffset,
         RowsSound(mmap.cells, entryRows', dirEntries', trailer'.nextId, writeOffset)
  PROVE  IInv'
<1>1. FileSound'
  BY DEF IInv, FileSound
<1>2. SessionSound'
  BY DEF IInv, SessionSound
<1> QED BY <1>1, <1>2 DEF IInv

\* An operation that writes a block, or fails to.
LEMMA BlockStep ==
  ASSUME IInv, session = "open", session' = "open", TypeOK',
         Agree(mmap.cells, mmap'.cells, writeOffset),
         NoNewTrailer(mmap.cells, mmap'.cells), ZeroBeyond(mmap'.cells, mmap'.cap),
         writeOffset <= writeOffset', writeOffset' <= mmap'.len,
         RowsSound(mmap'.cells, entryRows', dirEntries', trailer'.nextId, writeOffset')
  PROVE  IInv'
<1>1. mmap' \in Mapped /\ mmap'.cells \in [Index -> Cell]
      /\ writeOffset \in Nat /\ writeOffset' \in Nat /\ 1 <= writeOffset
  BY FormatAssumption DEF IInv, TypeOK, Mapped, SessionSound
<1>2. FileSound' /\ TrailersBelow(mmap'.cells, writeOffset)
  BY <1>1, FileStaysSound
<1>3. TrailersBelow(mmap'.cells, writeOffset')
  BY <1>1, <1>2, TrailersBelowHigher
<1>4. SessionSound'
  BY <1>1, <1>3 DEF SessionSound
<1> QED BY <1>2, <1>4 DEF IInv

LEMMA OpenFacts ==
  ASSUME IInv, session = "open"
  PROVE  /\ TypeOK
         /\ 1 <= writeOffset /\ writeOffset <= mmap.len
         /\ writeOffset \in Nat /\ trailer.nextId \in Nat /\ trailer.nextId + 1 \in Nat
         /\ entryRows \in SUBSET EntryRow
         /\ \A d \in dirEntries : d.id \in Nat /\ d.id < trailer.nextId
         /\ \A r \in entryRows : r.id \in Nat /\ r.id < trailer.nextId
         /\ ZeroBeyond(mmap.cells, mmap.cap)
         /\ RowsSound(mmap.cells, entryRows, dirEntries, trailer.nextId, writeOffset)
         /\ Referenced(entryRows, dirEntries)
<1>1. TypeOK /\ writeOffset \in Nat /\ trailer.nextId \in Nat /\ trailer.nextId + 1 \in Nat
  BY FormatAssumption DEF IInv, TypeOK, Trailer
<1>2. RowsSound(mmap.cells, entryRows, dirEntries, trailer.nextId, writeOffset)
  BY DEF IInv, SessionSound
<1>3. (\A d \in dirEntries : d.id \in Nat) /\ (\A r \in entryRows : r.id \in Nat)
  BY <1>1, FormatAssumption DEF TypeOK, DirEntry, EntryRow
<1> QED BY <1>1, <1>2, <1>3
        DEF IInv, SessionSound, FileSound, ZeroBeyond, RowsSound, UniqueIds, TypeOK

\* The new row's block holds the data its CRC was computed from.
LEMMA NewRowCrc ==
  ASSUME NEW id, NEW kind, NEW off, NEW data \in Seq(Bytes), NEW cells,
         Len(data) # 0 => \A k \in 1..Len(data) :
                              cells[off + k - 1] = DataCell(data[k])
  PROVE  VerifyCrc(cells, NewRow(id, kind, off, data))
BY DEF VerifyCrc, NewRow

LEMMA AddEntrySafe ==
  ASSUME IInv, TypeOK', NEW raw \in RawPaths, NEW kind \in Kind, NEW data \in Data,
         AddEntry(raw, kind, data)
  PROVE  IInv'
<1>1. session = "open" /\ session' = "open" /\ data \in Seq(Bytes)
  BY WriterAssumption DEF AddEntry
<1> DEFINE id == trailer.nextId
<1>2. PICK off \in BlockOffsets :
          /\ StoresBlock(data, off)
          /\ entryRows' = entryRows \cup {NewRow(id, kind, off, data)}
  BY DEF AddEntry
<1> DEFINE row == NewRow(id, kind, off, data)
<1>3. /\ Agree(mmap.cells, mmap'.cells, writeOffset)
      /\ NoNewTrailer(mmap.cells, mmap'.cells)
      /\ ZeroBeyond(mmap'.cells, mmap'.cap)
      /\ writeOffset <= writeOffset'
      /\ writeOffset' <= mmap'.len
      /\ Len(data) # 0 =>
            /\ off >= writeOffset
            /\ off % Alignment = 0
            /\ off + Len(data) = writeOffset'
            /\ \A k \in 1..Len(data) : mmap'.cells[off + k - 1] = DataCell(data[k])
  BY <1>1, <1>2, OpenFacts, StoresBlockWrites
<1>4. /\ off \in Nat /\ writeOffset' \in Nat /\ mmap' \in Mapped /\ off \in 0..DiskSize
  BY <1>1, <1>2, OpenFacts, StoresBlockType, FormatAssumption
<1>5. RowsSound(mmap'.cells, entryRows, dirEntries, id, writeOffset)
  BY <1>1, <1>3, <1>4, FileStaysSound
<1>6. trailer'.nextId = id + 1
  BY OpenFacts, <1>1 DEF AddEntry, Spent, TypeOK, Trailer
<1>7. dirEntries' = Pushed(Canonical[raw], id)
  BY DEF AddEntry
<1>8. /\ row.id = id /\ row.off = off /\ row.size = Len(data)
  BY DEF NewRow
<1>9. row \in EntryRow
  BY <1>1, <1>2 DEF TypeOK
<1>10. VerifyCrc(mmap'.cells, row)
  BY <1>1, <1>3, NewRowCrc
<1>11. \A d \in dirEntries' : d.id \in Nat /\ d.id < id + 1
  BY <1>1, <1>7, OpenFacts DEF Pushed
<1>12. Referenced(entryRows \cup {row}, dirEntries')
  <2> DEFINE d == [path |-> Canonical[raw], id |-> id, at |-> Cardinality(dirEntries) + 1]
  <2>1. dirEntries' = dirEntries \cup {d} /\ d.id = row.id
    BY <1>7, <1>8 DEF Pushed
  <2>2. Referenced(entryRows, dirEntries)
    BY <1>1, OpenFacts
  <2> HIDE DEF d
  <2> QED BY <2>1, <2>2 DEF Referenced
<1> HIDE DEF row
<1>13. RowsSound(mmap'.cells, entryRows \cup {row}, dirEntries', id + 1, writeOffset')
  <2>1. /\ UniqueIds(entryRows, dirEntries, id) /\ SeparateBlocks(entryRows, writeOffset)
        /\ \A r \in entryRows : VerifyCrc(mmap'.cells, r)
    BY <1>5 DEF RowsSound
  <2>2. id \in Nat /\ id + 1 \in Nat /\ id <= id + 1 /\ writeOffset \in Nat
        /\ 1 <= writeOffset /\ entryRows \in SUBSET EntryRow
    BY <1>1, OpenFacts
  <2>3. row.id < id + 1 /\ \A r \in entryRows : r.id # row.id
    BY <1>1, <1>8, <2>2, OpenFacts
  <2>4. HasBlock(row) => /\ 1 <= row.off /\ writeOffset <= row.off
                         /\ row.off % Alignment = 0 /\ row.off + row.size <= writeOffset'
    BY <1>3, <1>4, <1>8, <2>2 DEF HasBlock
  <2> HIDE DEF id
  <2> QED BY <1>3, <1>4, <1>9, <1>10, <1>11, <1>12, <2>1, <2>2, <2>3, <2>4, RowsSoundMore
<1> QED BY <1>1, <1>2, <1>3, <1>6, <1>13, BlockStep DEF row

LEMMA ReplaceContentSafe ==
  ASSUME IInv, TypeOK', NEW raw \in RawPaths, NEW data \in Data,
         ReplaceContent(raw, data)
  PROVE  IInv'
<1>1. session = "open" /\ session' = "open" /\ data \in Seq(Bytes)
      /\ trailer' = trailer /\ dirEntries' = dirEntries
  BY WriterAssumption DEF ReplaceContent
<1>2. PICK r \in entryRows, off \in BlockOffsets :
          /\ StoresBlock(data, off)
          /\ entryRows' = (entryRows \ {r}) \cup {NewRow(r.id, "file", off, data)}
  BY DEF ReplaceContent
<1> DEFINE row == NewRow(r.id, "file", off, data)
           rows == entryRows \ {r}
           id == trailer.nextId
<1>3. /\ Agree(mmap.cells, mmap'.cells, writeOffset)
      /\ NoNewTrailer(mmap.cells, mmap'.cells)
      /\ ZeroBeyond(mmap'.cells, mmap'.cap)
      /\ writeOffset <= writeOffset'
      /\ writeOffset' <= mmap'.len
      /\ Len(data) # 0 =>
            /\ off >= writeOffset
            /\ off % Alignment = 0
            /\ off + Len(data) = writeOffset'
            /\ \A k \in 1..Len(data) : mmap'.cells[off + k - 1] = DataCell(data[k])
  BY <1>1, <1>2, OpenFacts, StoresBlockWrites
<1>4. /\ off \in Nat /\ writeOffset' \in Nat /\ mmap' \in Mapped /\ off \in 0..DiskSize
  BY <1>1, <1>2, OpenFacts, StoresBlockType, FormatAssumption
<1>5. RowsSound(mmap'.cells, entryRows, dirEntries, id, writeOffset)
  BY <1>1, <1>3, <1>4, FileStaysSound
<1>6. /\ row.id = r.id /\ row.off = off /\ row.size = Len(data)
  BY DEF NewRow
<1>7. row \in EntryRow
  BY <1>1, <1>2 DEF TypeOK
<1>8. VerifyCrc(mmap'.cells, row)
  BY <1>1, <1>3, NewRowCrc
<1>9. \A d \in dirEntries : d.id \in Nat /\ d.id < id
  BY <1>1, OpenFacts
<1>10. Referenced(rows \cup {row}, dirEntries)
  BY <1>1, <1>6, OpenFacts DEF Referenced
<1>11. /\ UniqueIds(rows, dirEntries, id) /\ SeparateBlocks(rows, writeOffset)
       /\ \A s \in rows : VerifyCrc(mmap'.cells, s)
  BY <1>5 DEF RowsSound, UniqueIds, SeparateBlocks
<1>12. \A s \in rows : s.id # row.id
  BY <1>5, <1>6 DEF RowsSound, UniqueIds
<1>13. row.id < id
  BY <1>1, <1>6, OpenFacts
<1>14. id \in Nat /\ writeOffset \in Nat /\ 1 <= writeOffset /\ rows \in SUBSET EntryRow
       /\ id <= id
  BY <1>1, OpenFacts
<1>15. HasBlock(row) => /\ 1 <= row.off /\ writeOffset <= row.off
                        /\ row.off % Alignment = 0 /\ row.off + row.size <= writeOffset'
  BY <1>3, <1>4, <1>6, <1>14 DEF HasBlock
<1> HIDE DEF row, rows, id
<1>16. RowsSound(mmap'.cells, rows \cup {row}, dirEntries, id, writeOffset')
  BY <1>3, <1>4, <1>7, <1>8, <1>9, <1>10, <1>11, <1>12, <1>13, <1>14, <1>15, RowsSoundMore
<1> QED BY <1>1, <1>2, <1>3, <1>16, BlockStep DEF row, rows, id

LEMMA FailedBlockSafe ==
  ASSUME IInv, TypeOK', session = "open", session' = "open",
         NEW data \in Data, BlockFails(data),
         trailer'.nextId \in Nat, trailer.nextId <= trailer'.nextId,
         UNCHANGED <<entryRows, dirEntries>>
  PROVE  IInv'
<1>1. /\ Agree(mmap.cells, mmap'.cells, writeOffset)
      /\ NoNewTrailer(mmap.cells, mmap'.cells)
      /\ ZeroBeyond(mmap'.cells, mmap'.cap)
      /\ writeOffset <= writeOffset'
      /\ writeOffset' <= mmap'.len
  BY WriterAssumption, OpenFacts, BlockFailsWrites
<1>2. mmap' \in Mapped /\ writeOffset' \in Nat
      /\ mmap'.cells \in [Index -> Cell]
  BY FormatAssumption DEF TypeOK, Mapped
<1>3. RowsSound(mmap'.cells, entryRows, dirEntries, trailer.nextId, writeOffset)
  BY <1>1, <1>2, FileStaysSound
<1>4. RowsSound(mmap'.cells, entryRows, dirEntries, trailer'.nextId, writeOffset)
  <2>1. Referenced(entryRows, dirEntries) /\ entryRows \in SUBSET EntryRow
        /\ trailer.nextId \in Nat
        /\ \A d \in dirEntries : d.id \in Nat /\ d.id < trailer.nextId
    BY OpenFacts
  <2> QED BY <1>3, <2>1, RowsSoundFewer
<1>5. RowsSound(mmap'.cells, entryRows, dirEntries, trailer'.nextId, writeOffset')
  <2>1. Agree(mmap'.cells, mmap'.cells, writeOffset)
        /\ \A d \in dirEntries : \E e \in dirEntries : e.id = d.id
    BY DEF Agree
  <2>2. entryRows \in SUBSET EntryRow /\ writeOffset \in 0..DiskSize
    BY DEF IInv, TypeOK
  <2> QED BY <1>1, <1>2, <1>4, <2>1, <2>2, RowsSoundBelow
<1> QED BY <1>1, <1>5, BlockStep

\* The operations that change only directory rows and let entry rows go.
LEMMA FewerRowsSafe ==
  ASSUME IInv, TypeOK', session = "open", session' = "open",
         mmap' = mmap, writeOffset' = writeOffset, trailer' = trailer,
         entryRows' \subseteq entryRows, Referenced(entryRows', dirEntries'),
         \A d \in dirEntries' : (\E e \in dirEntries : e.id = d.id)
                                \/ \E r \in entryRows : r.id = d.id
  PROVE  IInv'
<1>1. \A d \in dirEntries' : d.id \in Nat /\ d.id < trailer.nextId
  BY OpenFacts
<1>2. /\ entryRows \in SUBSET EntryRow /\ trailer.nextId \in Nat
      /\ trailer.nextId <= trailer.nextId
      /\ RowsSound(mmap.cells, entryRows, dirEntries, trailer.nextId, writeOffset)
  BY OpenFacts
<1>3. RowsSound(mmap.cells, entryRows', dirEntries', trailer.nextId, writeOffset)
  BY <1>1, <1>2, RowsSoundFewer
<1> QED BY <1>3, TableStep

LEMMA DeleteSafe ==
  ASSUME IInv, TypeOK', NEW raw \in RawPaths, Delete(raw)
  PROVE  IInv'
<1> DEFINE gone == RowsOf(Padded(raw))
           kept == dirEntries \ gone
<1>1. /\ session = "open" /\ session' = "open" /\ mmap' = mmap
      /\ writeOffset' = writeOffset /\ trailer' = trailer
      /\ dirEntries' = Retained(kept)
      /\ entryRows' = { r \in entryRows : \A d \in gone : d.id # r.id }
  BY DEF Delete
<1>2. kept \in SUBSET dirEntries
  OBVIOUS
<1>3. /\ \A e \in dirEntries' : \E d \in kept : e.id = d.id
      /\ \A d \in kept : \E e \in dirEntries' : e.id = d.id
  <2> HIDE DEF kept
  <2> QED BY <1>1, <1>2, OpenFacts, RetainedType
<1>4. ASSUME NEW r \in entryRows' PROVE \E e \in dirEntries' : e.id = r.id
  <2>1. r \in entryRows /\ \A d \in gone : d.id # r.id
    BY <1>1
  <2>2. PICK d \in dirEntries : d.id = r.id
    BY <1>1, <2>1, OpenFacts DEF Referenced
  <2>3. d \in kept
    BY <2>1, <2>2
  <2> QED BY <1>3, <2>2, <2>3
<1>5. entryRows' \subseteq entryRows
  BY <1>1
<1> HIDE DEF gone, kept
<1>6. \A e \in dirEntries' : \E d \in dirEntries : d.id = e.id
  BY <1>2, <1>3
<1> QED BY <1>1, <1>4, <1>5, <1>6, FewerRowsSafe DEF Referenced

LEMMA UnlinkSafe ==
  ASSUME IInv, TypeOK', NEW raw \in RawPaths, Unlink(raw)
  PROVE  IInv'
<1>1. /\ session = "open" /\ session' = "open" /\ mmap' = mmap
      /\ writeOffset' = writeOffset /\ trailer' = trailer
  BY DEF Unlink
<1>2. PICK d \in dirEntries :
          /\ dirEntries' = Retained(dirEntries \ {d})
          /\ entryRows' = EntriesLeft(d, dirEntries \ {d})
  BY DEF Unlink
<1> DEFINE kept == dirEntries \ {d}
<1>3. kept \in SUBSET dirEntries
  OBVIOUS
<1>4. /\ \A e \in dirEntries' : \E f \in kept : e.id = f.id
      /\ \A f \in kept : \E e \in dirEntries' : e.id = f.id
  <2>1. dirEntries' = Retained(kept)
    BY <1>2
  <2> HIDE DEF kept
  <2> QED BY <1>1, <1>3, <2>1, OpenFacts, RetainedType
<1>5. ASSUME NEW r \in entryRows' PROVE \E e \in dirEntries' : e.id = r.id
  <2>1. r \in entryRows /\ (r.id = d.id => \E e \in kept : e.id = d.id)
    BY <1>2 DEF EntriesLeft
  <2>2. PICK f \in dirEntries : f.id = r.id
    BY <1>1, <2>1, OpenFacts DEF Referenced
  <2>3. \E g \in kept : g.id = r.id
    BY <2>1, <2>2
  <2> QED BY <1>4, <2>3
<1>6. entryRows' \subseteq entryRows
  BY <1>2 DEF EntriesLeft
<1> HIDE DEF kept
<1>7. \A e \in dirEntries' : \E f \in dirEntries : f.id = e.id
  BY <1>3, <1>4
<1> QED BY <1>1, <1>5, <1>6, <1>7, FewerRowsSafe DEF Referenced

LEMMA HardLinkSafe ==
  ASSUME IInv, TypeOK', NEW raw \in RawPaths, NEW to \in RawPaths, HardLink(raw, to)
  PROVE  IInv'
<1>1. /\ session = "open" /\ session' = "open" /\ mmap' = mmap /\ entryRows' = entryRows
      /\ writeOffset' = writeOffset /\ trailer' = trailer
  BY DEF HardLink
<1>2. PICK r \in entryRows : dirEntries' = Pushed(Canonical[to], r.id)
  BY DEF HardLink
<1>3. Referenced(entryRows', dirEntries')
  BY <1>1, <1>2, OpenFacts DEF Referenced, Pushed
<1>4. ASSUME NEW d \in dirEntries'
      PROVE  (\E e \in dirEntries : e.id = d.id) \/ \E s \in entryRows : s.id = d.id
  <2>1. CASE d \in dirEntries
    BY <2>1
  <2>2. CASE d \notin dirEntries
    <3>1. d.id = r.id
      BY <1>2, <2>2 DEF Pushed
    <3> QED BY <3>1
  <2> QED BY <2>1, <2>2
<1> QED BY <1>1, <1>3, <1>4, FewerRowsSafe

LEMMA RenameSafe ==
  ASSUME IInv, TypeOK', NEW raw \in RawPaths, NEW to \in RawPaths, Rename(raw, to)
  PROVE  IInv'
<1>1. /\ session = "open" /\ session' = "open" /\ mmap' = mmap /\ entryRows' = entryRows
      /\ writeOffset' = writeOffset /\ trailer' = trailer
      /\ Canonical[raw] \in Path /\ Canonical[to] \in Path
  BY DEF Rename, Storable
<1>2. /\ \A d \in dirEntries' : \E e \in dirEntries : d.id = e.id
      /\ \A e \in dirEntries : \E d \in dirEntries' : d.id = e.id
  BY <1>1, OpenFacts, RenamedType DEF Rename
<1>3. Referenced(entryRows', dirEntries')
  <2>1. Referenced(entryRows, dirEntries)
    BY <1>1, OpenFacts
  <2> QED BY <1>1, <1>2, <2>1 DEF Referenced
<1>4. \A d \in dirEntries' : \E e \in dirEntries : e.id = d.id
  BY <1>2
<1> QED BY <1>1, <1>3, <1>4, FewerRowsSafe

LEMMA OperationSafe ==
  ASSUME IInv, Operation
  PROVE  IInv'
<1>1. TypeOK'
  BY OperationType DEF IInv
<1>2. ASSUME NEW raw \in RawPaths, NEW data \in Data, AddEntryFails(raw, data)
      PROVE  IInv'
  <2>1. trailer'.nextId = trailer.nextId + 1
    BY <1>2, OpenFacts DEF AddEntryFails, Spent, TypeOK, Trailer
  <2>2. trailer'.nextId \in Nat /\ trailer.nextId <= trailer'.nextId
    BY <1>2, <2>1, OpenFacts DEF AddEntryFails
  <2> QED BY <1>1, <1>2, <2>2, FailedBlockSafe DEF AddEntryFails
<1>3. ASSUME NEW raw \in RawPaths, NEW data \in Data, ReplaceContentFails(raw, data)
      PROVE  IInv'
  <2>1. trailer'.nextId \in Nat /\ trailer.nextId <= trailer'.nextId
    BY <1>3, OpenFacts DEF ReplaceContentFails
  <2> QED BY <1>1, <1>3, <2>1, FailedBlockSafe DEF ReplaceContentFails
<1> QED BY <1>1, <1>2, <1>3, AddEntrySafe, ReplaceContentSafe, DeleteSafe, UnlinkSafe,
           HardLinkSafe, RenameSafe DEF Operation

-----------------------------------------------------------------------------
(* Opening, syncing and ending keep the invariant *)

\* Cutting a file above its trailers' tables.
LEMMA CutStaysSound ==
  ASSUME NEW cells \in [Index -> Cell], NEW n \in Nat,
         \A p \in Index : TrailerSound(cells, p), TrailersBelow(cells, n)
  PROVE  /\ \A p \in Index : TrailerSound(CutAt(cells, n), p)
         /\ TrailersBelow(CutAt(cells, n), n)
         /\ ZeroBeyond(CutAt(cells, n), n)
         /\ Agree(cells, CutAt(cells, n), n)
<1> DEFINE other == CutAt(cells, n)
<1>1. other \in [Index -> Cell]
      /\ \A i \in Index : other[i] = IF i < n THEN cells[i] ELSE Zero
  BY CutAtEffect
<1> HIDE DEF other
<1>2. ZeroBeyond(other, n) /\ Agree(cells, other, n)
  BY <1>1 DEF ZeroBeyond, Agree, Index
<1>3. NoNewTrailer(cells, other)
  BY <1>1 DEF NoNewTrailer, Zero
<1>4. (\A p \in Index : TrailerSound(other, p)) /\ TrailersBelow(other, n)
  BY <1>1, <1>2, <1>3, TrailersStaySound
<1> QED BY <1>2, <1>4 DEF other

LEMMA CreateSafe == IInv /\ Create /\ TypeOK' => IInv'
<1> SUFFICES ASSUME IInv, Create, TypeOK' PROVE IInv'
  OBVIOUS
<1> DEFINE T == <<Header>>
<1>1. MapNew \in Mapped /\ MapNew.len = 0 /\ MapNew.cap = Chunk
      /\ \A i \in Index : MapNew.cells[i] = Zero
  <2>1. Zero \in Cell
    BY DEF Cell, Zero
  <2> QED BY <2>1, ChunkAssumption, FormatAssumption DEF MapNew, NoFile, Mapped
<1>2. T \in Seq(Cell) /\ Len(T) = 1 /\ T[1] = Header
  <2>1. Header \in Cell
    BY DEF Cell, Header
  <2> QED BY <2>1
<1>3. mmap' = Extend(MapNew, T)
  BY DEF Create
<1>4. MapNew.len + Len(T) = 1 /\ 1 <= DiskSize /\ Chunk \in Nat /\ 1 <= Chunk
      /\ Chunk <= DiskSize
  BY <1>1, <1>2, ChunkAssumption, FormatAssumption
<1> HIDE DEF T
<1>5. mmap'.len = 1 /\ mmap'.cap = Chunk
  <2>1. Reserved(MapNew, 1) = Chunk
    BY <1>1, <1>4 DEF Reserved
  <2> QED BY <1>1, <1>2, <1>3, <1>4, <2>1, ExtendEffect
<1>6. ZeroBeyond(MapNew.cells, MapNew.cap) /\ MapNew.cap <= Chunk
  BY <1>1, <1>4 DEF ZeroBeyond
<1>7. /\ ZeroBeyond(mmap'.cells, Chunk)
      /\ \A i \in Index : \/ mmap'.cells[i] = MapNew.cells[i]
                          \/ \E k \in 1..Len(T) : mmap'.cells[i] = T[k]
  BY <1>1, <1>2, <1>3, <1>4, <1>6, ExtendWrites
<1>8. ASSUME NEW i \in Index PROVE mmap'.cells[i].t # "trailer"
  <2>1. mmap'.cells[i] = Zero \/ mmap'.cells[i] = Header
    BY <1>1, <1>2, <1>7
  <2> QED BY <2>1 DEF Zero, Header
<1>9. FileSound'
  BY <1>5, <1>7, <1>8 DEF FileSound, TrailerSound, ZeroBeyond
<1>10. SessionSound'
  <2>1. session' = "open" /\ writeOffset' = 1 /\ entryRows' = {} /\ dirEntries' = {}
    BY DEF Create, IInv, SessionSound
  <2>2. RowsSound(mmap'.cells, entryRows', dirEntries', trailer'.nextId, writeOffset')
    BY <2>1 DEF RowsSound, UniqueIds, SeparateBlocks, Referenced
  <2> QED BY <1>5, <1>8, <2>1, <2>2 DEF SessionSound, TrailersBelow
<1> QED BY <1>9, <1>10 DEF IInv

LEMMA RowIndex ==
  ASSUME NEW first \in Nat, NEW n \in Nat, NEW q \in Nat, first <= q, q < first + n
  PROVE  /\ q - first + 1 \in 1..n
         /\ first + (q - first + 1) - 1 = q
  OBVIOUS

\* The tables of the trailer that ends the file hold no other trailer.
LEMMA LastTrailer ==
  ASSUME IInv, HasTrailer(mmap.cells, mmap.cap),
         TablesMatch(mmap.cells, mmap.cells[mmap.cap - 1])
  PROVE  TrailersBelow(mmap.cells, mmap.cells[mmap.cap - 1].trailer.entryOff)
<1> DEFINE last == mmap.cap - 1
           c == mmap.cells[last]
<1>1. last \in Index /\ mmap.cells \in [Index -> Cell] /\ mmap.cap \in Nat
      /\ c.t = "trailer" /\ c \in Cell /\ last = mmap.cap - 1 /\ c = mmap.cells[last]
  BY FormatAssumption DEF HasTrailer, MinArchiveSize, IInv, TypeOK, Mapped, Index
<1> HIDE DEF c, last
<1>2. /\ c.trailer \in Trailer /\ c.entries \in Seq(EntryRow) /\ c.dirs \in Seq(DirRow)
      /\ c.trailer.entryOff \in Nat /\ c.trailer.dirOff \in Nat
      /\ Len(c.entries) \in Nat /\ Len(c.dirs) \in Nat
  <2>1. c.trailer \in Trailer /\ c.entries \in Seq(EntryRow) /\ c.dirs \in Seq(DirRow)
    BY <1>1, TrailerCellType
  <2> QED BY <2>1, FormatAssumption DEF Trailer
<1>3. /\ c.trailer.dirOff = c.trailer.entryOff + Len(c.entries)
      /\ last = c.trailer.dirOff + Len(c.dirs)
  <2>1. TrailerSound(mmap.cells, last)
    BY <1>1 DEF IInv, FileSound
  <2> QED BY <1>1, <2>1 DEF TrailerSound
<1>4. /\ \A i \in 1..Len(c.entries) :
            mmap.cells[c.trailer.entryOff + i - 1] = EntryCell(c.entries[i])
      /\ \A i \in 1..Len(c.dirs) :
            mmap.cells[c.trailer.dirOff + i - 1] = DirCell(c.dirs[i])
  BY DEF TablesMatch, c, last
<1>5. ASSUME NEW q \in Index, mmap.cells[q].t = "trailer"
      PROVE  mmap.cells[q].trailer.entryOff <= c.trailer.entryOff
  <2> DEFINE d == mmap.cells[q]
  <2>1. q \in Nat /\ q <= last
    <3>1. q >= mmap.cap => mmap.cells[q] = Zero
      BY DEF IInv, FileSound
    <3>2. ~(q >= mmap.cap)
      BY <1>5, <3>1 DEF Zero
    <3> QED BY <1>1, <3>2 DEF Index
  <2>2. /\ d.trailer.dirOff = d.trailer.entryOff + Len(d.entries)
        /\ q = d.trailer.dirOff + Len(d.dirs)
        /\ d.trailer.entryOff \in Nat /\ Len(d.entries) \in Nat /\ Len(d.dirs) \in Nat
    <3>1. d \in Cell /\ d.t = "trailer"
      BY <1>1, <1>5
    <3>2. d.trailer \in Trailer /\ d.entries \in Seq(EntryRow) /\ d.dirs \in Seq(DirRow)
      BY <3>1, TrailerCellType
    <3>3. d.trailer.entryOff \in Nat
      BY <3>2, FormatAssumption DEF Trailer
    <3>4. TrailerSound(mmap.cells, q)
      BY DEF IInv, FileSound
    <3> QED BY <3>1, <3>2, <3>3, <3>4 DEF TrailerSound
  <2> HIDE DEF d
  <2>3. d.trailer.entryOff <= q
    BY <2>2
  <2>4. CASE q < c.trailer.entryOff
    BY <1>2, <2>1, <2>2, <2>3, <2>4 DEF d
  <2>5. CASE q = last
    BY <1>1, <1>2, <2>5 DEF d
  <2>6. CASE c.trailer.entryOff <= q /\ q < c.trailer.dirOff
    <3> DEFINE i == q - c.trailer.entryOff + 1
    <3>1. i \in 1..Len(c.entries) /\ c.trailer.entryOff + i - 1 = q
      BY <1>2, <1>3, <2>1, <2>6, RowIndex
    <3> HIDE DEF i
    <3>2. mmap.cells[q] = EntryCell(c.entries[i])
      BY <1>4, <3>1
    <3>3. mmap.cells[q].t = "entry"
      BY <3>2 DEF EntryCell
    <3> QED BY <1>5, <3>3
  <2>7. CASE c.trailer.dirOff <= q /\ q < last
    <3> DEFINE i == q - c.trailer.dirOff + 1
    <3>1. i \in 1..Len(c.dirs) /\ c.trailer.dirOff + i - 1 = q
      BY <1>2, <1>3, <2>1, <2>7, RowIndex
    <3> HIDE DEF i
    <3>2. mmap.cells[q] = DirCell(c.dirs[i])
      <4>1. mmap.cells[c.trailer.dirOff + i - 1] = DirCell(c.dirs[i])
        BY <1>4, <3>1
      <4> QED BY <3>1, <4>1
    <3>3. mmap.cells[q].t = "dir"
      BY <3>2 DEF DirCell
    <3> QED BY <1>5, <3>3
  <2> QED BY <1>1, <1>2, <2>1, <2>4, <2>5, <2>6, <2>7 DEF Index
<1> QED BY <1>5 DEF TrailersBelow, c, last

LEMMA OpenIntactSafe == IInv /\ OpenIntact /\ TypeOK' => IInv'
<1> SUFFICES ASSUME IInv, OpenIntact, TypeOK' PROVE IInv'
  OBVIOUS
<1> DEFINE last == mmap.cap - 1
           c == mmap.cells[last]
<1>1. /\ session' = "open" /\ trailer' = c.trailer /\ writeOffset' = c.trailer.entryOff
      /\ entryRows' = Elements(c.entries) /\ dirEntries' = LoadedDirs(c.dirs)
      /\ mmap' = MapOpen(mmap)
      /\ HasTrailer(mmap.cells, mmap.cap) /\ TablesMatch(mmap.cells, c)
  BY DEF OpenIntact
<1>2. mmap'.cells = mmap.cells /\ mmap'.cap = mmap.cap /\ mmap'.len = mmap.cap
  BY <1>1 DEF MapOpen
<1>3. FileSound'
  BY <1>2 DEF IInv, FileSound
<1>4. TrailersBelow(mmap.cells, c.trailer.entryOff)
  BY <1>1, LastTrailer
<1>5. /\ last \in Index /\ mmap.cap \in Nat /\ last = mmap.cap - 1
      /\ c \in Cell /\ c.t = "trailer"
  <2>1. /\ mmap.cells \in [Index -> Cell] /\ mmap.cap \in 0..DiskSize
        /\ DiskSize \in Nat
    BY FormatAssumption DEF IInv, TypeOK, Mapped
  <2>2. mmap.cap >= 2 /\ c.t = "trailer"
    BY <1>1 DEF HasTrailer, MinArchiveSize
  <2>3. last \in Index /\ mmap.cap \in Nat
    BY <2>1, <2>2 DEF Index
  <2> QED BY <2>1, <2>2, <2>3
<1>6. TrailerSound(mmap.cells, last)
  BY <1>5 DEF IInv, FileSound
<1>7. /\ 1 <= c.trailer.entryOff
      /\ c.trailer.dirOff = c.trailer.entryOff + Len(c.entries)
      /\ last = c.trailer.dirOff + Len(c.dirs)
      /\ RowsSound(mmap.cells, Elements(c.entries), Elements(c.dirs),
                   c.trailer.nextId, c.trailer.entryOff)
  BY <1>5, <1>6 DEF TrailerSound
<1> HIDE DEF last, c
<1>8. /\ c.trailer \in Trailer /\ c.entries \in Seq(EntryRow) /\ c.dirs \in Seq(DirRow)
  BY <1>5, TrailerCellType
<1>9. /\ c.trailer.entryOff \in 0..DiskSize /\ c.trailer.entryOff \in Nat
      /\ Len(c.entries) \in Nat /\ Len(c.dirs) \in Nat
  BY <1>8, FormatAssumption DEF Trailer
<1>10. c.trailer.entryOff <= mmap.cap
  BY <1>5, <1>7, <1>9
<1>11. RowsSound(mmap.cells, entryRows', dirEntries', trailer'.nextId, writeOffset')
  <2> DEFINE rows == Elements(c.entries)
             names == Elements(c.dirs)
             others == LoadedDirs(c.dirs)
             off == c.trailer.entryOff
  <2>1. rows \in SUBSET EntryRow /\ RowsSound(mmap.cells, rows, names, c.trailer.nextId, off)
        /\ off \in 0..DiskSize /\ off \in Nat /\ off <= off
    BY <1>7, <1>8, <1>9, ElementsFinite
  <2>2. \A d \in others : \E e \in names : e.id = d.id
    BY <1>8, LoadedDirsType, ElementsFinite
  <2>3. \A e \in names : \E d \in others : e.id = d.id
    BY <1>8, LoadedDirsType, ElementsFinite
  <2>4. Agree(mmap.cells, mmap.cells, off)
    BY DEF Agree
  <2> HIDE DEF rows, names, others, off
  <2>5. RowsSound(mmap.cells, rows, others, c.trailer.nextId, off)
    BY <2>1, <2>2, <2>3, <2>4, RowsSoundBelow
  <2> QED BY <1>1, <2>5 DEF rows, others, off
<1>12. SessionSound'
  BY <1>1, <1>2, <1>4, <1>7, <1>10, <1>11 DEF SessionSound
<1> QED BY <1>3, <1>12 DEF IInv

LEMMA OpenDamagedSafe == IInv /\ OpenDamaged /\ TypeOK' => IInv'
<1> SUFFICES ASSUME IInv, OpenDamaged, TypeOK' PROVE IInv'
  OBVIOUS
<1>1. mmap'.cells = mmap.cells /\ mmap'.cap = mmap.cap /\ mmap'.len = mmap.cap
      /\ session' = "damaged"
  BY DEF OpenDamaged, MapOpen
<1>2. FileSound'
  BY <1>1 DEF IInv, FileSound
<1>3. SessionSound'
  BY <1>1 DEF SessionSound
<1> QED BY <1>2, <1>3 DEF IInv

\* A step that ends the session needs only to keep the file sound.
LEMMA EndedSafe ==
  ASSUME TypeOK', NoSession, FileSound'
  PROVE  IInv'
BY DEF NoSession, IInv, SessionSound

LEMMA CrashSafe == IInv /\ Crash /\ TypeOK' => IInv'
<1> SUFFICES ASSUME IInv, Crash, TypeOK' PROVE IInv'
  OBVIOUS
<1>1. mmap'.cells = mmap.cells /\ mmap'.cap = mmap.cap
  BY DEF Crash, Abandon
<1>2. FileSound'
  BY <1>1 DEF IInv, FileSound
<1> QED BY <1>2, EndedSafe DEF Crash

\* A drop cuts nothing below the write offset, nor below the last commit.
LEMMA DropSafe == IInv /\ Drop /\ TypeOK' => IInv'
<1> SUFFICES ASSUME IInv, Drop, TypeOK' PROVE IInv'
  OBVIOUS
<1> DEFINE n == DropLen(mmap)
<1>1. mmap'.cells = CutAt(mmap.cells, n) /\ mmap'.cap = n
  BY DEF Drop, Unmap
<1>2. /\ n \in Nat /\ n >= mmap.len /\ mmap.cells \in [Index -> Cell]
      /\ mmap.len \in Nat /\ mmap.cap \in Nat /\ writeOffset \in Nat
  BY FormatAssumption DEF DropLen, IInv, TypeOK, Mapped
<1> HIDE DEF n
<1>3. \A p \in Index : TrailerSound(mmap.cells, p)
  BY DEF IInv, FileSound
<1>4. TrailersBelow(mmap.cells, n)
  <2>1. CASE session = "open"
    <3>1. writeOffset <= n /\ TrailersBelow(mmap.cells, writeOffset)
      BY <1>2, <2>1 DEF IInv, SessionSound
    <3> QED BY <1>2, <3>1, TrailersBelowHigher
  <2>2. CASE session = "damaged"
    <3> SUFFICES ASSUME NEW p \in Index, mmap.cells[p].t = "trailer"
                 PROVE  mmap.cells[p].trailer.entryOff <= n
      BY DEF TrailersBelow
    <3> DEFINE c == mmap.cells[p]
    <3>1. c \in Cell /\ c.t = "trailer"
      BY <1>2
    <3>2. /\ c.trailer.dirOff = c.trailer.entryOff + Len(c.entries)
          /\ p = c.trailer.dirOff + Len(c.dirs)
      BY <1>3, <3>1 DEF TrailerSound
    <3>3. p < mmap.cap
      <4>1. p >= mmap.cap => c = Zero
        BY DEF IInv, FileSound
      <4> QED BY <1>2, <3>1, <4>1 DEF Zero, Index
    <3>4. mmap.len = mmap.cap
      BY <2>2 DEF IInv, SessionSound
    <3> HIDE DEF c
    <3>5. c.trailer \in Trailer /\ c.entries \in Seq(EntryRow) /\ c.dirs \in Seq(DirRow)
      BY <3>1, TrailerCellType
    <3>6. c.trailer.entryOff \in Nat /\ Len(c.entries) \in Nat /\ Len(c.dirs) \in Nat
      BY <3>5, FormatAssumption DEF Trailer
    <3>7. c.trailer.entryOff <= n
      BY <1>2, <3>2, <3>3, <3>4, <3>6 DEF Index
    <3> QED BY <3>7 DEF c
  <2> QED BY <2>1, <2>2 DEF Drop, IInv, TypeOK
<1>5. FileSound'
  BY <1>1, <1>2, <1>3, <1>4, CutStaysSound DEF FileSound, ZeroBeyond
<1> QED BY <1>5, EndedSafe DEF Drop

\* The tables that sync writes have the IDs that the session's have.
LEMMA SyncedIds ==
  ASSUME TypeOK, NEW dt \in DirTables
  PROVE  /\ \A d \in Elements(DirRowsOf(dt)) : \E e \in dirEntries : e.id = d.id
         /\ \A e \in dirEntries : \E d \in Elements(DirRowsOf(dt)) : e.id = d.id
         /\ \A d \in Sorted(dt) : \E e \in dirEntries : e.id = d.id
         /\ \A e \in dirEntries : \E d \in Sorted(dt) : e.id = d.id
<1> DEFINE rows == DirRowsOf(dt)
<1>1. /\ dt \in Seq(DirEntry) /\ Elements(dt) = dirEntries
      /\ rows \in Seq(DirRow) /\ Len(rows) = Len(dt)
      /\ \A i \in 1..Len(dt) : rows[i] = [path |-> dt[i].path, id |-> dt[i].id]
  BY DirTableType
<1>2. ASSUME NEW i \in 1..Len(dt) PROVE rows[i].id = dt[i].id
  <2>1. rows[i] = [path |-> dt[i].path, id |-> dt[i].id]
    BY <1>1
  <2> HIDE DEF rows
  <2> QED BY <2>1
<1>3. Sorted(dt) = LoadedDirs(rows)
  BY DEF Sorted
<1> HIDE DEF rows
<1>4. /\ \A d \in Elements(rows) : \E i \in 1..Len(dt) : d = rows[i]
      /\ \A i \in 1..Len(dt) : rows[i] \in Elements(rows)
  BY <1>1, ElementsFinite
<1>5. /\ \A e \in dirEntries : \E i \in 1..Len(dt) : e = dt[i]
      /\ \A i \in 1..Len(dt) : dt[i] \in dirEntries
  BY <1>1, ElementsFinite
<1>6. /\ \A d \in LoadedDirs(rows) : \E i \in 1..Len(dt) : d.id = rows[i].id
      /\ \A i \in 1..Len(dt) : \E d \in LoadedDirs(rows) : d.id = rows[i].id
  BY <1>1, LoadedDirsType
<1>7. ASSUME NEW d \in Elements(rows) PROVE \E e \in dirEntries : e.id = d.id
  <2>1. PICK i \in 1..Len(dt) : d = rows[i]
    BY <1>4
  <2> QED BY <1>2, <1>5, <2>1
<1>8. ASSUME NEW e \in dirEntries PROVE \E d \in Elements(rows) : e.id = d.id
  <2>1. PICK i \in 1..Len(dt) : e = dt[i]
    BY <1>5
  <2> QED BY <1>2, <1>4, <2>1
<1>9. ASSUME NEW d \in LoadedDirs(rows) PROVE \E e \in dirEntries : e.id = d.id
  <2>1. PICK i \in 1..Len(dt) : d.id = rows[i].id
    BY <1>6
  <2> QED BY <1>2, <1>5, <2>1
<1>10. ASSUME NEW e \in dirEntries PROVE \E d \in LoadedDirs(rows) : e.id = d.id
  <2>1. PICK i \in 1..Len(dt) : e = dt[i]
    BY <1>5
  <2> QED BY <1>2, <1>6, <2>1
<1> QED BY <1>3, <1>7, <1>8, <1>9, <1>10 DEF rows

\* The only trailer among the cells of the tables is the last of them.
LEMMA TableTrailer ==
  ASSUME TypeOK, NEW et \in EntryTables, NEW dt \in DirTables,
         NEW n \in 0..(Len(et) + Len(dt) + 1), NEW k \in 1..n,
         TableCells(et, dt, n)[k].t = "trailer"
  PROVE  /\ k = Len(et) + Len(dt) + 1
         /\ TableCells(et, dt, n)[k]
                = TrailerCell(SyncedTrailer(et, dt), et, DirRowsOf(dt))
<1> DEFINE cell == TableCells(et, dt, n)[k]
<1>1. Len(et) \in Nat /\ Len(dt) \in Nat
  BY EntryTableType, DirTableType
<1>2. cell = IF k <= Len(et) THEN EntryCell(et[k])
             ELSE IF k <= Len(et) + Len(dt) THEN DirCell(DirRowsOf(dt)[k - Len(et)])
             ELSE TrailerCell(SyncedTrailer(et, dt), et, DirRowsOf(dt))
  BY DEF TableCells
<1>3. cell.t = "trailer"
  OBVIOUS
<1> HIDE DEF cell
<1>4. ~(k <= Len(et))
  <2> SUFFICES ASSUME k <= Len(et) PROVE FALSE
    OBVIOUS
  <2>1. cell.t = "entry"
    BY <1>2 DEF EntryCell
  <2> QED BY <1>3, <2>1
<1>5. ~(k <= Len(et) + Len(dt))
  <2> SUFFICES ASSUME k <= Len(et) + Len(dt) PROVE FALSE
    OBVIOUS
  <2>1. cell = DirCell(DirRowsOf(dt)[k - Len(et)])
    BY <1>2, <1>4
  <2>2. cell.t = "dir"
    BY <2>1 DEF DirCell
  <2> QED BY <1>3, <2>2
<1>6. k = Len(et) + Len(dt) + 1
  BY <1>1, <1>5
<1> QED BY <1>2, <1>4, <1>5, <1>6 DEF cell

\* However far sync gets, every trailer in the file is sound: those from before
\* and, when the last cell is written, the new one.
LEMMA SyncedFile ==
  ASSUME IInv, session = "open", NEW et \in EntryTables, NEW dt \in DirTables,
         NEW n \in 0..(Len(et) + Len(dt) + 1), writeOffset + n <= DiskSize,
         NEW cap \in 0..DiskSize, SyncBase.cap <= cap, writeOffset + n <= cap
  PROVE  LET cells == Extend(SyncBase, TableCells(et, dt, n)).cells
         IN  /\ cells \in [Index -> Cell]
             /\ Agree(mmap.cells, cells, writeOffset)
             /\ ZeroBeyond(cells, cap)
             /\ \A p \in Index : TrailerSound(cells, p)
             /\ TrailersBelow(cells, writeOffset)
<1> DEFINE T == TableCells(et, dt, n)
           cells == Extend(SyncBase, T).cells
<1>1. /\ TypeOK /\ mmap \in Mapped /\ writeOffset \in 0..DiskSize /\ writeOffset \in Nat
      /\ writeOffset <= writeOffset /\ writeOffset <= mmap.len /\ 1 <= writeOffset
      /\ ZeroBeyond(mmap.cells, mmap.cap) /\ cap \in Nat /\ n \in Nat
      /\ mmap.cells \in [Index -> Cell]
  <2>1. Len(et) \in Nat /\ Len(dt) \in Nat
    BY EntryTableType, DirTableType DEF IInv
  <2>2. TypeOK /\ mmap \in Mapped /\ writeOffset \in 0..DiskSize /\ writeOffset \in Nat
        /\ mmap.cells \in [Index -> Cell] /\ cap \in Nat
    BY FormatAssumption DEF IInv, TypeOK, Mapped
  <2> QED BY <2>1, <2>2, OpenFacts
<1>2. /\ SyncBase \in Mapped
      /\ WithCap(Extend(SyncBase, T), cap) \in Mapped
  BY <1>1, SyncWrites
<1>3. /\ Agree(mmap.cells, SyncBase.cells, writeOffset)
      /\ NoNewTrailer(mmap.cells, SyncBase.cells)
      /\ ZeroBeyond(SyncBase.cells, SyncBase.cap)
      /\ SyncBase.len = writeOffset
  BY <1>1, SetLenWrites, SetLenEffect DEF SyncBase
<1>4. T \in Seq(Cell) /\ Len(T) = n
  BY <1>1, TableCellsType
<1> HIDE DEF T
<1>5. cells \in [Index -> Cell]
  BY <1>1, <1>2, <1>3, <1>4, ExtendEffect
<1>6. /\ Agree(SyncBase.cells, cells, writeOffset)
      /\ ZeroBeyond(cells, cap)
      /\ \A i \in Index : \/ cells[i] = SyncBase.cells[i]
                          \/ \E k \in 1..n : i = writeOffset + k - 1 /\ cells[i] = T[k]
  BY <1>1, <1>2, <1>3, <1>4, ExtendWrites
<1> HIDE DEF cells
<1>7. Agree(mmap.cells, cells, writeOffset)
  BY <1>1, <1>3, <1>6, AgreeTransitive
<1>8. RowsSound(cells, entryRows, Elements(DirRowsOf(dt)), trailer.nextId, writeOffset)
  <2> DEFINE others == Elements(DirRowsOf(dt))
  <2>1. /\ \A d \in others : \E e \in dirEntries : e.id = d.id
        /\ \A e \in dirEntries : \E d \in others : e.id = d.id
    BY <1>1, SyncedIds
  <2>2. /\ entryRows \in SUBSET EntryRow
        /\ RowsSound(mmap.cells, entryRows, dirEntries, trailer.nextId, writeOffset)
    BY OpenFacts
  <2> HIDE DEF others
  <2>3. RowsSound(cells, entryRows, others, trailer.nextId, writeOffset)
    BY <1>1, <1>7, <2>1, <2>2, RowsSoundBelow
  <2> QED BY <2>3 DEF others
<1>9. ASSUME NEW p \in Index, cells[p].t = "trailer"
      PROVE  TrailerSound(cells, p) /\ cells[p].trailer.entryOff <= writeOffset
  <2>1. CASE cells[p] = SyncBase.cells[p]
    <3>1. cells[p] = mmap.cells[p]
      BY <1>3, <1>9, <2>1 DEF NoNewTrailer
    <3>2. TrailerSound(mmap.cells, p)
      BY DEF IInv, FileSound
    <3>3. mmap.cells[p].trailer.entryOff <= writeOffset
      BY <1>9, <3>1 DEF IInv, SessionSound, TrailersBelow
    <3> QED BY <1>1, <1>5, <1>7, <1>9, <3>1, <3>2, <3>3, TrailerStaysSound
  <2>2. CASE cells[p] # SyncBase.cells[p]
    <3>1. PICK k \in 1..n : p = writeOffset + k - 1 /\ cells[p] = T[k]
      BY <1>6, <2>2
    <3>2. /\ k = Len(et) + Len(dt) + 1
          /\ cells[p] = TrailerCell(SyncedTrailer(et, dt), et, DirRowsOf(dt))
      BY <1>1, <1>9, <3>1, TableTrailer DEF T
    <3>3. /\ cells[p].trailer = SyncedTrailer(et, dt)
          /\ cells[p].entries = et /\ cells[p].dirs = DirRowsOf(dt)
      BY <3>2 DEF TrailerCell
    <3>4. /\ SyncedTrailer(et, dt).entryOff = writeOffset
          /\ SyncedTrailer(et, dt).dirOff = writeOffset + Len(et)
          /\ SyncedTrailer(et, dt).nextId = trailer.nextId
      BY DEF SyncedTrailer
    <3>5. /\ Elements(et) = entryRows /\ Len(DirRowsOf(dt)) = Len(dt)
          /\ Len(et) \in Nat /\ Len(dt) \in Nat
      BY <1>1, EntryTableType, DirTableType
    <3>6. p = writeOffset + Len(et) + Len(dt)
      BY <1>1, <3>1, <3>2, <3>5
    <3> QED BY <1>1, <1>8, <3>3, <3>4, <3>5, <3>6 DEF TrailerSound
  <2> QED BY <2>1, <2>2
<1>10. \A p \in Index : TrailerSound(cells, p)
  <2>1. \A p \in Index : cells[p].t # "trailer" => TrailerSound(cells, p)
    BY DEF TrailerSound
  <2> QED BY <1>9, <2>1
<1>11. TrailersBelow(cells, writeOffset)
  BY <1>9 DEF TrailersBelow
<1> QED BY <1>5, <1>6, <1>7, <1>10, <1>11 DEF cells, T

\* The session after a sync, or after a part of one.
LEMMA SyncedSession ==
  ASSUME IInv, session = "open", NEW dt \in DirTables, NEW cells \in [Index -> Cell],
         Agree(mmap.cells, cells, writeOffset)
  PROVE  RowsSound(cells, entryRows, Sorted(dt), trailer.nextId, writeOffset)
<1> DEFINE others == Sorted(dt)
<1>1. /\ \A d \in others : \E e \in dirEntries : e.id = d.id
      /\ \A e \in dirEntries : \E d \in others : e.id = d.id
  BY SyncedIds DEF IInv
<1>2. /\ entryRows \in SUBSET EntryRow /\ writeOffset \in 0..DiskSize
      /\ writeOffset \in Nat /\ writeOffset <= writeOffset
      /\ RowsSound(mmap.cells, entryRows, dirEntries, trailer.nextId, writeOffset)
  BY OpenFacts, FormatAssumption DEF TypeOK
<1> HIDE DEF others
<1>3. RowsSound(cells, entryRows, others, trailer.nextId, writeOffset)
  BY <1>1, <1>2, RowsSoundBelow
<1> QED BY <1>3 DEF others

LEMMA SyncSafe == IInv /\ Sync /\ TypeOK' => IInv'
<1> SUFFICES ASSUME IInv, Sync, TypeOK' PROVE IInv'
  OBVIOUS
<1> DEFINE N(et, dt) == Len(et) + Len(dt) + 1
<1>1. /\ session = "open" /\ session' = "open"
      /\ writeOffset' = writeOffset /\ entryRows' = entryRows
  BY DEF Sync
<1>2. PICK et \in EntryTables, dt \in DirTables :
          /\ writeOffset + Len(TableCells(et, dt, N(et, dt))) <= DiskSize
          /\ ExtendEach(SyncBase, TableCells(et, dt, N(et, dt))).cap <= DiskSize
          /\ mmap' = Commit(ExtendEach(SyncBase, TableCells(et, dt, N(et, dt))))
          /\ trailer' = SyncedTrailer(et, dt)
          /\ dirEntries' = Sorted(dt)
  BY DEF Sync
<1> DEFINE n == N(et, dt)
           T == TableCells(et, dt, n)
           cap == ReservedEach(SyncBase, writeOffset + n)
           cells == Extend(SyncBase, T).cells
           end == writeOffset + n
<1>3. TypeOK /\ writeOffset \in Nat /\ writeOffset <= mmap.len /\ 1 <= writeOffset
  BY <1>1, OpenFacts
<1>4. Len(et) \in Nat /\ Len(dt) \in Nat /\ n \in 0..n /\ n \in Nat /\ end \in Nat
      /\ writeOffset <= end
  BY <1>3, EntryTableType, DirTableType
<1>5. Len(T) = n
  BY <1>4 DEF TableCells
<1>6. SyncBase.len = writeOffset
  BY <1>3, SetLenEffect DEF SyncBase, TypeOK
<1>7. /\ ExtendEach(SyncBase, T).cap = cap
      /\ ExtendEach(SyncBase, T).cells = cells
      /\ ExtendEach(SyncBase, T).len = end
  BY <1>5, <1>6 DEF ExtendEach, WithCap, Extend
<1>8. cap \in 0..DiskSize /\ SyncBase.cap <= cap /\ end <= cap
  <2>1. cap <= DiskSize
    BY <1>2, <1>7
  <2>2. cap \in 0..DiskSize /\ SyncBase.cap <= cap
    BY <1>3, <1>4, <2>1, SyncCapacity
  <2>3. mmap.cap \in Nat /\ writeOffset \in 0..DiskSize /\ mmap \in Mapped
    BY <1>3, FormatAssumption DEF TypeOK, Mapped
  <2>4. SyncBase.cap \in Nat
    <3>1. SyncBase.cap = Reserved(mmap, writeOffset)
      BY <2>3, SetLenEffect DEF SyncBase
    <3> QED BY <1>3, <2>3, <3>1, ReservedBound
  <2> QED BY <1>4, <2>2, <2>4, ReservedEachBound
<1>9. /\ cells \in [Index -> Cell]
      /\ Agree(mmap.cells, cells, writeOffset)
      /\ \A p \in Index : TrailerSound(cells, p)
      /\ TrailersBelow(cells, writeOffset)
  <2>1. n \in 0..(Len(et) + Len(dt) + 1) /\ writeOffset + n <= DiskSize
    BY <1>2, <1>4, <1>5
  <2> HIDE DEF n, cap
  <2>2. writeOffset + n <= cap /\ cap \in 0..DiskSize /\ SyncBase.cap <= cap
    BY <1>8 DEF end
  <2> QED BY <1>1, <2>1, <2>2, SyncedFile
<1>10. /\ mmap'.cells = CutAt(cells, end) /\ mmap'.cap = end /\ mmap'.len = end
  BY <1>2, <1>7 DEF Commit
<1> HIDE DEF cells, end, cap, T, n, N
<1>11. TrailersBelow(cells, end)
  BY <1>3, <1>4, <1>9, TrailersBelowHigher
<1>12. /\ \A p \in Index : TrailerSound(mmap'.cells, p)
       /\ ZeroBeyond(mmap'.cells, mmap'.cap)
       /\ Agree(cells, mmap'.cells, end)
  BY <1>4, <1>9, <1>10, <1>11, CutStaysSound
<1>13. FileSound'
  BY <1>12 DEF FileSound, ZeroBeyond
<1>14. mmap'.cells \in [Index -> Cell]
  BY DEF TypeOK, Mapped
<1>15. Agree(mmap.cells, mmap'.cells, writeOffset)
  BY <1>3, <1>4, <1>9, <1>12, AgreeTransitive
<1>16. RowsSound(mmap'.cells, entryRows, Sorted(dt), trailer.nextId, writeOffset)
  BY <1>1, <1>14, <1>15, SyncedSession
<1>17. trailer'.nextId = trailer.nextId
  BY <1>2 DEF SyncedTrailer
<1>18. TrailersBelow(mmap'.cells, writeOffset)
  <2>1. NoNewTrailer(cells, mmap'.cells)
    BY <1>4, <1>9, <1>10, CutAtEffect DEF NoNewTrailer, Zero
  <2> QED BY <1>9, <2>1 DEF TrailersBelow, NoNewTrailer
<1>19. SessionSound'
  BY <1>1, <1>2, <1>3, <1>4, <1>10, <1>16, <1>17, <1>18 DEF SessionSound
<1> QED BY <1>13, <1>19 DEF IInv

LEMMA SyncFailsSafe == IInv /\ SyncFails /\ TypeOK' => IInv'
<1> SUFFICES ASSUME IInv, SyncFails, TypeOK' PROVE IInv'
  OBVIOUS
<1>1. /\ session = "open" /\ session' = "open"
      /\ writeOffset' = writeOffset /\ entryRows' = entryRows
  BY DEF SyncFails
<1>2. PICK et \in EntryTables, dt \in DirTables : \E n \in 0..(Len(et) + Len(dt)) :
          /\ writeOffset + n <= DiskSize
          /\ FullAt(SyncBase, writeOffset + n)
          /\ mmap' = WithCap(Extend(SyncBase, TableCells(et, dt, n)), writeOffset + n)
          /\ trailer' = IF n = Len(et) + Len(dt) THEN SyncedTrailer(et, dt)
                        ELSE trailer
          /\ dirEntries' = Sorted(dt)
  BY DEF SyncFails
<1>3. PICK n \in 0..(Len(et) + Len(dt)) :
          /\ writeOffset + n <= DiskSize
          /\ FullAt(SyncBase, writeOffset + n)
          /\ mmap' = WithCap(Extend(SyncBase, TableCells(et, dt, n)), writeOffset + n)
          /\ trailer' = IF n = Len(et) + Len(dt) THEN SyncedTrailer(et, dt)
                        ELSE trailer
          /\ dirEntries' = Sorted(dt)
  BY <1>2
<1> DEFINE T == TableCells(et, dt, n)
           cells == Extend(SyncBase, T).cells
           end == writeOffset + n
<1>4. TypeOK /\ writeOffset \in Nat /\ 1 <= writeOffset
  BY <1>1, OpenFacts
<1>5. /\ n \in 0..(Len(et) + Len(dt) + 1) /\ n \in Nat /\ end \in 0..DiskSize
      /\ writeOffset <= end /\ end <= end
  <2>1. Len(et) \in Nat /\ Len(dt) \in Nat
    BY <1>4, EntryTableType, DirTableType
  <2> QED BY <1>3, <1>4, <2>1, FormatAssumption
<1>6. SyncBase.cap <= end
  BY <1>3 DEF FullAt
<1>7. /\ cells \in [Index -> Cell]
      /\ Agree(mmap.cells, cells, writeOffset)
      /\ ZeroBeyond(cells, end)
      /\ \A p \in Index : TrailerSound(cells, p)
      /\ TrailersBelow(cells, writeOffset)
  BY <1>1, <1>3, <1>5, <1>6, SyncedFile
<1>8. mmap'.cells = cells /\ mmap'.cap = end
  BY <1>3 DEF WithCap
<1>9. mmap'.len = end
  <2>1. SyncBase.len = writeOffset
    BY <1>4, SetLenEffect DEF SyncBase, TypeOK
  <2>2. Len(T) = n
    BY <1>5 DEF TableCells
  <2> QED BY <1>3, <2>1, <2>2 DEF WithCap, Extend
<1> HIDE DEF cells, T, end
<1>10. FileSound'
  BY <1>7, <1>8 DEF FileSound, ZeroBeyond
<1>11. RowsSound(cells, entryRows, Sorted(dt), trailer.nextId, writeOffset)
  BY <1>1, <1>7, SyncedSession
<1>12. trailer'.nextId = trailer.nextId
  BY <1>3 DEF SyncedTrailer
<1>13. SessionSound'
  BY <1>1, <1>3, <1>4, <1>5, <1>7, <1>8, <1>9, <1>11, <1>12 DEF SessionSound
<1> QED BY <1>10, <1>13 DEF IInv

LEMMA SyncCrashSafe == IInv /\ SyncCrash /\ TypeOK' => IInv'
<1> SUFFICES ASSUME IInv, SyncCrash, TypeOK' PROVE IInv'
  OBVIOUS
<1>1. session = "open"
  BY DEF SyncCrash
<1>2. PICK et \in EntryTables, dt \in DirTables :
      \E n \in 1..(Len(et) + Len(dt) + 1) :
          /\ writeOffset + n <= DiskSize
          /\ ExtendEach(SyncBase, TableCells(et, dt, n)).cap <= DiskSize
          /\ mmap' = Abandon(ExtendEach(SyncBase, TableCells(et, dt, n)))
  BY DEF SyncCrash
<1>3. PICK n \in 1..(Len(et) + Len(dt) + 1) :
          /\ writeOffset + n <= DiskSize
          /\ ExtendEach(SyncBase, TableCells(et, dt, n)).cap <= DiskSize
          /\ mmap' = Abandon(ExtendEach(SyncBase, TableCells(et, dt, n)))
  BY <1>2
<1> DEFINE T == TableCells(et, dt, n)
           cap == ReservedEach(SyncBase, writeOffset + n)
           cells == Extend(SyncBase, T).cells
<1>4. TypeOK /\ writeOffset \in Nat
  BY <1>1, OpenFacts
<1>5. n \in 0..(Len(et) + Len(dt) + 1) /\ n \in Nat /\ writeOffset + n \in Nat
  BY <1>4, EntryTableType, DirTableType
<1>6. Len(T) = n
  BY <1>5 DEF TableCells
<1>7. SyncBase.len = writeOffset
  BY <1>4, SetLenEffect DEF SyncBase, TypeOK
<1>8. /\ ExtendEach(SyncBase, T).cap = cap
      /\ ExtendEach(SyncBase, T).cells = cells
  BY <1>6, <1>7 DEF ExtendEach, WithCap
<1>9. cap \in 0..DiskSize /\ SyncBase.cap <= cap /\ writeOffset + n <= cap
  <2>1. cap <= DiskSize
    BY <1>3, <1>8
  <2>2. cap \in 0..DiskSize /\ SyncBase.cap <= cap
    <3>1. ReservedEach(SyncBase, writeOffset + n) <= DiskSize
      BY <2>1
    <3> HIDE DEF cap, cells, T
    <3>2. /\ ReservedEach(SyncBase, writeOffset + n) \in 0..DiskSize
          /\ SyncBase.cap <= ReservedEach(SyncBase, writeOffset + n)
      BY <1>4, <1>5, <3>1, SyncCapacity
    <3> QED BY <3>2 DEF cap
  <2>3. mmap.cap \in Nat /\ writeOffset \in 0..DiskSize /\ mmap \in Mapped
    BY <1>4, FormatAssumption DEF TypeOK, Mapped
  <2>4. SyncBase.cap \in Nat
    <3>1. SyncBase.cap = Reserved(mmap, writeOffset)
      BY <2>3, SetLenEffect DEF SyncBase
    <3> QED BY <1>4, <2>3, <3>1, ReservedBound
  <2> QED BY <1>5, <2>2, <2>4, ReservedEachBound
<1> HIDE DEF cap
<1>10. ZeroBeyond(cells, cap) /\ \A p \in Index : TrailerSound(cells, p)
  BY <1>1, <1>3, <1>5, <1>9, SyncedFile
<1>11. mmap'.cells = cells /\ mmap'.cap = cap
  BY <1>3, <1>8 DEF Abandon
<1> HIDE DEF cells
<1>12. FileSound'
  BY <1>10, <1>11 DEF FileSound, ZeroBeyond
<1> QED BY <1>12, EndedSafe DEF SyncCrash

-----------------------------------------------------------------------------
(* The invariant and what follows from it *)

LEMMA InitSafe == Init => IInv
<1> SUFFICES ASSUME Init PROVE IInv
  OBVIOUS
<1>1. \A i \in Index : mmap.cells[i] = Zero
  BY DEF Init, NoFile
<1>2. \A i \in Index : mmap.cells[i].t # "trailer"
  BY <1>1 DEF Zero
<1>3. FileSound
  BY <1>1, <1>2 DEF FileSound, TrailerSound
<1>4. SessionSound
  BY DEF Init, SessionSound
<1> QED BY <1>3, <1>4, InitType DEF IInv

LEMMA StepSafe ==
  ASSUME IInv, [Next]_vars
  PROVE  IInv'
<1>1. TypeOK'
  BY TypeStep DEF IInv
<1>2. CASE UNCHANGED vars
  BY <1>2 DEF vars, IInv, TypeOK, FileSound, SessionSound
<1>3. CASE OpenRejected
  BY <1>3 DEF OpenRejected, vars, IInv, TypeOK, FileSound, SessionSound
<1> QED BY <1>1, <1>2, <1>3, OperationSafe, CreateSafe, OpenIntactSafe, OpenDamagedSafe,
           SyncSafe, SyncFailsSafe, SyncCrashSafe, DropSafe, CrashSafe DEF Next

(***************************************************************************)
(* IInv is an invariant of the writer: what was written below a trailer's   *)
(* tables, or below the write offset, stays as it was written.              *)
(***************************************************************************)
THEOREM Invariance == Spec => []IInv
BY InitSafe, StepSafe, PTL DEF Spec

(***************************************************************************)
(* An ID names at most one entry row, and no ID in use, in an entry row or  *)
(* in a directory row, is still to be given out by set_next_id.             *)
(***************************************************************************)
THEOREM IdsAreUnique == Spec => []IdsUnique
<1>1. IInv => IdsUnique
  BY DEF IInv, SessionSound, RowsSound, IdsUnique
<1> QED BY <1>1, Invariance, PTL

(***************************************************************************)
(* No two live entries share a cell, and every block is aligned and lies    *)
(* between the header and the write offset of write_data_block.             *)
(***************************************************************************)
THEOREM BlocksAreSeparate == Spec => []BlocksSeparate
<1>1. IInv => BlocksSeparate
  BY DEF IInv, SessionSound, RowsSound, BlocksSeparate
<1> QED BY <1>1, Invariance, PTL

(***************************************************************************)
(* The data of every live entry is the data it was given: verify_crc holds  *)
(* after any sequence of operations, failures, kills and reopenings.        *)
(***************************************************************************)
THEOREM ContentStaysIntact == Spec => []ContentIntact
<1>1. IInv => ContentIntact
  BY DEF IInv, SessionSound, RowsSound, ContentIntact
<1> QED BY <1>1, Invariance, PTL

(***************************************************************************)
(* unlink, delete and rename leave no entry row without a directory row.    *)
(***************************************************************************)
THEOREM RowsAreReferenced == Spec => []RowsReferenced
<1>1. IInv => RowsReferenced
  BY DEF IInv, SessionSound, RowsSound, RowsReferenced
<1> QED BY <1>1, Invariance, PTL

-----------------------------------------------------------------------------
(* IDs are not reused within a session *)

\* No ID is taken back, and the rows that come have IDs not given out before.
NoReuse ==
    /\ trailer'.nextId >= trailer.nextId
    /\ \A r \in entryRows' :
            (\A s \in entryRows : s.id # r.id) => r.id >= trailer.nextId

\* A step after which the session has the entry rows it had, or fewer.
LEMMA FewerNoReuse ==
  ASSUME TypeOK, entryRows' \subseteq entryRows, trailer'.nextId = trailer.nextId
  PROVE  NoReuse
<1>1. trailer.nextId \in Nat
  BY FormatAssumption DEF TypeOK, Trailer
<1> QED BY <1>1 DEF NoReuse

LEMMA OperationNoReuse ==
  ASSUME TypeOK, Operation
  PROVE  NoReuse
<1>1. trailer.nextId \in Nat
  BY FormatAssumption DEF TypeOK, Trailer
<1>2. Spent.nextId = trailer.nextId + 1
  BY DEF Spent, TypeOK, Trailer
<1>3. ASSUME NEW raw \in RawPaths, NEW kind \in Kind, NEW data \in Data,
             AddEntry(raw, kind, data)
      PROVE  NoReuse
  <2>1. PICK off \in BlockOffsets :
            entryRows' = entryRows \cup {NewRow(trailer.nextId, kind, off, data)}
    BY <1>3 DEF AddEntry
  <2>2. NewRow(trailer.nextId, kind, off, data).id = trailer.nextId
    BY DEF NewRow
  <2>3. trailer' = Spent
    BY <1>3 DEF AddEntry
  <2> QED BY <1>1, <1>2, <2>1, <2>2, <2>3 DEF NoReuse
<1>4. ASSUME NEW raw \in RawPaths, NEW data \in Data, AddEntryFails(raw, data)
      PROVE  NoReuse
  BY <1>1, <1>2, <1>4 DEF AddEntryFails, NoReuse
<1>5. ASSUME NEW raw \in RawPaths, NEW data \in Data, ReplaceContent(raw, data)
      PROVE  NoReuse
  <2>1. PICK r \in entryRows, off \in BlockOffsets :
            entryRows' = (entryRows \ {r}) \cup {NewRow(r.id, "file", off, data)}
    BY <1>5 DEF ReplaceContent
  <2>2. NewRow(r.id, "file", off, data).id = r.id
    BY DEF NewRow
  <2>3. trailer' = trailer
    BY <1>5 DEF ReplaceContent
  <2> QED BY <1>1, <2>1, <2>2, <2>3 DEF NoReuse
<1>6. ASSUME NEW raw \in RawPaths, NEW data \in Data, ReplaceContentFails(raw, data)
      PROVE  NoReuse
  BY <1>6, FewerNoReuse DEF ReplaceContentFails
<1>7. ASSUME NEW raw \in RawPaths, Delete(raw) PROVE NoReuse
  BY <1>7, FewerNoReuse DEF Delete
<1>8. ASSUME NEW raw \in RawPaths, Unlink(raw) PROVE NoReuse
  BY <1>8, FewerNoReuse DEF Unlink, EntriesLeft
<1>9. ASSUME NEW raw \in RawPaths, NEW to \in RawPaths, HardLink(raw, to)
      PROVE  NoReuse
  BY <1>9, FewerNoReuse DEF HardLink
<1>10. ASSUME NEW raw \in RawPaths, NEW to \in RawPaths, Rename(raw, to)
       PROVE  NoReuse
  BY <1>10, FewerNoReuse DEF Rename
<1> QED BY <1>3, <1>4, <1>5, <1>6, <1>7, <1>8, <1>9, <1>10 DEF Operation

LEMMA StepNoReuse ==
  ASSUME TypeOK, Next, session = "open", session' = "open"
  PROVE  NoReuse
<1>1. CASE Operation
  BY <1>1, OperationNoReuse
<1>2. CASE Sync
  <2>1. PICK et \in EntryTables, dt \in DirTables : trailer' = SyncedTrailer(et, dt)
    BY <1>2 DEF Sync
  <2>2. trailer'.nextId = trailer.nextId
    BY <2>1 DEF SyncedTrailer
  <2> QED BY <1>2, <2>2, FewerNoReuse DEF Sync
<1>3. CASE SyncFails
  <2>1. PICK et \in EntryTables, dt \in DirTables :
            trailer' = SyncedTrailer(et, dt) \/ trailer' = trailer
    BY <1>3 DEF SyncFails
  <2>2. trailer'.nextId = trailer.nextId
    BY <2>1 DEF SyncedTrailer
  <2> QED BY <1>3, <2>2, FewerNoReuse DEF SyncFails
<1>4. CASE Create \/ OpenIntact \/ OpenDamaged \/ OpenRejected
  BY <1>4 DEF Create, OpenIntact, OpenDamaged, OpenRejected
<1>5. CASE SyncCrash \/ Drop \/ Crash
  <2>1. session' = "none"
    BY <1>5 DEF SyncCrash, Drop, Crash, NoSession
  <2> QED BY <2>1
<1> QED BY <1>1, <1>2, <1>3, <1>4, <1>5 DEF Next

(***************************************************************************)
(* Within a session set_next_id never goes back, and an entry row that a    *)
(* step brings has an ID that was not given out before, whatever was        *)
(* deleted, failed or synced in between.                                    *)
(***************************************************************************)
THEOREM IdsAreNeverReused == Spec => IdsNeverReused
<1>1. ASSUME TypeOK, [Next]_vars
      PROVE  [(session = "open" /\ session' = "open") =>
                /\ trailer'.nextId >= trailer.nextId
                /\ \A r \in entryRows' :
                      (\A s \in entryRows : s.id # r.id) => r.id >= trailer.nextId]_vars
  BY <1>1, StepNoReuse DEF NoReuse
<1> QED BY <1>1, TypeCorrect, PTL DEF Spec, IdsNeverReused

=============================================================================
