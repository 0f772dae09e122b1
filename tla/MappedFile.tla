----------------------------- MODULE MappedFile -----------------------------
(***************************************************************************)
(* MappedArchiveMut: a file that is mapped for writing and grows by chunks. *)
(*                                                                          *)
(* A mapped file is a record: cells is the file's content, zero beyond its  *)
(* end; cap is the size of the file and of the mapping; len is the logical  *)
(* length, below which the content counts; committed is the length the last *)
(* sync (or open) left on disk.  The file is mapped shared, so a store into *)
(* the mapping is a store into the file.                                    *)
(*                                                                          *)
(* The operators are the methods.  A method that may have to resize the     *)
(* file can fail there: ResizeNeeded says when, and the caller chooses.     *)
(***************************************************************************)
EXTENDS BaleFormat

CONSTANT Chunk  \* DEFAULT_CHUNK_SIZE, by which the file grows

ASSUME ChunkAssumption == Chunk \in 1..DiskSize

Index == 0..(DiskSize - 1)

Mapped == [cells : [Index -> Cell], cap : 0..DiskSize, len : 0..DiskSize,
           committed : 0..DiskSize]

\* No file: what every session's file is before it is created.
NoFile == [cells |-> [i \in Index |-> Zero], cap |-> 0, len |-> 0, committed |-> 0]

-----------------------------------------------------------------------------

\* reserve's rounding: at least one cell more than what is required.
RoundUp(required) == ((required \div Chunk) + 1) * Chunk

\* The capacity once the logical length may reach the required one.
Reserved(m, required) == IF required <= m.cap THEN m.cap ELSE RoundUp(required)

ResizeNeeded(m, required) == required > m.cap
Fits(m, required) == Reserved(m, required) <= DiskSize

\* create_with_capacity followed by nothing: one chunk of zeros, length 0.
MapNew == [cells |-> NoFile.cells, cap |-> Chunk, len |-> 0, committed |-> 0]

\* open: the whole file is content.
MapOpen(m) == [cells |-> m.cells, cap |-> m.cap, len |-> m.cap, committed |-> m.cap]

\* extend: data (a sequence of cells) is stored at the end of the content.
Extend(m, data) ==
    [cells |-> [i \in Index |-> IF i \in m.len..(m.len + Len(data) - 1)
                                 THEN data[i - m.len + 1] ELSE m.cells[i]],
     cap |-> Reserved(m, m.len + Len(data)),
     len |-> m.len + Len(data),
     committed |-> m.committed]

\* set_len: growing fills the new content with zeros, shrinking keeps the cells.
SetLen(m, n) ==
    [cells |-> [i \in Index |-> IF i \in m.len..(n - 1) THEN Zero ELSE m.cells[i]],
     cap |-> Reserved(m, n),
     len |-> n,
     committed |-> m.committed]

\* File::set_len to a smaller size: what lies beyond it is gone.
CutAt(cells, n) == [i \in Index |-> IF i < n THEN cells[i] ELSE Zero]

\* Mutant: sync leaves the preallocated end of the file.
CommitUncut(m) ==
    [cells |-> m.cells, cap |-> m.cap, len |-> m.len, committed |-> m.len]

\* sync: the file ends with the content.
Commit(m) ==
    [cells |-> CutAt(m.cells, m.len), cap |-> m.len, len |-> m.len,
     committed |-> m.len]

\* Mutant: a drop cuts the file to the logical length.
DropLenLogical(m) == m.len

\* Drop: neither the content nor what was committed is cut off.
DropLen(m) == IF m.len >= m.committed THEN m.len ELSE m.committed
Unmap(m) ==
    [cells |-> CutAt(m.cells, DropLen(m)), cap |-> DropLen(m), len |-> 0,
     committed |-> 0]

\* The process dies: the file stays as it is, with its preallocated cells.
Abandon(m) == [cells |-> m.cells, cap |-> m.cap, len |-> 0, committed |-> 0]

-----------------------------------------------------------------------------
(***************************************************************************)
(* Several extends in a row, the cells of T one after the other.  The first *)
(* one that does not fit rounds up, and each later resize adds a chunk.     *)
(***************************************************************************)
ReservedEach(m, required) ==
    IF required <= m.cap THEN m.cap
    ELSE LET first == RoundUp(m.cap + 1)
         IN  IF required <= first THEN first
             ELSE ((required + Chunk - 1) \div Chunk) * Chunk

WithCap(m, cap) ==
    [cells |-> m.cells, cap |-> cap, len |-> m.len, committed |-> m.committed]

ExtendEach(m, T) == WithCap(Extend(m, T), ReservedEach(m, m.len + Len(T)))

\* The resize that a row of extends needs may be refused when the file is full.
FullAt(m, n) ==
    /\ n >= m.cap
    /\ n = m.cap \/ (n >= RoundUp(m.cap + 1) /\ n % Chunk = 0)

=============================================================================
