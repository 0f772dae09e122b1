----------------------------- MODULE BaleFormat -----------------------------
(***************************************************************************)
(* The on-disk format of a bale archive, version 1.0.0: a file header, data *)
(* blocks, an entry table, a directory table and a trailer, in that order.  *)
(*                                                                          *)
(* A file is a row of cells.  One cell stands for the file header, for one  *)
(* byte of a data block, for one row of a table or for the trailer; the     *)
(* widths of these in bytes are abstracted, their order and their count are *)
(* not.                                                                     *)
(***************************************************************************)
EXTENDS ArchivePath, FiniteSets

CONSTANTS
    Bytes,      \* the bytes data blocks are made of
    Alignment,  \* data blocks start at multiples of it
    MaxId,      \* u32::MAX, the largest value next_id can have
    DiskSize    \* the most cells the file can have: beyond it the disk is full

ASSUME FormatAssumption ==
    /\ Alignment \in Nat \ {0}
    /\ MaxId \in Nat \ {0}
    /\ DiskSize \in Nat \ {0, 1}

\* Trailer::MAX_ALIGNMENT_POWER
MaxAlignmentPower == 16

\* The alignments that a new archive may be given: powers of two.  No proof
\* needs more of the alignment than that it is positive.
ASSUME AlignmentAssumption ==
    \E power \in 0..MaxAlignmentPower : Alignment = 2^power

-----------------------------------------------------------------------------
(* Rows, trailer and cells *)

Kind == {"file", "dir", "link"}

(***************************************************************************)
(* crc determines the data it was computed from, as a CRC-32C does for the  *)
(* purposes of these properties; so it is that data.                        *)
(***************************************************************************)
EntryRow == [id : 1..MaxId, kind : Kind, off : 0..DiskSize, size : Nat,
             crc : Seq(Bytes)]
DirRow == [path : Path, id : 1..MaxId]
Trailer == [nextId : 1..MaxId, entryOff : 0..DiskSize, entryCount : Nat,
            dirOff : 0..DiskSize, dirCount : Nat, size : Nat]

\* Trailer::new_with_options: the trailer of an archive that was never written.
NewTrailer == [nextId |-> 1, entryOff |-> 0, entryCount |-> 0,
               dirOff |-> 0, dirCount |-> 0, size |-> 0]

Zero == [t |-> "zero"]
Header == [t |-> "header"]
DataCell(b) == [t |-> "data", byte |-> b]
EntryCell(r) == [t |-> "entry", row |-> r]
DirCell(d) == [t |-> "dir", row |-> d]

(***************************************************************************)
(* The trailer's metadata CRC covers the header, both tables and the        *)
(* trailer's own fields; the tables it was computed from stand for it.      *)
(***************************************************************************)
TrailerCell(tr, entries, dirs) ==
    [t |-> "trailer", trailer |-> tr, entries |-> entries, dirs |-> dirs]

Cell == [t : {"zero", "header"}]
        \cup [t : {"data"}, byte : Bytes]
        \cup [t : {"entry"}, row : EntryRow]
        \cup [t : {"dir"}, row : DirRow]
        \cup [t : {"trailer"}, trailer : Trailer,
              entries : Seq(EntryRow), dirs : Seq(DirRow)]

\* Mutant: no padding before a block.
AlignedNever(n) == n

\* The next multiple of the alignment.
Aligned(n) == ((n + Alignment - 1) \div Alignment) * Alignment

=============================================================================
