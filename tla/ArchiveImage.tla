---------------------------- MODULE ArchiveImage ----------------------------
(***************************************************************************)
(* What is read back from the cells of an archive file: the validation an   *)
(* open performs and the tables and data it then sees.                      *)
(***************************************************************************)
EXTENDS MappedFile

\* Trailer::MIN_ARCHIVE_SIZE: the header and the trailer.
MinArchiveSize == 2

\* The last cell of a file that ends at cell e - 1 is a valid trailer.
HasTrailer(cells, e) ==
    /\ e >= MinArchiveSize
    /\ cells[e - 1].t = "trailer"

\* The tables that a trailer cell locates are the ones its CRC was computed from.
TablesMatch(cells, c) ==
    /\ \A i \in 1..Len(c.entries) :
            cells[c.trailer.entryOff + i - 1] = EntryCell(c.entries[i])
    /\ \A i \in 1..Len(c.dirs) :
            cells[c.trailer.dirOff + i - 1] = DirCell(c.dirs[i])

(***************************************************************************)
(* ArchiveReader::open accepts a file of e cells: a valid trailer and a     *)
(* metadata CRC that matches.  A writer's open requires the trailer only.   *)
(***************************************************************************)
ReaderAccepts(cells, e) ==
    /\ HasTrailer(cells, e)
    /\ cells[0] = Header
    /\ TablesMatch(cells, cells[e - 1])

\* read_data: the stored bytes of a row's block.
ReadData(cells, r) ==
    IF r.off = 0 THEN <<>> ELSE [k \in 1..r.size |-> cells[r.off + k - 1]]

\* verify_crc: the block still holds the data the row's CRC was computed from.
VerifyCrc(cells, r) ==
    \A k \in 1..r.size :
        r.off # 0 => cells[r.off + k - 1] = DataCell(r.crc[k])

(***************************************************************************)
(* What an archive means to those who read it: the paths with the entries   *)
(* they name, and for each entry its kind and its data.                     *)
(***************************************************************************)
View(cells, entries, dirs) ==
    [nodes |-> { [id |-> r.id, kind |-> r.kind, data |-> ReadData(cells, r)] :
                    r \in entries },
     names |-> { [path |-> d.path, id |-> d.id] : d \in dirs }]

Elements(s) == { s[i] : i \in DOMAIN s }

=============================================================================
