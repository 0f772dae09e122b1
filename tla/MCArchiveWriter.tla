--------------------------- MODULE MCArchiveWriter ---------------------------
(***************************************************************************)
(* Two small instances of the writer.                                       *)
(*                                                                          *)
(* WriterDisk has two names, contents shorter and longer than the alignment *)
(* and a disk of nine cells: padding, blocks and tables compete for it, and *)
(* every write can find it full.  WriterNames has no contents and more      *)
(* paths: a directory, its child, the forms of a path that normalisation    *)
(* makes equal, and paths that climb above the root, hold a name that is    *)
(* refused or are too long to store.                                        *)
(***************************************************************************)
EXTENDS ArchiveReading

CONSTANT x  \* the only byte

DiskPaths == { <<1>>, <<2>>, <<1, 2, 2>> }
NamePaths == { <<1>>, <<1, 2>>, <<2>>, <<2, Up, Skip, 1>>, <<1, Up, Up>>, <<1, Unsafe>>, <<1, 2, 2>> }

OneByte == {x}
SmallData == { <<x>>, <<x, x, x>> }
NoData == { <<>> }

=============================================================================
