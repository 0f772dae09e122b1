---------------------------- MODULE MCCompaction ----------------------------
(***************************************************************************)
(* Small instances of Compaction.  There are inodes enough for every name   *)
(* and for two files that each process has open.                            *)
(***************************************************************************)
EXTENDS Compaction, Naturals

CONSTANTS a, b

TwoProcs == {a, b}
OnlyA == {a}
OnlyB == {b}
Inodes == 1..7

=============================================================================
