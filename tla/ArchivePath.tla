---------------------------- MODULE ArchivePath ----------------------------
(***************************************************************************)
(* Paths within an archive.  A path is a sequence of components, and        *)
(* path_size, the width of a path in a directory row, is counted in them:   *)
(* a path longer than PathSize cannot be stored.                            *)
(***************************************************************************)
EXTENDS Integers, Sequences

CONSTANTS
    Names,     \* path components
    PathSize   \* path_size: the longest path a directory row holds

(***************************************************************************)
(* Names are numbers so that paths have the order of their bytes.           *)
(***************************************************************************)
ASSUME PathAssumption ==
    /\ Names \subseteq Nat \ {0}
    /\ PathSize \in Nat \ {0}

Path == { p \in Seq(Names) : Len(p) \in 1..PathSize }

(***************************************************************************)
(* What a caller may pass as a path: Skip is a component that normalisation *)
(* drops ("." or the empty one of "//" or of a trailing "/"), Up is "..",   *)
(* and Unsafe is a name that no archive takes: a reserved one (".bale..."), *)
(* or one that the safename rules refuse.                                   *)
(***************************************************************************)
Skip == 0
Up == -1
Unsafe == -2
RawPath == Seq(Names \cup {Skip, Up, Unsafe})

\* InvalidPath: what climbs above the root is no path.
Refused == <<Up>>

\* is_normalized: nothing to drop, nothing to resolve.
IsNormalized(raw) == raw # <<>> /\ \A i \in DOMAIN raw : raw[i] \notin {Skip, Up}

\* Every component is validated, on the fast path and on the slow one.
Validated(p) == IF \E i \in DOMAIN p : p[i] = Unsafe THEN Refused ELSE p

\* The components that the slow path keeps.
Resolved(raw) ==
    LET norm[i \in 0..Len(raw)] ==
            IF i = 0 THEN <<>>
            ELSE IF norm[i - 1] = Refused \/ raw[i] = Skip THEN norm[i - 1]
            ELSE IF raw[i] # Up THEN Append(norm[i - 1], raw[i])
            ELSE IF norm[i - 1] = <<>> THEN Refused
            ELSE SubSeq(norm[i - 1], 1, Len(norm[i - 1]) - 1)
    IN  norm[Len(raw)]

\* ArchivePath::normalize: every form of a path becomes its canonical form.
\* A path of which nothing is left is refused by what Storable asks for.
Normalize(raw) ==
    IF IsNormalized(raw) THEN Validated(raw) ELSE Validated(Resolved(raw))

\* A null-padded search key: what does not fit in path_size is cut off.
Padded(raw) == SubSeq(raw, 1, IF Len(raw) <= PathSize THEN Len(raw) ELSE PathSize)

\* Mutant: the length of a path is not compared with path_size.
StorableUnchecked(p) == p \in Seq(Names) \ {<<>>}

\* What normalize and then pad_path accept.
Storable(p) == p \in Path

\* path starts with "dir/".
Below(dir, path) ==
    /\ Len(dir) < Len(path)
    /\ SubSeq(path, 1, Len(dir)) = dir

\* The path with the prefix from replaced by to.
Rebased(path, from, to) == to \o SubSeq(path, Len(from) + 1, Len(path))

(***************************************************************************)
(* The byte order of null-padded paths, with '/' below every byte of a name.*)
(***************************************************************************)
PathLess(p, q) ==
    \E i \in 1..Len(q) :
        /\ i <= Len(p) + 1
        /\ \A j \in 1..(i - 1) : p[j] = q[j]
        /\ i <= Len(p) => p[i] < q[i]

=============================================================================
