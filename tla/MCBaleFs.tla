----------------------------- MODULE MCBaleFs -----------------------------
(* Small archives to mount.  With a = "a", b = "bbb" and c = "c" and a         *)
(* path_size of 3, "bbb" and "a/c" fill it up, and "bbb/c" is cut to "bbb".    *)
EXTENDS BaleFsRequests

MCPath == {<<"a">>, <<"b">>, <<"a", "c">>, <<"b", "c">>}
MCFull == {<<"a", "c">>, <<"b">>}
MCLong == {<<"b", "c">>}
MCCutTo == [p \in MCLong |-> <<"b">>]

\* Nothing changes in mode or time, or what has any of the paths does.
MCNone == {}
MCAnyPath == MCPath \cup {RootPath}

NoRows == [p \in MCPath |-> <<>>]
File(data, link) == <<[kind |-> "file", data |-> data, link |-> link]>>

\* An empty archive, and one with a file and a hard link to it, in a directory
\* that has no row.
MCArchives ==
    { NoRows,
      [NoRows EXCEPT ![<<"a", "c">>] = File(<<>>, 1), ![<<"b">>] = File(<<>>, 1)] }

\* Two names in the root, with any path_size, the first of which is a file, a
\* symlink or a directory when its mode or time is changed.
MCFlatPath == {<<"a">>, <<"b">>}
MCNoCut == [p \in {} |-> <<>>]
MCFlatAttrPath == {<<"a">>}

\* An empty archive, and one with a file above the limit of the mount and a hard
\* link to it.
MCFlatArchives ==
    { [p \in MCFlatPath |-> <<>>], [p \in MCFlatPath |-> File(<<Nul, Nul>>, 1)] }
=============================================================================
