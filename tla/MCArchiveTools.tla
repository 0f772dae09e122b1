--------------------------- MODULE MCArchiveTools ---------------------------
(***************************************************************************)
(* Archives of up to three rows.  The names are "x(1).t", "x.t", "y" and    *)
(* "y(1)", in the order of their bytes: a number comes before what it was   *)
(* added to if there is an extension, and after it if there is none.  The   *)
(* data of an entry is its ID in the archive that the tool is given first,  *)
(* so that no two entries can be confused.                                  *)
(***************************************************************************)
EXTENDS ArchiveTools

MCNumbered == [n \in Names |->
    CASE n = 1 -> <<TooLong>>
      [] n = 2 -> <<1>>
      [] n = 3 -> <<4>>
      [] n = 4 -> <<TooLong>>]

MCPaths == { <<1>>, <<2>>, <<3>>, <<3, 2>> }
MCIds == 1..3
MCRows == [path : MCPaths, id : MCIds]
MCMaxRows == 3

\* A table is sorted by path.
MCTables ==
    { s \in UNION { [1..n -> MCRows] : n \in 1..MCMaxRows } :
        \A i \in 2..Len(s) : ~PathLess(s[i].path, s[i - 1].path) }

MCEntries == [MCIds -> {"none", "file", "dir", "link"}]

EntriesOf(kinds) ==
    { [id |-> i, kind |-> kinds[i], data |-> IF kinds[i] = "dir" THEN 0 ELSE i] :
        i \in { i \in MCIds : kinds[i] # "none" } }

MCArchives ==
    { [rows |-> t, entries |-> EntriesOf(kinds)] :
        t \in MCTables,
        kinds \in { k \in MCEntries : Cardinality({i \in MCIds : k[i] = "link"}) <= 1 } }

(***************************************************************************)
(* An entry has a row, a directory has one.  The path of a new entry may be *)
(* taken and that of a hard link may not, so that of the rows with one path *)
(* that resolve the later one has the later ID.                             *)
(***************************************************************************)
Reachable(a) ==
    /\ \A r \in a.entries :
        LET at == { i \in DOMAIN a.rows : a.rows[i].id = r.id }
        IN  at # {} /\ (r.kind = "dir" => Cardinality(at) = 1)
    /\ LET s == Listed(a)
       IN  \A i, j \in DOMAIN s : (i < j /\ s[i].path = s[j].path) => s[i].id < s[j].id

MCReachable == { a \in MCArchives : Reachable(a) }

MCRequests == { {}, {<<2>>}, {<<3>>, <<3, 2>>} }

=============================================================================
