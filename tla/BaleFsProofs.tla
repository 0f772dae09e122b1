---------------------------- MODULE BaleFsProofs ----------------------------
(***************************************************************************)
(* The maps of a mount, proved for every set of paths, every limit and      *)
(* every archive that may be mounted: that they keep their types, that the  *)
(* paths of files and what is buffered for them stay with their inodes,     *)
(* that nothing is extended beyond the limit, that a request loses no write *)
(* and leaves other files alone, and that a read-only mount changes         *)
(* nothing; and, if the archives that are mounted have no path twice, that  *)
(* the directories and what they list are a tree.                           *)
(***************************************************************************)
EXTENDS BaleFsRequests, TLAPS, FiniteSetTheorems, SequenceTheorems

(***************************************************************************)
(* TypeOK, part by part                                                     *)
(***************************************************************************)
ArchiveType(a) ==
    /\ DOMAIN a = Path
    /\ \A p \in Path : a[p] \in Seq(Node)

Listed ==
    [name : Names, ino : DirIno, kind : {"dir"}]
    \cup [name : Names, ino : FileIno, kind : {"file", "symlink"}]

DirsType ==
    /\ DOMAIN dir_inodes \subseteq DirPath
    /\ DOMAIN dir_contents \subseteq DirIno
    /\ \A p \in DOMAIN dir_inodes : dir_inodes[p] \in DOMAIN dir_contents
    /\ \A d \in DOMAIN dir_contents : dir_contents[d] \subseteq Listed
    /\ next_dir_ino \in 1..(MaxDirs + 1)

FilesType ==
    /\ DOMAIN inode_to_path \subseteq FileIno
    /\ \A i \in DOMAIN inode_to_path : inode_to_path[i] \in Path
    /\ DOMAIN path_to_inode \subseteq Path
    /\ next_file_ino \in 1..(MaxFiles + 1)

BuffersType ==
    /\ DOMAIN modified_data \subseteq Path
    /\ \A p \in DOMAIN modified_data : modified_data[p] \in Content
    /\ DOMAIN modified_modes \subseteq DirPath
    /\ \A p \in DOMAIN modified_modes : modified_modes[p] \in Kind
    /\ modified_times \subseteq DirPath

LEMMA TypeParts ==
  TypeOK <=> /\ mounted \in BOOLEAN
             /\ ArchiveType(archive)
             /\ DirsType
             /\ FilesType
             /\ BuffersType
BY DEF TypeOK, ArchiveType, DirsType, Listed, FilesType, BuffersType

LEMMA TypePartsNext ==
  TypeOK' <=> /\ mounted' \in BOOLEAN
              /\ ArchiveType(archive')
              /\ DirsType'
              /\ FilesType'
              /\ BuffersType'
BY DEF TypeOK, ArchiveType, DirsType, Listed, FilesType, BuffersType

\* Directory inodes are neither shared nor given out twice.
DirsFresh ==
    /\ \A p, q \in DOMAIN dir_inodes : dir_inodes[p] = dir_inodes[q] => p = q
    /\ \A d \in DOMAIN dir_contents : d < next_dir_ino

FilesFresh == \A i \in DOMAIN inode_to_path : i < next_file_ino

-----------------------------------------------------------------------------
(* Contents, rows and maps *)

LEMMA ContentFacts ==
  /\ <<>> \in Content
  /\ \A c \in Content : /\ Len(c) \in Nat
                        /\ c \in [1..Len(c) -> Byte \cup {Nul}]
  /\ \A n \in Nat : \A c \in [1..n -> Byte \cup {Nul}] : c \in Content /\ Len(c) = n
BY DEF Content

\* What is written or cut is a content, of the length that was asked for.
LEMMA ResizedType ==
  ASSUME NEW c \in Content, NEW n \in Nat
  PROVE  /\ Resized(c, n) \in Content /\ Len(Resized(c, n)) = n
         /\ \A k \in 1..n, b \in Byte : LET d == [Resized(c, n) EXCEPT ![k] = b]
                                      IN  d \in Content /\ Len(d) = n
<1>1. c \in [1..Len(c) -> Byte \cup {Nul}] /\ Len(c) \in Nat
  BY ContentFacts
<1>2. ASSUME NEW k \in 1..n, k <= Len(c) PROVE c[k] \in Byte \cup {Nul}
  <2>1. k \in 1..Len(c)
    BY <1>1, <1>2
  <2> QED BY <1>1, <2>1
<1>3. Resized(c, n) \in [1..n -> Byte \cup {Nul}]
  BY <1>2 DEF Resized
<1>4. \A k \in 1..n, b \in Byte : [Resized(c, n) EXCEPT ![k] = b] \in [1..n -> Byte \cup {Nul}]
  BY <1>3
<1> QED BY <1>3, <1>4, ContentFacts

LEMMA NodeTypes ==
  /\ Dangling \in Node
  /\ \A kind \in Kind, c \in Content : NewNode(kind, c) \in Node
BY ContentFacts DEF Dangling, NewNode, Node, Kind

LEMMA DeletedType ==
  ASSUME NEW a, ArchiveType(a), NEW P
  PROVE  ArchiveType(Deleted(a, P))
<1> DEFINE cut == { Cut(p) : p \in P }
           gone == LinksOf(a, cut)
           left(q) == [k \in DOMAIN a[q] |-> IF a[q][k].link \in gone THEN Dangling ELSE a[q][k]]
<1>1. Deleted(a, P) = [q \in Path |-> IF q \in cut THEN <<>> ELSE left(q)]
  BY DEF Deleted
<1>2. ASSUME NEW q \in Path PROVE left(q) \in Seq(Node)
  <2>1. a[q] \in Seq(Node)
    BY DEF ArchiveType
  <2>2. Len(a[q]) \in Nat /\ DOMAIN a[q] = 1..Len(a[q]) /\ \A k \in 1..Len(a[q]) : a[q][k] \in Node
    BY <2>1
  <2> HIDE DEF gone
  <2>3. left(q) \in [1..Len(a[q]) -> Node]
    BY <2>2, NodeTypes
  <2> QED BY <2>2, <2>3
<1>3. <<>> \in Seq(Node)
  OBVIOUS
<1> HIDE DEF cut, left
<1> QED BY <1>1, <1>2, <1>3 DEF ArchiveType

LEMMA DeletedDirType ==
  ASSUME NEW a, ArchiveType(a), NEW p
  PROVE  ArchiveType(DeletedDir(a, p))
BY DeletedType DEF DeletedDir

LEMMA AddedType ==
  ASSUME NEW a, ArchiveType(a), NEW p \in Path, NEW node \in Node,
         NEW b \in AddedOrNot(a, p, node)
  PROVE  ArchiveType(b)
<1>1. a[p] \in Seq(Node)
  BY DEF ArchiveType
<1>2. Append(a[p], node) \in Seq(Node)
  BY <1>1
<1>3. ArchiveType(Added(a, p, node))
  BY <1>2 DEF Added, ArchiveType
<1> QED BY <1>3 DEF AddedOrNot

\* A mode says what kind it is, whether it is buffered, in the archive, or neither.
LEMMA ModeKindType ==
  ASSUME BuffersType, NEW a, ArchiveType(a), NEW p
  PROVE  ModeKind(a, p) \in Kind
<1>1. CASE p \in DOMAIN modified_modes
  BY <1>1 DEF ModeKind, BuffersType
<1>2. CASE p \notin DOMAIN modified_modes /\ HasEntry(a, p)
  <2>1. a[Cut(p)] \in Seq(Node) /\ a[Cut(p)] # <<>> /\ a[Cut(p)][1].kind # "none"
    BY <1>2 DEF HasEntry, ArchiveType
  <2>2. a[Cut(p)][1] \in Node
    BY <2>1
  <2>3. a[Cut(p)][1].kind \in Kind
    BY <2>1, <2>2 DEF Node
  <2> QED BY <1>2, <2>3 DEF ModeKind, EntryKind
<1>3. CASE p \notin DOMAIN modified_modes /\ ~HasEntry(a, p)
  BY <1>3 DEF ModeKind, EntryKind, Kind
<1> QED BY <1>1, <1>2, <1>3

LEMMA RewrittenType ==
  ASSUME BuffersType, NEW a, ArchiveType(a), NEW order, NEW gone, NEW data,
         \A q \in DOMAIN order : data[q] \in Content
  PROVE  ArchiveType(Rewritten(a, order, gone, data))
<1> DEFINE kind(q) == ModeKind(Deleted(a, Earlier(order, q)), q)
<1>1. ArchiveType(Deleted(a, DOMAIN order \cup gone))
  BY DeletedType
<1>2. ASSUME NEW q \in DOMAIN order PROVE <<NewNode(kind(q), data[q])>> \in Seq(Node)
  <2>1. kind(q) \in Kind
    BY DeletedType, ModeKindType
  <2> HIDE DEF kind
  <2>2. NewNode(kind(q), data[q]) \in Node
    BY <2>1, NodeTypes
  <2> QED BY <2>2
<1>3. Rewritten(a, order, gone, data) =
        [q \in Path |-> IF q \in DOMAIN order /\ q \notin { Cut(p) : p \in gone }
                        THEN <<NewNode(kind(q), data[q])>>
                        ELSE Deleted(a, DOMAIN order \cup gone)[q]]
  BY DEF Rewritten
<1> HIDE DEF kind
<1> QED BY <1>1, <1>2, <1>3 DEF ArchiveType

LEMMA FileDataType ==
  ASSUME NEW a, ArchiveType(a), NEW p, IsFile(a, p)
  PROVE  FileData(a, p) \in Content
<1>1. a[Cut(p)] \in Seq(Node) /\ a[Cut(p)] # <<>>
  BY DEF IsFile, HasEntry, ArchiveType
<1>2. a[Cut(p)][1] \in Node
  BY <1>1
<1> QED BY <1>2 DEF FileData, Node

-----------------------------------------------------------------------------
(* The buffers and the archive *)

LEMMA DataType ==
  ASSUME TypeOK, NEW i, CanRead(i)
  PROVE  /\ inode_to_path[i] \in Path
         /\ Data(i) \in Content
<1>1. inode_to_path[i] \in Path
  BY DEF CanRead, TypeOK
<1>2. ArchiveType(archive)
  BY TypeParts
<1>3. Data(i) \in Content
  BY <1>2, FileDataType DEF CanRead, Data, TypeOK
<1> QED BY <1>1, <1>3

\* Requests that change the buffers alone: what they buffer is an inode's.
LEMMA BufferStep ==
  ASSUME FsInv, Accepts, UNCHANGED <<mounted, archive, tree>>, BuffersType',
         \A p \in DOMAIN modified_data' :
            p \in DOMAIN modified_data \/ \E i \in DOMAIN inode_to_path : inode_to_path[i] = p
  PROVE  FsInv'
<1>1. /\ mounted' \in BOOLEAN /\ ArchiveType(archive') /\ DirsType' /\ FilesType'
      /\ mounted' = mounted
  BY TypeParts DEF FsInv, DirsType, FilesType, tree
<1>2. TypeOK'
  BY <1>1, TypePartsNext
<1>3. InodesSound'
  BY DEF FsInv, InodesSound, tree
<1>4. InodesFresh'
  BY DEF FsInv, InodesFresh, tree
<1>5. NothingBuffered'
  BY <1>1 DEF Accepts, NothingBuffered
<1> QED BY <1>2, <1>3, <1>4, <1>5 DEF FsInv

LEMMA BufferedStep ==
  ASSUME FsInv, Accepts, UNCHANGED <<mounted, archive, tree, attrs>>,
         NEW i, CanRead(i), NEW c \in Content,
         modified_data' = With(modified_data, inode_to_path[i], c)
  PROVE  FsInv'
<1>1. TypeOK /\ inode_to_path[i] \in Path /\ i \in DOMAIN inode_to_path
  BY DataType DEF FsInv, CanRead
<1>2. /\ DOMAIN modified_data' = DOMAIN modified_data \cup {inode_to_path[i]}
      /\ modified_data'[inode_to_path[i]] = c
      /\ \A p \in DOMAIN modified_data : p # inode_to_path[i] => modified_data'[p] = modified_data[p]
  BY DEF With
<1>3. BuffersType
  BY <1>1, TypeParts
<1>4. BuffersType'
  BY <1>1, <1>2, <1>3 DEF BuffersType, attrs
<1> QED BY <1>1, <1>2, <1>4, BufferStep

LEMMA WriteKeeps ==
  ASSUME FsInv, NEW i, NEW offset \in 0..MaxFileSize, NEW b \in Byte, write(i, offset, b)
  PROVE  FsInv'
<1> DEFINE size == IF offset < Len(Data(i)) THEN Len(Data(i)) ELSE offset + 1
<1>1. /\ Accepts /\ CanRead(i) /\ UNCHANGED <<mounted, archive, tree, attrs>>
      /\ modified_data' = IF offset >= MaxFileSize
                          THEN With(modified_data, inode_to_path[i], Data(i))
                          ELSE With(modified_data, inode_to_path[i],
                                    [Resized(Data(i), size) EXCEPT ![offset + 1] = b])
  BY DEF write, Write, Load
<1>2. Data(i) \in Content /\ Len(Data(i)) \in Nat
  BY <1>1, DataType, ContentFacts DEF FsInv
<1>3. MaxFileSize \in Nat
  BY BaleFsAssumption
<1>4. CASE offset >= MaxFileSize
  BY <1>1, <1>2, <1>4, BufferedStep
<1>5. CASE ~(offset >= MaxFileSize)
  <2>1. size \in Nat /\ offset + 1 \in 1..size
    BY <1>2, <1>3, <1>5
  <2> HIDE DEF size
  <2>2. [Resized(Data(i), size) EXCEPT ![offset + 1] = b] \in Content
    BY <1>2, <2>1, ResizedType
  <2> QED BY <1>1, <1>5, <2>2, BufferedStep
<1> QED BY <1>4, <1>5

LEMMA TruncateKeeps ==
  ASSUME FsInv, NEW i, NEW n \in 0..MaxFileSize, setattr_size(i, n)
  PROVE  FsInv'
<1>1. /\ Accepts /\ CanRead(i) /\ UNCHANGED <<mounted, archive, tree, attrs>>
      /\ modified_data' = With(modified_data, inode_to_path[i], Resized(Data(i), n))
  BY DEF setattr_size, Truncate
<1>2. Data(i) \in Content
  BY <1>1, DataType DEF FsInv
<1>3. Resized(Data(i), n) \in Content
  BY <1>2, ResizedType
<1> QED BY <1>1, <1>3, BufferedStep

\* Requests for a mode or a time: what is recorded is a kind, of a path of the tree.
LEMMA SetAttrKeeps ==
  ASSUME FsInv, NEW p, setattr_mode(p) \/ setattr_time(p)
  PROVE  FsInv'
<1>1. /\ Accepts /\ UNCHANGED <<mounted, archive, tree, modified_data>>
      /\ p \in DOMAIN dir_inodes \cup { inode_to_path[i] : i \in DOMAIN inode_to_path }
  BY DEF setattr_mode, setattr_time, SetMode, SetTime
<1>2. p \in DirPath
  BY <1>1 DEF FsInv, TypeOK, DirPath
<1>3. BuffersType /\ ArchiveType(archive)
  BY TypeParts DEF FsInv
<1>4. BuffersType'
  <2>1. CASE setattr_time(p)
    <3>1. modified_times' = modified_times \cup {p} /\ UNCHANGED modified_modes
      BY <2>1 DEF setattr_time, SetTime
    <3> QED BY <1>1, <1>2, <1>3, <3>1 DEF BuffersType
  <2>2. CASE setattr_mode(p)
    <3>1. /\ \E kind \in Kind : modified_modes' = With(modified_modes, p, kind)
          /\ UNCHANGED modified_times
      BY <1>3, <2>2, ModeKindType DEF setattr_mode, SetMode, Kind
    <3>2. PICK kind \in Kind : modified_modes' = With(modified_modes, p, kind)
      BY <3>1
    <3>3. /\ DOMAIN modified_modes' = DOMAIN modified_modes \cup {p}
          /\ \A q \in DOMAIN modified_modes' :
                modified_modes'[q] = IF q = p THEN kind ELSE modified_modes[q]
      BY <3>2 DEF With
    <3>4. \A q \in DOMAIN modified_modes' : modified_modes'[q] \in Kind
      BY <1>3, <3>3 DEF BuffersType
    <3> QED BY <1>1, <1>2, <1>3, <3>1, <3>3, <3>4 DEF BuffersType
  <2> QED BY <2>1, <2>2
<1> QED BY <1>1, <1>4, BufferStep

LEMMA OrderOf ==
  ASSUME NEW S, NEW order \in Orders(S)
  PROVE  DOMAIN order = S
BY DEF Orders

LEMMA DataStoredType ==
  ASSUME TypeOK, NEW first \in Orders(DOMAIN modified_data)
  PROVE  ArchiveType(DataStored(archive, first))
<1>1. BuffersType /\ ArchiveType(archive)
  BY TypeParts
<1>2. \A q \in DOMAIN first : modified_data[q] \in Content
  BY <1>1, OrderOf DEF BuffersType
<1> QED BY <1>1, <1>2, RewrittenType DEF DataStored

\* What is a file after a delete was that file before it.
LEMMA DeletedFile ==
  ASSUME NEW a, ArchiveType(a), NEW P, NEW p, IsFile(Deleted(a, P), p)
  PROVE  IsFile(a, p)
<1> DEFINE c == Cut(p)
           b == Deleted(a, P)[c]
           gone == LinksOf(a, { Cut(q) : q \in P })
<1>1. c \in Path /\ b # <<>> /\ b[1].kind = "file"
  BY DEF IsFile, HasEntry
<1>2. b = [k \in DOMAIN a[c] |-> IF a[c][k].link \in gone THEN Dangling ELSE a[c][k]]
  BY <1>1 DEF Deleted
<1> HIDE DEF b, gone
<1>3. a[c] \in Seq(Node) /\ a[c] # <<>>
  <2>1. a[c] \in Seq(Node)
    BY <1>1 DEF ArchiveType
  <2>2. a[c] = <<>> => b = <<>>
    BY <1>2
  <2> QED BY <1>1, <2>1, <2>2
<1>4. 1 \in DOMAIN a[c]
  BY <1>3
<1>5. b[1] = Dangling \/ b[1] = a[c][1]
  BY <1>2, <1>4
<1>6. a[c][1].kind = "file"
  BY <1>1, <1>5 DEF Dangling
<1> QED BY <1>1, <1>3, <1>6 DEF IsFile, HasEntry

LEMMA RedoneType ==
  ASSUME BuffersType, NEW a, ArchiveType(a), NEW order, CanRedo(a, order)
  PROVE  ArchiveType(Redone(a, order))
<1> DEFINE data == [p \in DOMAIN order |-> FileData(a, p)]
<1>1. \A p \in DOMAIN order : data[p] \in Content
  BY DeletedFile, FileDataType DEF CanRedo
<1> HIDE DEF data
<1>2. ArchiveType(Rewritten(a, order, {}, data))
  BY <1>1, RewrittenType
<1> QED BY <1>2 DEF Redone, data

LEMMA SyncedType ==
  ASSUME TypeOK, Synced
  PROVE  ArchiveType(archive')
<1>1. BuffersType
  BY TypeParts
<1> QED BY <1>1, DataStoredType, RedoneType DEF Synced

LEMMA SyncStopsType ==
  ASSUME TypeOK, SyncStops
  PROVE  ArchiveType(archive')
<1>1. ArchiveType(archive) /\ BuffersType
  BY TypeParts
<1>2. ASSUME NEW p \in DOMAIN modified_data,
             NEW done \in SUBSET { q \in DOMAIN modified_data : q # p /\ Storable(q) },
             NEW order \in Orders(done),
             archive' = Rewritten(archive, order, {p}, modified_data)
      PROVE  ArchiveType(archive')
  <2>1. \A q \in DOMAIN order : modified_data[q] \in Content
    BY <1>1, OrderOf DEF BuffersType
  <2> QED BY <1>1, <1>2, <2>1, RewrittenType
<1>3. ASSUME NEW first \in Orders(DOMAIN modified_data),
             NEW done \in SUBSET AttrsOnly, NEW then \in Orders(done),
             CanRedo(DataStored(archive, first), then),
             LET a == Redone(DataStored(archive, first), then)
             IN  \/ \E p \in AttrsOnly \ done :
                        archive' = IF IsFile(a, p) THEN Deleted(a, {p}) ELSE a
                 \/ done = AttrsOnly /\ archive' = a
      PROVE  ArchiveType(archive')
  <2> DEFINE a == Redone(DataStored(archive, first), then)
  <2>1. ArchiveType(a)
    BY <1>1, <1>3, DataStoredType, RedoneType
  <2>2. (\E p \in AttrsOnly \ done : archive' = IF IsFile(a, p) THEN Deleted(a, {p}) ELSE a)
        \/ archive' = a
    BY <1>3
  <2> HIDE DEF a
  <2> QED BY <2>1, <2>2, DeletedType
<1> QED BY <1>2, <1>3 DEF SyncStops

LEMMA FlushKeeps ==
  ASSUME FsInv, flush
  PROVE  FsInv'
<1>1. Accepts /\ UNCHANGED <<mounted, tree>> /\ mounted /\ TypeOK
  BY DEF flush, SyncFails, SyncStops, Accepts, FsInv
<1>2. DirsType /\ FilesType /\ BuffersType
  BY <1>1, TypeParts
<1>3. DirsType' /\ FilesType'
  BY <1>1, <1>2 DEF DirsType, FilesType, tree
<1>4. CASE Synced
  <2>1. /\ ArchiveType(archive') /\ modified_data' = NoMap
        /\ modified_modes' = NoMap /\ modified_times' = {}
    BY <1>1, <1>4, SyncedType DEF Synced
  <2>2. BuffersType'
    BY <2>1 DEF BuffersType, NoMap
  <2>3. TypeOK'
    BY <1>1, <1>3, <2>1, <2>2, TypePartsNext
  <2>4. InodesSound' /\ InodesFresh'
    BY <1>1, <2>1 DEF FsInv, InodesSound, InodesFresh, tree, NoMap
  <2> QED BY <1>1, <2>3, <2>4 DEF FsInv, NothingBuffered, Accepts
<1>5. CASE SyncFails
  <2>1. ArchiveType(archive') /\ UNCHANGED <<modified_data, modified_modes, modified_times>>
    BY <1>1, <1>5, SyncStopsType DEF SyncFails, attrs
  <2>2. BuffersType'
    BY <1>2, <2>1 DEF BuffersType
  <2>3. TypeOK'
    BY <1>1, <1>3, <2>1, <2>2, TypePartsNext
  <2>4. InodesSound' /\ InodesFresh'
    BY <1>1, <2>1 DEF FsInv, InodesSound, InodesFresh, tree
  <2> QED BY <1>1, <2>3, <2>4 DEF FsInv, NothingBuffered, Accepts
<1> QED BY <1>4, <1>5 DEF flush


-----------------------------------------------------------------------------
(* The tree *)

\* What a request that a mount accepts has to show.
LEMMA Accepted ==
  ASSUME FsInv, Accepts, mounted' = mounted, ArchiveType(archive'),
         DirsType', DirsFresh', FilesType', FilesFresh', BuffersType', InodesSound'
  PROVE  FsInv'
<1>1. TypeOK'
  BY TypePartsNext DEF FsInv, TypeOK
<1>2. InodesFresh'
  BY DEF InodesFresh, DirsFresh, FilesFresh
<1>3. NothingBuffered'
  BY DEF Accepts, NothingBuffered
<1> QED BY <1>1, <1>2, <1>3 DEF FsInv

LEMMA FsParts ==
  ASSUME FsInv
  PROVE  /\ mounted \in BOOLEAN /\ ArchiveType(archive)
         /\ DirsType /\ DirsFresh /\ FilesType /\ FilesFresh /\ BuffersType
         /\ InodesSound /\ NothingBuffered
         /\ MaxFiles \in Nat /\ MaxDirs \in Nat
<1>1. TypeOK /\ InodesSound /\ InodesFresh /\ NothingBuffered
  BY DEF FsInv
<1>2. DirsFresh /\ FilesFresh
  BY <1>1 DEF InodesFresh, DirsFresh, FilesFresh
<1> QED BY <1>1, <1>2, TypeParts, BaleFsAssumption

LEMMA EntriesListedType ==
  ASSUME NEW name \in Names
  PROVE  /\ \A i \in DirIno : Entry(name, i, "dir") \in Listed
         /\ \A i \in FileIno : Entry(name, i, "file") \in Listed
         /\ \A i \in FileIno : Entry(name, i, "symlink") \in Listed
BY DEF Entry, Listed

LEMMA ListingTypes ==
  ASSUME NEW contents, \A d \in DOMAIN contents : contents[d] \subseteq Listed, NEW d
  PROVE  /\ \A entry \in Listed :
                /\ DOMAIN Pushed(contents, d, entry) = DOMAIN contents
                /\ \A x \in DOMAIN contents : Pushed(contents, d, entry)[x] \subseteq Listed
         /\ \A name :
                /\ DOMAIN Dropped(contents, d, name) = DOMAIN contents
                /\ \A x \in DOMAIN contents : Dropped(contents, d, name)[x] \subseteq Listed
<1>1. ASSUME NEW entry \in Listed
      PROVE  /\ DOMAIN Pushed(contents, d, entry) = DOMAIN contents
             /\ \A x \in DOMAIN contents : Pushed(contents, d, entry)[x] \subseteq Listed
  BY <1>1 DEF Pushed
<1>2. ASSUME NEW name
      PROVE  /\ DOMAIN Dropped(contents, d, name) = DOMAIN contents
             /\ \A x \in DOMAIN contents : Dropped(contents, d, name)[x] \subseteq Listed
  BY DEF Dropped
<1> QED BY <1>1, <1>2

\* Requests for files change only what directories list.
LEMMA DirsKept ==
  ASSUME DirsType, DirsFresh, UNCHANGED <<dir_inodes, next_dir_ino>>,
         DOMAIN dir_contents' = DOMAIN dir_contents,
         \A d \in DOMAIN dir_contents : dir_contents'[d] \subseteq Listed
  PROVE  DirsType' /\ DirsFresh'
BY DEF DirsType, DirsFresh

LEMMA CreateDirectoryKeeps ==
  ASSUME FsInv, NEW d, NEW name \in Names, mkdir(d, name)
  PROVE  FsInv'
<1> DEFINE p == Append(PathOf(d), name)
           ino == next_dir_ino
           grown == With(dir_contents, ino, {})
           entry == Entry(name, ino, "dir")
<1>1. /\ Accepts /\ p \in Path /\ ino <= MaxDirs /\ next_dir_ino' = ino + 1
      /\ dir_inodes' = With(dir_inodes, p, ino)
      /\ dir_contents' = Pushed(grown, d, entry)
      /\ archive' \in AddedOrNot(archive, p, NewNode("dir", <<>>))
      /\ UNCHANGED <<mounted, inode_to_path, path_to_inode, modified_data,
                     attrs, next_file_ino>>
  BY DEF mkdir, CreateDirectory, IsNew
<1>2. /\ ArchiveType(archive) /\ DirsType /\ DirsFresh /\ FilesType /\ FilesFresh
      /\ BuffersType /\ InodesSound /\ MaxDirs \in Nat
  BY FsParts
<1>3. ino \in DirIno /\ ino \in Nat
  BY <1>1, <1>2 DEF DirsType, DirIno
<1> HIDE DEF p
<1>4. /\ DOMAIN grown = DOMAIN dir_contents \cup {ino}
      /\ \A x \in DOMAIN grown : grown[x] \subseteq Listed
  BY <1>2 DEF With, DirsType
<1>5. entry \in Listed
  BY <1>3, EntriesListedType
<1> HIDE DEF entry, grown
<1>6. /\ DOMAIN dir_contents' = DOMAIN dir_contents \cup {ino}
      /\ \A x \in DOMAIN dir_contents' : dir_contents'[x] \subseteq Listed
  BY <1>1, <1>4, <1>5, ListingTypes
<1>7. /\ DOMAIN dir_inodes' = DOMAIN dir_inodes \cup {p}
      /\ \A q \in DOMAIN dir_inodes' : dir_inodes'[q] = IF q = p THEN ino ELSE dir_inodes[q]
  BY <1>1 DEF With
<1>8. DirsType'
  BY <1>1, <1>2, <1>3, <1>6, <1>7 DEF DirsType, DirPath, DirIno
<1>9. DirsFresh'
  <2>1. \A q \in DOMAIN dir_inodes : dir_inodes[q] # ino
    BY <1>2, <1>3 DEF DirsType, DirsFresh, DirIno
  <2>2. \A x \in DOMAIN dir_contents' : x < next_dir_ino'
    BY <1>1, <1>2, <1>3, <1>6 DEF DirsFresh, DirsType, DirIno
  <2> QED BY <1>2, <1>7, <2>1, <2>2 DEF DirsFresh
<1>10. ArchiveType(archive')
  BY <1>1, <1>2, NodeTypes, ContentFacts, AddedType DEF Kind
<1>11. FilesType' /\ FilesFresh' /\ BuffersType' /\ InodesSound'
  BY <1>1, <1>2 DEF FilesType, FilesFresh, BuffersType, attrs, InodesSound
<1> QED BY <1>1, <1>8, <1>9, <1>10, <1>11, Accepted

LEMMA NewInodeKeeps ==
  ASSUME FsInv, NEW d, NEW name \in Names, NEW kind \in {"file", "symlink"},
         Accepts, NewInode(d, name, kind),
         \/ UNCHANGED modified_data
         \/ modified_data' = With(modified_data, Append(PathOf(d), name), <<>>)
  PROVE  FsInv'
<1> DEFINE p == Append(PathOf(d), name)
           ino == next_file_ino
           entry == Entry(name, ino, kind)
<1>1. /\ p \in Path /\ ino <= MaxFiles /\ next_file_ino' = ino + 1
      /\ inode_to_path' = With(inode_to_path, ino, p)
      /\ path_to_inode' = With(path_to_inode, p, ino)
      /\ dir_contents' = Pushed(dir_contents, d, entry)
      /\ archive' \in AddedOrNot(archive, p, NewNode(kind, <<>>))
      /\ UNCHANGED <<mounted, dir_inodes, attrs, next_dir_ino>>
      /\ UNCHANGED modified_data \/ modified_data' = With(modified_data, p, <<>>)
  BY DEF NewInode, IsNew
<1>2. /\ ArchiveType(archive) /\ DirsType /\ DirsFresh /\ FilesType /\ FilesFresh
      /\ BuffersType /\ InodesSound /\ MaxFiles \in Nat
  BY FsParts
<1>3. ino \in FileIno /\ ino \in Nat
  BY <1>1, <1>2 DEF FilesType, FileIno
<1> HIDE DEF p
<1>4. entry \in Listed
  BY <1>3, EntriesListedType
<1> HIDE DEF entry
<1>5. DirsType' /\ DirsFresh'
  <2>1. /\ DOMAIN dir_contents' = DOMAIN dir_contents
        /\ \A x \in DOMAIN dir_contents : dir_contents'[x] \subseteq Listed
    BY <1>1, <1>2, <1>4, ListingTypes DEF DirsType
  <2> QED BY <1>1, <1>2, <2>1, DirsKept
<1>6. /\ DOMAIN inode_to_path' = DOMAIN inode_to_path \cup {ino}
      /\ \A i \in DOMAIN inode_to_path' : inode_to_path'[i] = IF i = ino THEN p ELSE inode_to_path[i]
      /\ DOMAIN path_to_inode' = DOMAIN path_to_inode \cup {p}
      /\ \A q \in DOMAIN path_to_inode' : path_to_inode'[q] = IF q = p THEN ino ELSE path_to_inode[q]
  BY <1>1 DEF With
<1>7. \A i \in DOMAIN inode_to_path : i # ino
  BY <1>2, <1>3 DEF FilesFresh, FilesType, FileIno
<1>8. FilesType'
  BY <1>1, <1>2, <1>3, <1>6 DEF FilesType, FileIno
<1>9. FilesFresh'
  BY <1>1, <1>2, <1>3, <1>6 DEF FilesFresh, FilesType, FileIno
<1>10. /\ DOMAIN modified_data' \subseteq DOMAIN modified_data \cup {p}
       /\ \A q \in DOMAIN modified_data' :
            modified_data'[q] = <<>> \/ (q \in DOMAIN modified_data /\ modified_data'[q] = modified_data[q])
  BY <1>1 DEF With
<1>11. BuffersType'
  BY <1>1, <1>2, <1>10, ContentFacts DEF BuffersType, attrs
<1>12. InodesSound'
  BY <1>2, <1>6, <1>7, <1>10 DEF InodesSound
<1>13. ArchiveType(archive')
  BY <1>1, <1>2, NodeTypes, ContentFacts, AddedType DEF Kind
<1> QED BY <1>1, <1>5, <1>8, <1>9, <1>11, <1>12, <1>13, Accepted

LEMMA RemoveDirectoryKeeps ==
  ASSUME FsInv, NEW d, NEW name, rmdir(d, name)
  PROVE  FsInv'
<1> DEFINE p == Append(PathOf(d), name)
           ino == dir_inodes[p]
           rest == Without(dir_contents, {ino})
<1>1. /\ Accepts /\ p \in DOMAIN dir_inodes
      /\ dir_inodes' = Without(dir_inodes, {p})
      /\ dir_contents' = Dropped(rest, d, name)
      /\ archive' = DeletedDir(archive, p)
      /\ UNCHANGED <<mounted, inode_to_path, path_to_inode, modified_data,
                     attrs, next_file_ino, next_dir_ino>>
  BY DEF rmdir, RemoveDirectory
<1>2. /\ ArchiveType(archive) /\ DirsType /\ DirsFresh /\ FilesType /\ FilesFresh
      /\ BuffersType /\ InodesSound
  BY FsParts
<1> HIDE DEF p
<1>3. /\ DOMAIN rest = DOMAIN dir_contents \ {ino}
      /\ \A x \in DOMAIN rest : rest[x] \subseteq Listed
  BY <1>2 DEF Without, DirsType
<1> HIDE DEF rest
<1>4. /\ DOMAIN dir_contents' = DOMAIN dir_contents \ {ino}
      /\ \A x \in DOMAIN dir_contents' : dir_contents'[x] \subseteq Listed
  BY <1>1, <1>3, ListingTypes
<1>5. /\ DOMAIN dir_inodes' = DOMAIN dir_inodes \ {p}
      /\ \A q \in DOMAIN dir_inodes' : dir_inodes'[q] = dir_inodes[q] /\ q # p
  BY <1>1 DEF Without
<1>6. DirsType'
  BY <1>1, <1>2, <1>4, <1>5 DEF DirsType, DirsFresh
<1>7. DirsFresh'
  BY <1>1, <1>2, <1>4, <1>5 DEF DirsFresh
<1>8. ArchiveType(archive')
  BY <1>1, <1>2, DeletedDirType
<1>9. FilesType' /\ FilesFresh' /\ BuffersType' /\ InodesSound'
  BY <1>1, <1>2 DEF FilesType, FilesFresh, BuffersType, InodesSound, attrs
<1> QED BY <1>1, <1>6, <1>7, <1>8, <1>9, Accepted

LEMMA RemoveFileKeeps ==
  ASSUME FsInv, NEW d, NEW name, unlink(d, name)
  PROVE  FsInv'
<1> DEFINE p == Append(PathOf(d), name)
           ino == path_to_inode[p]
<1>1. /\ Accepts /\ p \in DOMAIN path_to_inode
      /\ inode_to_path' = Without(inode_to_path, {ino})
      /\ path_to_inode' = Without(path_to_inode, {p})
      /\ dir_contents' = Dropped(dir_contents, d, name)
      /\ modified_data' = Without(modified_data, {p})
      /\ archive' = Deleted(archive, {p})
      /\ UNCHANGED <<mounted, dir_inodes, attrs, next_file_ino, next_dir_ino>>
  BY DEF unlink, RemoveFile
<1>2. /\ ArchiveType(archive) /\ DirsType /\ DirsFresh /\ FilesType /\ FilesFresh
      /\ BuffersType /\ InodesSound
  BY FsParts
<1> HIDE DEF p
<1>3. DirsType' /\ DirsFresh'
  <2>1. /\ DOMAIN dir_contents' = DOMAIN dir_contents
        /\ \A x \in DOMAIN dir_contents : dir_contents'[x] \subseteq Listed
    BY <1>1, <1>2, ListingTypes DEF DirsType
  <2> QED BY <1>1, <1>2, <2>1, DirsKept
<1>4. /\ DOMAIN inode_to_path' = DOMAIN inode_to_path \ {ino}
      /\ \A i \in DOMAIN inode_to_path' : inode_to_path'[i] = inode_to_path[i]
      /\ DOMAIN path_to_inode' = DOMAIN path_to_inode \ {p}
      /\ \A q \in DOMAIN path_to_inode' : path_to_inode'[q] = path_to_inode[q]
      /\ DOMAIN modified_data' = DOMAIN modified_data \ {p}
      /\ \A q \in DOMAIN modified_data' : modified_data'[q] = modified_data[q]
  BY <1>1 DEF Without
<1>5. inode_to_path[ino] = p
  BY <1>1, <1>2 DEF InodesSound
<1>6. InodesSound'
  BY <1>2, <1>4, <1>5 DEF InodesSound
<1>7. FilesType' /\ FilesFresh' /\ BuffersType'
  BY <1>1, <1>2, <1>4 DEF FilesType, FilesFresh, BuffersType, attrs
<1>8. ArchiveType(archive')
  BY <1>1, <1>2, DeletedType
<1> QED BY <1>1, <1>3, <1>6, <1>7, <1>8, Accepted


-----------------------------------------------------------------------------
(* Renames *)

LEMMA RenamedArchiveType ==
  ASSUME BuffersType, NEW a, ArchiveType(a), NEW old, NEW new \in Path,
         NEW data, \A p \in DOMAIN data : data[p] \in Content,
         NEW copied,
         copied = IF IsFile(a, old) THEN AddedOrNot(a, new, NewNode(ModeKind(a, old), FileData(a, old)))
                  ELSE IF new \in DOMAIN data
                  THEN AddedOrNot(a, new, NewNode("file", data[new]))
                  ELSE {a},
         NEW b \in copied
  PROVE  ArchiveType(Deleted(b, {old}))
<1>1. CASE IsFile(a, old)
  <2>1. NewNode(ModeKind(a, old), FileData(a, old)) \in Node
    BY <1>1, FileDataType, ModeKindType, NodeTypes
  <2>2. ArchiveType(b)
    BY <1>1, <2>1, AddedType
  <2> QED BY <2>2, DeletedType
<1>2. CASE ~IsFile(a, old) /\ new \in DOMAIN data
  <2>1. NewNode("file", data[new]) \in Node
    BY <1>2, NodeTypes DEF Kind
  <2>2. ArchiveType(b)
    BY <1>2, <2>1, AddedType
  <2> QED BY <2>2, DeletedType
<1>3. CASE ~IsFile(a, old) /\ new \notin DOMAIN data
  <2>1. b = a
    BY <1>3
  <2> QED BY <2>1, DeletedType
<1> QED BY <1>1, <1>2, <1>3

\* The file that is written over loses its inode and its buffer to the other.
LEMMA RenameFileKeeps ==
  ASSUME FsInv, NEW d, NEW name, NEW e, NEW to \in Names,
         Accepts, RenameFile(d, name, e, to)
  PROVE  FsInv'
<1> DEFINE old == Append(PathOf(d), name)
           new == Append(PathOf(e), to)
           ino == path_to_inode[old]
           over == {new} \cap DOMAIN path_to_inode
           overInos == { path_to_inode[p] : p \in over }
           kept == Without(modified_data, over)
           data == IF old \in DOMAIN kept THEN With(Without(kept, {old}), new, kept[old])
                   ELSE kept
           listed == IF over = {} THEN dir_contents ELSE Dropped(dir_contents, e, to)
           left == Dropped(listed, d, name)
           entry == Entry(to, ino, "file")
           a == Deleted(archive, over)
           copied == IF IsFile(a, old) THEN AddedOrNot(a, new, NewNode(ModeKind(a, old), FileData(a, old)))
                     ELSE IF new \in DOMAIN data
                     THEN AddedOrNot(a, new, NewNode("file", data[new]))
                     ELSE {a}
<1>1. /\ old \in DOMAIN path_to_inode /\ new # old /\ new \in Path
      /\ path_to_inode' = With(Without(path_to_inode, over \cup {old}), new, ino)
      /\ inode_to_path' = With(Without(inode_to_path, overInos), ino, new)
      /\ modified_data' = data
      /\ dir_contents' = Pushed(left, e, entry)
      /\ \E b \in copied : archive' = Deleted(b, {old})
      /\ UNCHANGED <<mounted, dir_inodes, attrs, next_file_ino, next_dir_ino>>
  BY DEF RenameFile
<1>2. /\ ArchiveType(archive) /\ DirsType /\ DirsFresh /\ FilesType /\ FilesFresh
      /\ BuffersType /\ InodesSound
  BY FsParts
<1> HIDE DEF old, new
<1>3. ino \in DOMAIN inode_to_path /\ ino \in FileIno /\ inode_to_path[ino] = old
  BY <1>1, <1>2 DEF InodesSound, FilesType
<1>4. /\ DOMAIN data \subseteq (DOMAIN modified_data \ {old}) \cup {new}
      /\ \A p \in DOMAIN data : data[p] \in Content
  <2>1. /\ DOMAIN kept = DOMAIN modified_data \ over
        /\ \A p \in DOMAIN kept : kept[p] \in Content
    BY <1>2 DEF Without, BuffersType
  <2> HIDE DEF kept
  <2>2. CASE old \in DOMAIN kept
    BY <1>1, <2>1, <2>2 DEF With, Without
  <2>3. CASE old \notin DOMAIN kept
    BY <1>1, <2>1, <2>3
  <2> QED BY <2>2, <2>3
<1>5. BuffersType'
  BY <1>1, <1>2, <1>4 DEF BuffersType, attrs
<1>6. ArchiveType(archive')
  <2>1. ArchiveType(a)
    BY <1>2, DeletedType
  <2> HIDE DEF a, data
  <2>2. PICK b \in copied : archive' = Deleted(b, {old})
    BY <1>1
  <2>3. copied = IF IsFile(a, old) THEN AddedOrNot(a, new, NewNode(ModeKind(a, old), FileData(a, old)))
                 ELSE IF new \in DOMAIN data
                 THEN AddedOrNot(a, new, NewNode("file", data[new]))
                 ELSE {a}
    OBVIOUS
  <2> HIDE DEF copied
  <2>4. new \in Path /\ \A p \in DOMAIN data : data[p] \in Content
    BY <1>1, <1>4
  <2>5. BuffersType /\ b \in copied
    BY <1>2, <2>2
  <2> HIDE DEF old, new
  <2>6. ArchiveType(Deleted(b, {old}))
    BY <2>1, <2>3, <2>4, <2>5, RenamedArchiveType
  <2> QED BY <2>2, <2>6
<1>7. DirsType' /\ DirsFresh'
  <2>1. entry \in Listed
    BY <1>3, EntriesListedType
  <2>2. /\ DOMAIN listed = DOMAIN dir_contents
        /\ \A x \in DOMAIN listed : listed[x] \subseteq Listed
    BY <1>2, ListingTypes DEF DirsType
  <2> HIDE DEF listed, entry
  <2>3. /\ DOMAIN left = DOMAIN dir_contents
        /\ \A x \in DOMAIN left : left[x] \subseteq Listed
    BY <2>2, ListingTypes
  <2> HIDE DEF left
  <2>4. /\ DOMAIN dir_contents' = DOMAIN dir_contents
        /\ \A x \in DOMAIN dir_contents : dir_contents'[x] \subseteq Listed
    BY <1>1, <2>1, <2>3, ListingTypes
  <2> QED BY <1>1, <1>2, <2>4, DirsKept
<1>8. /\ DOMAIN path_to_inode' = (DOMAIN path_to_inode \ (over \cup {old})) \cup {new}
      /\ \A p \in DOMAIN path_to_inode' :
            path_to_inode'[p] = IF p = new THEN ino ELSE path_to_inode[p]
  BY <1>1 DEF With, Without
<1>9. /\ DOMAIN inode_to_path' = (DOMAIN inode_to_path \ overInos) \cup {ino}
      /\ \A i \in DOMAIN inode_to_path' :
            inode_to_path'[i] = IF i = ino THEN new ELSE inode_to_path[i]
  BY <1>1 DEF With, Without
<1>10. \A i \in overInos : inode_to_path[i] = new
  BY <1>2 DEF InodesSound
<1>11. over \subseteq {new}
  OBVIOUS
<1> HIDE DEF over, overInos, data, ino
<1>12. FilesType'
  BY <1>1, <1>2, <1>3, <1>8, <1>9 DEF FilesType
<1>13. FilesFresh'
  BY <1>1, <1>2, <1>3, <1>9 DEF FilesFresh
<1>14. InodesSound'
  <2>1. ASSUME NEW p \in DOMAIN path_to_inode'
        PROVE  path_to_inode'[p] \in DOMAIN inode_to_path' /\ inode_to_path'[path_to_inode'[p]] = p
    <3>1. CASE p = new
      BY <1>8, <1>9, <2>1, <3>1
    <3>2. CASE p # new
      <4>1. p \in DOMAIN path_to_inode /\ p # old /\ path_to_inode'[p] = path_to_inode[p]
        BY <1>8, <2>1, <3>2
      <4>2. path_to_inode[p] \in DOMAIN inode_to_path /\ inode_to_path[path_to_inode[p]] = p
        BY <1>2, <4>1 DEF InodesSound
      <4>3. path_to_inode[p] # ino /\ path_to_inode[p] \notin overInos
        BY <1>3, <1>10, <3>2, <4>1, <4>2
      <4> QED BY <1>9, <4>1, <4>2, <4>3
    <3> QED BY <3>1, <3>2
  <2>2. ASSUME NEW p \in DOMAIN modified_data'
        PROVE  \E i \in DOMAIN inode_to_path' : inode_to_path'[i] = p
    <3>1. CASE p = new
      BY <1>9, <3>1
    <3>2. CASE p # new
      <4>1. p \in DOMAIN modified_data /\ p # old
        BY <1>1, <1>4, <2>2, <3>2
      <4>2. PICK i \in DOMAIN inode_to_path : inode_to_path[i] = p
        BY <1>2, <4>1 DEF InodesSound
      <4>3. i # ino /\ i \notin overInos
        BY <1>3, <1>10, <3>2, <4>1, <4>2
      <4> QED BY <1>9, <4>2, <4>3
    <3> QED BY <3>1, <3>2
  <2> QED BY <2>1, <2>2 DEF InodesSound
<1> QED BY <1>1, <1>5, <1>6, <1>7, <1>12, <1>13, <1>14, Accepted

\* What a renamed directory's map has under a path, it had under another that
\* the rename takes there.
LEMMA RekeyedFrom ==
  ASSUME NEW f, NEW old, NEW new, NEW g, g = Rekeyed(f, old, new)
  PROVE  \A q \in DOMAIN g : \E p \in DOMAIN f : Moved(p, old, new) = q /\ g[q] = f[p]
<1> DEFINE under == { p \in DOMAIN f : Below(p, old) }
           to(p) == Moved(p, old, new)
           from(q) == CHOOSE p \in under : to(p) = q
<1>1. g = [q \in { to(p) : p \in DOMAIN f } |->
                IF \E p \in under : to(p) = q THEN f[from(q)] ELSE f[q]]
  BY DEF Rekeyed
<1>2. \A p \in DOMAIN f \ under : to(p) = p
  BY DEF Moved
<1>3. under \subseteq DOMAIN f
  OBVIOUS
<1> HIDE DEF under, to
<1>4. ASSUME NEW q \in { to(p) : p \in DOMAIN f }
      PROVE  \E p \in DOMAIN f : to(p) = q /\ g[q] = f[p]
  <2>1. CASE \E p \in under : to(p) = q
    <3>1. from(q) \in under /\ to(from(q)) = q
      BY <2>1
    <3>2. g[q] = f[from(q)]
      BY <1>1, <1>4, <2>1
    <3> QED BY <1>3, <3>1, <3>2
  <2>2. CASE ~\E p \in under : to(p) = q
    <3>1. PICK p \in DOMAIN f : to(p) = q
      BY <1>4
    <3>2. p = q
      BY <1>2, <2>2, <3>1
    <3>3. g[q] = f[q]
      BY <1>1, <1>4, <2>2
    <3> QED BY <3>1, <3>2, <3>3
  <2> QED BY <2>1, <2>2
<1>5. DOMAIN g = { to(p) : p \in DOMAIN f }
  BY <1>1
<1> QED BY <1>4, <1>5 DEF to

\* Everything that is below the directory moves with it, buffers too.
LEMMA RenameDirectoryKeeps ==
  ASSUME FsInv, NEW d, NEW name, NEW e, NEW to \in Names,
         Accepts, RenameDirectory(d, name, e, to)
  PROVE  FsInv'
<1> DEFINE old == Append(PathOf(d), name)
           new == Append(PathOf(e), to)
           ino == dir_inodes[old]
           i2p == [i \in DOMAIN inode_to_path |-> Moved(inode_to_path[i], old, new)]
           moved == { i \in DOMAIN inode_to_path : Below(inode_to_path[i], old) }
           stay == { p \in DOMAIN path_to_inode : ~Below(p, old) }
           buffers == modified_data'
           others == Without(dir_inodes, {old})
           dirs == Rekeyed(others, old, new)
           left == Dropped(dir_contents, d, name)
           entry == Entry(to, ino, "dir")
<1>1. /\ old \in DOMAIN dir_inodes /\ new \in Path
      /\ \A p \in DOMAIN dir_inodes : Moved(p, old, new) \in DirPath
      /\ \A i \in DOMAIN inode_to_path : i2p[i] \in Path
      /\ dir_inodes' = With(dirs, new, ino)
      /\ dir_contents' = Pushed(left, e, entry)
      /\ inode_to_path' = i2p
      /\ path_to_inode' \in [stay \cup { i2p[i] : i \in moved } -> DOMAIN inode_to_path]
      /\ \A p \in DOMAIN path_to_inode' :
            IF \E i \in moved : i2p[i] = p
            THEN path_to_inode'[p] \in moved /\ i2p[path_to_inode'[p]] = p
            ELSE path_to_inode'[p] = path_to_inode[p]
      /\ modified_data' = Rekeyed(modified_data, old, new)
      /\ \E a \in AddedOrNot(archive, new, NewNode("dir", <<>>)) :
            archive' = DeletedDir(a, old)
      /\ UNCHANGED <<mounted, attrs, next_file_ino, next_dir_ino>>
  BY DEF RenameDirectory, MovedData
<1>2. /\ ArchiveType(archive) /\ DirsType /\ DirsFresh /\ FilesType /\ FilesFresh
      /\ BuffersType /\ InodesSound
  BY FsParts
<1> HIDE DEF old, new
<1>3. ino \in DOMAIN dir_contents /\ ino \in DirIno
  BY <1>1, <1>2 DEF DirsType
<1>4. ArchiveType(archive')
  BY <1>1, <1>2, NodeTypes, ContentFacts, AddedType, DeletedDirType DEF Kind
<1>5. /\ DOMAIN others = DOMAIN dir_inodes \ {old}
      /\ \A p \in DOMAIN others : others[p] = dir_inodes[p]
  BY DEF Without
<1>6. \A q \in DOMAIN dirs : \E p \in DOMAIN others :
            Moved(p, old, new) = q /\ dirs[q] = others[p]
  <2> HIDE DEF others
  <2>1. dirs = Rekeyed(others, old, new)
    OBVIOUS
  <2> HIDE DEF dirs
  <2> QED BY <2>1, RekeyedFrom
<1> HIDE DEF others, dirs, ino
<1>7. /\ DOMAIN dir_inodes' = DOMAIN dirs \cup {new}
      /\ \A q \in DOMAIN dir_inodes' : dir_inodes'[q] = IF q = new THEN ino ELSE dirs[q]
  BY <1>1 DEF With
<1>8. /\ DOMAIN dir_contents' = DOMAIN dir_contents
      /\ \A x \in DOMAIN dir_contents : dir_contents'[x] \subseteq Listed
  <2>1. entry \in Listed
    BY <1>3, EntriesListedType
  <2>2. /\ DOMAIN left = DOMAIN dir_contents
        /\ \A x \in DOMAIN left : left[x] \subseteq Listed
    BY <1>2, ListingTypes DEF DirsType
  <2>3. dir_contents' = Pushed(left, e, entry)
    BY <1>1
  <2> HIDE DEF left, entry
  <2>4. /\ DOMAIN Pushed(left, e, entry) = DOMAIN left
        /\ \A x \in DOMAIN left : Pushed(left, e, entry)[x] \subseteq Listed
    BY <2>1, <2>2, ListingTypes
  <2> QED BY <2>2, <2>3, <2>4
<1>9. ASSUME NEW q \in DOMAIN dir_inodes', q # new
      PROVE  \E p \in DOMAIN dir_inodes \ {old} :
                q = Moved(p, old, new) /\ dir_inodes'[q] = dir_inodes[p]
  <2>1. q \in DOMAIN dirs /\ dir_inodes'[q] = dirs[q]
    BY <1>7, <1>9
  <2> QED BY <1>5, <1>6, <2>1
<1>10. DirsType'
  <2>1. ASSUME NEW q \in DOMAIN dir_inodes'
        PROVE  q \in DirPath /\ dir_inodes'[q] \in DOMAIN dir_contents
    <3>1. CASE q = new
      BY <1>1, <1>3, <1>7, <2>1, <3>1 DEF DirPath
    <3>2. CASE q # new
      BY <1>1, <1>2, <1>9, <2>1, <3>2 DEF DirsType
    <3> QED BY <3>1, <3>2
  <2> QED BY <1>1, <1>2, <1>8, <2>1 DEF DirsType
<1>11. DirsFresh'
  <2>1. ASSUME NEW q \in DOMAIN dir_inodes', NEW r \in DOMAIN dir_inodes',
               dir_inodes'[q] = dir_inodes'[r], q # new
        PROVE  q = r
    <3>1. PICK p \in DOMAIN dir_inodes \ {old} :
              q = Moved(p, old, new) /\ dir_inodes'[q] = dir_inodes[p]
      BY <1>9, <2>1
    <3>2. r # new
      BY <1>1, <1>2, <1>7, <2>1, <3>1 DEF DirsFresh, ino
    <3>3. PICK s \in DOMAIN dir_inodes \ {old} :
              r = Moved(s, old, new) /\ dir_inodes'[r] = dir_inodes[s]
      BY <1>9, <2>1, <3>2
    <3>4. p = s
      BY <1>2, <2>1, <3>1, <3>3 DEF DirsFresh
    <3> QED BY <3>1, <3>3, <3>4
  <2>2. \A q, r \in DOMAIN dir_inodes' : dir_inodes'[q] = dir_inodes'[r] => q = r
    BY <2>1
  <2>3. \A x \in DOMAIN dir_contents' : x < next_dir_ino'
    BY <1>1, <1>2, <1>8 DEF DirsFresh
  <2> QED BY <2>2, <2>3 DEF DirsFresh
<1>12. /\ DOMAIN i2p = DOMAIN inode_to_path
       /\ \A i \in DOMAIN inode_to_path : i2p[i] = Moved(inode_to_path[i], old, new)
       /\ moved \subseteq DOMAIN inode_to_path
       /\ stay \subseteq DOMAIN path_to_inode
       /\ \A p \in stay : Moved(p, old, new) = p
  BY DEF Moved
<1> HIDE DEF i2p
<1>13. FilesType' /\ FilesFresh'
  <2>1. DOMAIN path_to_inode' \subseteq Path
    BY <1>1, <1>2, <1>12 DEF FilesType
  <2> QED BY <1>1, <1>2, <1>12, <2>1 DEF FilesType, FilesFresh
<1>14. ASSUME NEW q \in DOMAIN modified_data'
       PROVE  /\ \E i \in DOMAIN inode_to_path' : inode_to_path'[i] = q
              /\ q \in Path /\ modified_data'[q] \in Content
  <2>1. PICK p \in DOMAIN modified_data :
            Moved(p, old, new) = q /\ modified_data'[q] = modified_data[p]
    <3>1. buffers = Rekeyed(modified_data, old, new) /\ q \in DOMAIN buffers
      BY <1>1, <1>14
    <3> HIDE DEF buffers
    <3>2. \A r \in DOMAIN buffers : \E p \in DOMAIN modified_data :
              Moved(p, old, new) = r /\ buffers[r] = modified_data[p]
      BY <3>1, RekeyedFrom
    <3> QED BY <3>1, <3>2 DEF buffers
  <2>2. PICK i \in DOMAIN inode_to_path : inode_to_path[i] = p
    BY <1>2 DEF InodesSound
  <2>3. i \in DOMAIN inode_to_path' /\ inode_to_path'[i] = q /\ q \in Path
    BY <1>1, <1>12, <2>1, <2>2
  <2> QED BY <1>2, <2>1, <2>3 DEF BuffersType
<1>15. BuffersType'
  BY <1>1, <1>2, <1>14 DEF BuffersType, attrs
<1>16. ASSUME NEW p \in DOMAIN path_to_inode'
       PROVE  path_to_inode'[p] \in DOMAIN inode_to_path' /\ inode_to_path'[path_to_inode'[p]] = p
  <2>1. p \in stay \cup { i2p[i] : i \in moved } /\ path_to_inode'[p] \in DOMAIN inode_to_path
    BY <1>1, <1>16
  <2>2. CASE \E i \in moved : i2p[i] = p
    BY <1>1, <1>12, <1>16, <2>1, <2>2
  <2>3. CASE ~\E i \in moved : i2p[i] = p
    <3>1. p \in stay /\ path_to_inode'[p] = path_to_inode[p]
      BY <1>1, <1>16, <2>1, <2>3
    <3>2. inode_to_path[path_to_inode[p]] = p
      BY <1>2, <1>12, <3>1 DEF InodesSound
    <3> QED BY <1>1, <1>12, <2>1, <3>1, <3>2
  <2> QED BY <2>2, <2>3
<1>17. InodesSound'
  BY <1>14, <1>16 DEF InodesSound
<1> QED BY <1>1, <1>4, <1>10, <1>11, <1>13, <1>15, <1>17, Accepted

-----------------------------------------------------------------------------
(* Mounting *)

\* The inodes that a mount gives to n things are 1 to n, each to one of them.
LEMMA NumberingFacts ==
  ASSUME NEW S, IsFiniteSet(S), NEW f, f = Numbering(S)
  PROVE  /\ Cardinality(S) \in Nat
         /\ f \in [S -> 1..Cardinality(S)]
         /\ \A x, y \in S : f[x] = f[y] => x = y
         /\ \A i \in 1..Cardinality(S) : \E x \in S : f[x] = i
<1> DEFINE n == Cardinality(S)
<1>1. n \in Nat /\ ExistsBijection(1..n, S)
  BY FS_CardinalityType
<1>2. PICK g \in Bijection(1..n, S) : TRUE
  BY <1>1 DEF ExistsBijection, n
<1> HIDE DEF n
<1>3. /\ g \in [1..n -> S]
      /\ \A i, j \in 1..n : g[i] = g[j] => i = j
      /\ \A x \in S : \E i \in 1..n : g[i] = x
  <2>1. g \in Injection(1..n, S) /\ g \in Surjection(1..n, S)
    BY <1>2 DEF Bijection
  <2> QED BY <2>1 DEF Injection, Surjection, IsInjective
<1> DEFINE h == [x \in S |-> CHOOSE i \in 1..n : g[i] = x]
<1>4. h \in [S -> 1..n] /\ \A x, y \in S : h[x] = h[y] => x = y
  <2>1. ASSUME NEW x \in S PROVE h[x] \in 1..n /\ g[h[x]] = x
    BY <1>3
  <2> QED BY <2>1
<1> HIDE DEF h
<1>5. f \in [S -> 1..n] /\ \A x, y \in S : f[x] = f[y] => x = y
  BY <1>4 DEF Numbering, Orders, n
<1>6. f \in Injection(S, 1..n)
  BY <1>5 DEF Injection, IsInjective
<1>7. IsFiniteSet(1..n) /\ Cardinality(1..n) = n
  BY <1>1, FS_Interval
<1>8. f \in Surjection(S, 1..n)
  BY <1>6, <1>7, FS_Injection DEF n
<1>9. \A i \in 1..n : \E x \in S : f[x] = i
  BY <1>8 DEF Surjection
<1> QED BY <1>1, <1>5, <1>9 DEF n

LEMMA ImageFinite ==
  ASSUME NEW S, IsFiniteSet(S), NEW f, DOMAIN f = S, f = [x \in S |-> f[x]]
  PROVE  IsFiniteSet({f[x] : x \in S})
<1> DEFINE T == {f[x] : x \in S}
<1>1. f \in Surjection(S, T)
  BY DEF Surjection
<1> QED BY <1>1, FS_Surjection

\* The directory table has finitely many rows, each with a path of Path.
LEMMA RowsFinite ==
  ASSUME NEW a, ArchiveType(a)
  PROVE  /\ IsFiniteSet(Rows(a))
         /\ \A r \in Rows(a) : r = <<r[1], r[2]>> /\ r[1] \in Path /\ r[2] \in 1..Len(a[r[1]])
<1> DEFINE at == [p \in Path |-> { <<p, k>> : k \in DOMAIN a[p] }]
<1>1. ASSUME NEW p \in Path PROVE IsFiniteSet(at[p])
  <2> DEFINE row == [k \in DOMAIN a[p] |-> <<p, k>>]
  <2>1. IsFiniteSet(DOMAIN a[p])
    <3>1. DOMAIN a[p] = 1..Len(a[p]) /\ Len(a[p]) \in Nat
      BY DEF ArchiveType
    <3>2. 1 \in Int /\ Len(a[p]) \in Int
      BY <3>1
    <3>3. IsFiniteSet(1..Len(a[p]))
      BY <3>2, FS_Interval
    <3> QED BY <3>1, <3>3
  <2>2. IsFiniteSet({ row[k] : k \in DOMAIN a[p] })
    <3>1. DOMAIN row = DOMAIN a[p] /\ row = [k \in DOMAIN a[p] |-> row[k]]
      OBVIOUS
    <3> HIDE DEF row
    <3> QED BY <2>1, <3>1, ImageFinite
  <2>3. at[p] = { row[k] : k \in DOMAIN a[p] }
    OBVIOUS
  <2> QED BY <2>2, <2>3
<1>2. IsFiniteSet({ at[p] : p \in Path })
  <2>1. DOMAIN at = Path /\ at = [p \in Path |-> at[p]]
    OBVIOUS
  <2> HIDE DEF at
  <2> QED BY <2>1, ImageFinite, BaleFsAssumption
<1>3. Rows(a) = UNION { at[p] : p \in Path }
  BY DEF Rows
<1>4. IsFiniteSet(UNION { at[p] : p \in Path })
  <2> HIDE DEF at
  <2>1. \A T \in { at[p] : p \in Path } : IsFiniteSet(T)
    BY <1>1
  <2> QED BY <1>2, <2>1, FS_UNION
<1>5. ASSUME NEW r \in Rows(a)
      PROVE  r = <<r[1], r[2]>> /\ r[1] \in Path /\ r[2] \in 1..Len(a[r[1]])
  <2>1. PICK p \in Path : r \in { <<p, k>> : k \in DOMAIN a[p] }
    BY DEF Rows
  <2>2. PICK k \in DOMAIN a[p] : r = <<p, k>>
    BY <2>1
  <2>3. DOMAIN a[p] = 1..Len(a[p])
    BY DEF ArchiveType
  <2> QED BY <2>2, <2>3
<1> QED BY <1>3, <1>4, <1>5

\* A path with a row in a table has a last one.
LEMMA GreatestMember ==
  ASSUME NEW n \in Nat, NEW S \in SUBSET (1..n), S # {}
  PROVE  \E m \in S : \A k \in S : k <= m
<1> DEFINE above == { k..n : k \in S }
<1>1. above \subseteq FiniteSubsetsOf(Nat) /\ above # {}
  <2>1. \A k \in S : IsFiniteSet(k..n) /\ k..n \subseteq Nat
    BY FS_Interval
  <2> QED BY <2>1 DEF FiniteSubsetsOf
<1>2. PICK x \in above : \A y \in above : ~(<<y, x>> \in StrictSubsetOrdering(Nat))
  <2> HIDE DEF above
  <2>1. IsWellFoundedOn(StrictSubsetOrdering(Nat), FiniteSubsetsOf(Nat))
    BY FS_StrictSubsetOrderingWellFounded
  <2> QED BY <1>1, <2>1, WFMin
<1>3. PICK m \in S : x = m..n
  OBVIOUS
<1>4. ASSUME NEW k \in S, m < k PROVE FALSE
  <2>1. k..n \in above /\ k..n \subseteq m..n /\ m \in m..n /\ m \notin k..n
    BY <1>4
  <2>2. k..n \in SUBSET Nat /\ m..n \in SUBSET Nat
    OBVIOUS
  <2>3. <<k..n, m..n>> \in StrictSubsetOrdering(Nat)
    BY <2>1, <2>2 DEF StrictSubsetOrdering
  <2> QED BY <1>2, <1>3, <2>1, <2>3
<1> QED BY <1>4

\* The inode that a path of several rows gets is its last row's.
LEMMA LastRow ==
  ASSUME NEW a, ArchiveType(a), NEW files, files \subseteq Rows(a), NEW r \in files
  PROVE  \E s \in files : s[1] = r[1] /\ \A t \in files : t[1] = r[1] => t[2] <= s[2]
<1> DEFINE p == r[1]
           at == { k \in 1..Len(a[p]) : <<p, k>> \in files }
<1>1. \A t \in files : t = <<t[1], t[2]>> /\ t[1] \in Path /\ t[2] \in 1..Len(a[t[1]])
  BY RowsFinite
<1>2. Len(a[p]) \in Nat /\ at \in SUBSET (1..Len(a[p])) /\ r[2] \in at
  BY <1>1 DEF ArchiveType
<1>3. PICK m \in at : \A k \in at : k <= m
  <2>1. at # {}
    BY <1>2
  <2> HIDE DEF at
  <2> QED BY <1>2, <2>1, GreatestMember
<1> DEFINE s == <<p, m>>
<1>4. s \in files /\ s[1] = r[1] /\ s[2] = m
  BY <1>3
<1>5. ASSUME NEW t \in files, t[1] = r[1] PROVE t[2] <= s[2]
  <2>1. t[2] \in at
    BY <1>1, <1>5
  <2> QED BY <1>3, <1>4, <2>1
<1> QED BY <1>4, <1>5

LEMMA MountKeeps ==
  ASSUME FsInv, NEW ro \in BOOLEAN, MountAs(ro)
  PROVE  FsInv'
<1> DEFINE files == RowsOf({"file", "symlink"})
           entries == RowsOf({"file", "dir", "symlink"})
           dirs == ({ r[1] : r \in RowsOf({"dir"}) } \cup UNION { Prefixes(r[1]) : r \in entries })
                   \ {RootPath}
           f == Numbering(files)
           dn == Numbering(dirs)
           d == With(dn, RootPath, Root)
           last(p) == CHOOSE r \in files : r[1] = p /\ \A t \in files : t[1] = p => t[2] <= r[2]
           nf == Cardinality(files)
           nd == Cardinality(dirs)
           under(i) == { Entry(Name(p), d[p], "dir") : p \in { q \in dirs : d[Parent(q)] = i } }
           in(i) == { Entry(Name(r[1]), f[r], archive[r[1]][r[2]].kind) :
                        r \in { t \in files : d[Parent(t[1])] = i } }
<1>1. /\ ~mounted /\ mounted' = TRUE /\ read_only' = ro
      /\ nf <= MaxFiles /\ nd <= MaxDirs
      /\ dir_inodes' = d
      /\ dir_contents' = [i \in 0..nd |-> under(i) \cup in(i)]
      /\ inode_to_path' = [i \in 1..nf |-> (CHOOSE r \in files : f[r] = i)[1]]
      /\ path_to_inode' = [p \in { r[1] : r \in files } |-> f[last(p)]]
      /\ next_file_ino' = nf + 1
      /\ next_dir_ino' = nd + 1
      /\ UNCHANGED <<archive, modified_data, attrs>>
  BY DEF MountAs, Mount
<1>2. /\ ArchiveType(archive) /\ BuffersType /\ NothingBuffered
      /\ MaxFiles \in Nat /\ MaxDirs \in Nat
  BY FsParts
<1>3. /\ files \subseteq Rows(archive) /\ entries \subseteq Rows(archive)
      /\ RowsOf({"dir"}) \subseteq Rows(archive)
      /\ \A r \in files : archive[r[1]][r[2]].kind \in {"file", "symlink"}
  BY DEF RowsOf
<1>4. \A r \in Rows(archive) : r[1] \in Path
  BY <1>2, RowsFinite
<1>5. IsFiniteSet(files)
  BY <1>2, <1>3, RowsFinite, FS_Subset
<1>6. dirs \subseteq Path /\ IsFiniteSet(dirs)
  <2>1. \A r \in entries : Prefixes(r[1]) \subseteq Path \cup {RootPath}
    BY <1>3, <1>4, BaleFsAssumption
  <2>2. { r[1] : r \in RowsOf({"dir"}) } \subseteq Path
    BY <1>3, <1>4
  <2>3. dirs \subseteq Path
    BY <2>1, <2>2
  <2> HIDE DEF dirs
  <2> QED BY <2>3, BaleFsAssumption, FS_Subset
<1>7. RootPath \notin dirs
  OBVIOUS
<1>8. f = Numbering(files) /\ dn = Numbering(dirs)
  OBVIOUS
<1> HIDE DEF files, dirs, f, dn, nf, nd
<1>9. /\ nf \in Nat /\ f \in [files -> 1..nf]
      /\ \A x, y \in files : f[x] = f[y] => x = y
      /\ \A i \in 1..nf : \E x \in files : f[x] = i
  BY <1>5, <1>8, NumberingFacts DEF nf
<1>10. nd \in Nat /\ dn \in [dirs -> 1..nd] /\ \A x, y \in dirs : dn[x] = dn[y] => x = y
  BY <1>6, <1>8, NumberingFacts DEF nd
<1>11. /\ DOMAIN d = dirs \cup {RootPath}
       /\ \A p \in DOMAIN d : d[p] \in 0..nd
       /\ \A p \in dirs : d[p] = dn[p] /\ d[p] # 0
       /\ d[RootPath] = 0
  BY <1>7, <1>10 DEF With, Root
<1> HIDE DEF d
<1>13. \A i : under(i) \subseteq Listed /\ in(i) \subseteq Listed
  <2>1. ASSUME NEW p \in dirs PROVE Entry(Name(p), d[p], "dir") \in Listed
    <3>1. Name(p) \in Names
      BY <1>6 DEF Names
    <3>2. d[p] \in DirIno
      BY <1>1, <1>2, <1>10, <1>11 DEF DirIno
    <3> QED BY <3>1, <3>2, EntriesListedType
  <2>2. ASSUME NEW r \in files PROVE Entry(Name(r[1]), f[r], archive[r[1]][r[2]].kind) \in Listed
    <3>1. Name(r[1]) \in Names
      BY <1>3, <1>4 DEF Names
    <3>2. f[r] \in FileIno
      BY <1>1, <1>2, <1>9 DEF FileIno
    <3> QED BY <1>3, <3>1, <3>2, EntriesListedType
  <2> QED BY <2>1, <2>2
<1> HIDE DEF under, in
<1>14. DirsType'
  <2>1. DOMAIN dir_inodes' \subseteq DirPath
    BY <1>1, <1>6, <1>11 DEF DirPath
  <2>2. DOMAIN dir_contents' = 0..nd /\ 0..nd \subseteq DirIno
    BY <1>1, <1>2, <1>10 DEF DirIno
  <2>3. \A i \in DOMAIN dir_contents' : dir_contents'[i] \subseteq Listed
    BY <1>1, <1>13
  <2>4. next_dir_ino' \in 1..(MaxDirs + 1)
    BY <1>1, <1>2, <1>10
  <2> QED BY <1>1, <1>11, <2>1, <2>2, <2>3, <2>4 DEF DirsType
<1>15. DirsFresh'
  <2>1. \A p, q \in DOMAIN d : d[p] = d[q] => p = q
    BY <1>10, <1>11
  <2>2. \A i \in DOMAIN dir_contents' : i < next_dir_ino'
    BY <1>1, <1>10
  <2> QED BY <1>1, <2>1, <2>2 DEF DirsFresh
<1>16. \A r \in files : (CHOOSE s \in files : f[s] = f[r]) = r
  BY <1>9
<1>17. FilesType' /\ FilesFresh'
  <2>1. \A i \in 1..nf : (CHOOSE r \in files : f[r] = i)[1] \in Path
    BY <1>3, <1>4, <1>9
  <2>2. DOMAIN inode_to_path' = 1..nf /\ 1..nf \subseteq FileIno
    BY <1>1, <1>2, <1>9 DEF FileIno
  <2>3. \A i \in DOMAIN inode_to_path' : inode_to_path'[i] \in Path
    BY <1>1, <2>1
  <2>4. DOMAIN path_to_inode' \subseteq Path
    BY <1>1, <1>3, <1>4
  <2>5. next_file_ino' \in 1..(MaxFiles + 1) /\ \A i \in 1..nf : i < next_file_ino'
    BY <1>1, <1>2, <1>9
  <2> QED BY <2>2, <2>3, <2>4, <2>5 DEF FilesType, FilesFresh
<1>18. InodesSound'
  <2>1. ASSUME NEW p \in DOMAIN path_to_inode'
        PROVE  path_to_inode'[p] \in DOMAIN inode_to_path' /\ inode_to_path'[path_to_inode'[p]] = p
    <3>1. PICK r \in files : p = r[1]
      BY <1>1, <2>1
    <3>2. PICK s \in files : s[1] = p /\ \A t \in files : t[1] = p => t[2] <= s[2]
      BY <1>2, <1>3, <3>1, LastRow
    <3>3. last(p) \in files /\ last(p)[1] = p
      BY <3>2
    <3>4. path_to_inode'[p] = f[last(p)]
      BY <1>1, <2>1
    <3> HIDE DEF last
    <3>5. f[last(p)] \in 1..nf
      BY <1>9, <3>3
    <3>6. (CHOOSE t \in files : f[t] = f[last(p)]) = last(p)
      BY <1>16, <3>3
    <3> QED BY <1>1, <3>3, <3>4, <3>5, <3>6
  <2>2. DOMAIN modified_data' = {}
    BY <1>1, <1>2 DEF NothingBuffered, NoMap
  <2> QED BY <2>1, <2>2 DEF InodesSound
<1>19. TypeOK'
  <2>1. ArchiveType(archive') /\ BuffersType' /\ mounted' \in BOOLEAN
    BY <1>1, <1>2 DEF BuffersType, attrs
  <2> QED BY <1>14, <1>17, <2>1, TypePartsNext
<1>20. InodesFresh'
  BY <1>15, <1>17 DEF InodesFresh, DirsFresh, FilesFresh
<1>21. NothingBuffered'
  BY <1>1, <1>2 DEF NothingBuffered
<1> QED BY <1>18, <1>19, <1>20, <1>21 DEF FsInv

LEMMA DestroyKeeps ==
  ASSUME FsInv, destroy
  PROVE  FsInv'
<1>1. /\ ArchiveType(archive) /\ BuffersType /\ NothingBuffered /\ mounted
      /\ MaxFiles \in Nat /\ MaxDirs \in Nat
  BY FsParts DEF destroy
<1>2. /\ ArchiveType(archive') /\ modified_data' = NoMap
      /\ modified_modes' = NoMap /\ modified_times' = {}
  <2>1. CASE read_only
    BY <1>1, <2>1 DEF destroy
  <2>2. CASE ~read_only
    <3>1. (Synced \/ SyncStops) /\ TypeOK
      BY <2>2 DEF destroy, FsInv
    <3> QED BY <3>1, SyncedType, SyncStopsType DEF destroy
  <2> QED BY <2>1, <2>2
<1>3. /\ mounted' = FALSE /\ read_only' = FALSE
      /\ dir_inodes' = NoMap /\ dir_contents' = NoMap
      /\ inode_to_path' = NoMap /\ path_to_inode' = NoMap
      /\ next_file_ino' = 1 /\ next_dir_ino' = 1
  BY DEF destroy, Dropping
<1>4. DOMAIN NoMap = {}
  BY DEF NoMap
<1>5. DirsType' /\ FilesType' /\ BuffersType'
  BY <1>1, <1>2, <1>3, <1>4 DEF DirsType, FilesType, BuffersType
<1>6. TypeOK'
  BY <1>2, <1>3, <1>5, TypePartsNext
<1>7. InodesSound' /\ InodesFresh' /\ NothingBuffered'
  BY <1>2, <1>3, <1>4 DEF InodesSound, InodesFresh, NothingBuffered, attrs
<1> QED BY <1>6, <1>7 DEF FsInv

-----------------------------------------------------------------------------
(* Every request *)

LEMMA InitKeeps ==
  ASSUME RequestInit
  PROVE  FsInv
<1>1. Empty /\ archive \in Archives /\ read_only = FALSE
  BY DEF RequestInit, Init
<1>2. ArchiveType(archive) /\ MaxFiles \in Nat /\ MaxDirs \in Nat
  BY <1>1, BaleFsAssumption DEF ArchiveType
<1>3. DOMAIN NoMap = {}
  BY DEF NoMap
<1>4. DirsType /\ FilesType /\ BuffersType
  BY <1>1, <1>2, <1>3 DEF Empty, DirsType, FilesType, BuffersType
<1>5. TypeOK
  BY <1>1, <1>2, <1>4, TypeParts DEF Empty
<1>6. InodesSound /\ InodesFresh /\ NothingBuffered
  BY <1>1, <1>3 DEF Empty, InodesSound, InodesFresh, NothingBuffered, attrs
<1> QED BY <1>5, <1>6 DEF FsInv

LEMMA StutterKeeps ==
  ASSUME FsInv, UNCHANGED requestVars
  PROVE  FsInv'
<1>1. UNCHANGED <<mounted, archive, dir_inodes, dir_contents, inode_to_path, path_to_inode,
                  next_file_ino, next_dir_ino, modified_data, modified_modes, modified_times,
                  read_only>>
  BY DEF requestVars, vars, tree, attrs
<1>2. ArchiveType(archive) /\ DirsType /\ FilesType /\ BuffersType /\ mounted \in BOOLEAN
  BY FsParts
<1>3. ArchiveType(archive') /\ DirsType' /\ FilesType' /\ BuffersType' /\ mounted' \in BOOLEAN
  BY <1>1, <1>2 DEF DirsType, FilesType, BuffersType
<1>4. TypeOK'
  BY <1>3, TypePartsNext
<1>5. InodesSound' /\ InodesFresh' /\ NothingBuffered'
  BY <1>1 DEF FsInv, InodesSound, InodesFresh, NothingBuffered, attrs
<1> QED BY <1>4, <1>5 DEF FsInv

LEMMA RequestKeeps ==
  ASSUME FsInv, RequestNext
  PROVE  FsInv'
<1>1. CASE \E ro \in BOOLEAN : MountAs(ro)
  BY <1>1, MountKeeps
<1>2. CASE flush
  BY <1>2, FlushKeeps
<1>3. CASE destroy
  BY <1>3, DestroyKeeps
<1>4. ASSUME NEW d \in DirIno, NEW name \in Names,
             \/ mkdir(d, name) \/ rmdir(d, name) \/ create(d, name)
             \/ symlink(d, name) \/ unlink(d, name)
             \/ \E e \in DirIno, to \in Names : rename(d, name, e, to)
      PROVE  FsInv'
  <2>1. CASE mkdir(d, name)
    BY <2>1, CreateDirectoryKeeps DEF mkdir
  <2>2. CASE rmdir(d, name)
    BY <2>2, RemoveDirectoryKeeps
  <2>3. CASE create(d, name)
    <3>1. /\ Accepts /\ NewInode(d, name, "file")
          /\ modified_data' = With(modified_data, Append(PathOf(d), name), <<>>)
      BY <2>3 DEF create, CreateFile
    <3> QED BY <3>1, NewInodeKeeps
  <2>4. CASE symlink(d, name)
    <3>1. Accepts /\ NewInode(d, name, "symlink") /\ UNCHANGED modified_data
      BY <2>4 DEF symlink, CreateSymlink
    <3> QED BY <3>1, NewInodeKeeps
  <2>5. CASE unlink(d, name)
    BY <2>5, RemoveFileKeeps
  <2>6. ASSUME NEW e \in DirIno, NEW to \in Names, rename(d, name, e, to)
        PROVE  FsInv'
    BY <2>6, RenameFileKeeps, RenameDirectoryKeeps DEF rename
  <2> QED BY <1>4, <2>1, <2>2, <2>3, <2>4, <2>5, <2>6
<1>5. ASSUME NEW i \in FileIno,
             \/ \E offset \in 0..MaxFileSize, b \in Byte : write(i, offset, b)
             \/ \E n \in 0..MaxFileSize : setattr_size(i, n)
      PROVE  FsInv'
  BY <1>5, WriteKeeps, TruncateKeeps DEF write, setattr_size
<1>6. ASSUME NEW p \in AttrPath, setattr_mode(p) \/ setattr_time(p)
      PROVE  FsInv'
  BY <1>6, SetAttrKeeps
<1> QED BY <1>1, <1>2, <1>3, <1>4, <1>5, <1>6 DEF RequestNext

\* Through every request, however it fails, the maps of a mount keep their
\* types, the two maps of files agree and what is buffered has an inode, and no
\* inode is given out twice: what the handlers of bale_fs.rs rely on between
\* two requests.
THEOREM FsInvariance == Spec => []FsInv
<1>1. RequestInit => FsInv
  BY InitKeeps
<1>2. FsInv /\ [RequestNext]_requestVars => FsInv'
  BY RequestKeeps, StutterKeeps
<1> QED BY <1>1, <1>2, PTL DEF Spec

\* The maps and the buffers of every mount have their types: rows and buffered
\* modes have a kind whatever get_file_mode finds, and no listing or map has an
\* inode or a path that was never given out.
THEOREM FsTypes == Spec => []TypeOK
<1>1. FsInv => TypeOK
  BY DEF FsInv
<1> QED BY <1>1, FsInvariance, PTL

\* path_to_inode and inode_to_path tell one story, and a buffer is never left
\* behind under a path that no inode has, through every rename.
THEOREM InodesAlwaysSound == Spec => []InodesSound
<1>1. FsInv => InodesSound
  BY DEF FsInv
<1> QED BY <1>1, FsInvariance, PTL

\* A mount that is read-only leaves the archive and its own state as they are:
\* every handler that changes something checks read_only first.
THEOREM ReadOnlyChangesNothing == Spec => ReadOnlyKept
<1>1. FsInv /\ [RequestNext]_requestVars
      => [read_only => archive' = archive /\ (mounted' => UNCHANGED vars)]_requestVars
  <2> SUFFICES ASSUME FsInv, RequestNext, read_only
               PROVE  archive' = archive /\ (mounted' => UNCHANGED vars)
    OBVIOUS
  <2>1. mounted
    BY DEF FsInv, NothingBuffered
  <2>2. ~Accepts
    BY DEF Accepts
  <2>3. ~\E ro \in BOOLEAN : MountAs(ro)
    BY <2>1 DEF MountAs, Mount
  <2>4. destroy
    BY <2>2, <2>3 DEF RequestNext, flush, mkdir, rmdir, create, symlink, unlink, rename,
                      write, setattr_size, setattr_mode, setattr_time
  <2> QED BY <2>4 DEF destroy, Dropping
<1> QED BY <1>1, FsInvariance, PTL DEF Spec, ReadOnlyKept

-----------------------------------------------------------------------------
(* Lengths *)

\* What may be stored or buffered if nothing is extended beyond the limit.
Fits == { c \in Content : Len(c) <= MaxFileSize \/ Len(c) \in Lengths }

FitsIn(a) == \A p \in Path : \A k \in DOMAIN a[p] : a[p][k].data \in Fits

DataFits(data) == \A p \in DOMAIN data : data[p] \in Fits

LEMMA FitsBefore ==
  ASSUME TypeOK
  PROVE  ArchiveType(archive) /\ FitsIn(archive) /\ DataFits(modified_data)
<1>1. ArchiveType(archive) /\ BuffersType
  BY TypeParts
<1>2. ASSUME NEW p \in Path, NEW k \in DOMAIN archive[p]
      PROVE  archive[p][k].data \in Fits
  <2>1. archive[p][k] \in Node
    BY <1>1, <1>2 DEF ArchiveType
  <2>2. <<p, k>> \in Rows(archive)
    BY <1>2 DEF Rows
  <2>3. Len(archive[<<p, k>>[1]][<<p, k>>[2]].data) \in Lengths
    BY <2>2 DEF Lengths
  <2> QED BY <2>1, <2>3 DEF Fits, Node
<1>3. DataFits(modified_data)
  BY <1>1 DEF DataFits, BuffersType, Fits, Lengths
<1> QED BY <1>1, <1>2, <1>3 DEF FitsIn

LEMMA FitsAfter ==
  ASSUME FitsIn(archive'), DataFits(modified_data')
  PROVE  \A n \in Lengths' : n <= MaxFileSize \/ n \in Lengths
<1>1. ASSUME NEW r \in Rows(archive')
      PROVE  archive'[r[1]][r[2]].data \in Fits
  <2>1. PICK p \in Path : \E k \in DOMAIN archive'[p] : r = <<p, k>>
    BY <1>1 DEF Rows
  <2> QED BY <2>1 DEF FitsIn
<1> QED BY <1>1 DEF Lengths, Fits, DataFits

LEMMA EmptyFits == <<>> \in Fits
BY ContentFacts, BaleFsAssumption DEF Fits

\* A length up to the limit is one that is asked for in a write or truncate.
LEMMA LimitFits ==
  ASSUME NEW c \in Content, Len(c) <= MaxFileSize
  PROVE  c \in Fits
BY DEF Fits

LEMMA DeletedFits ==
  ASSUME NEW a, FitsIn(a), NEW P
  PROVE  FitsIn(Deleted(a, P)) /\ \A p : FitsIn(DeletedDir(a, p))
<1>1. ASSUME NEW Q PROVE FitsIn(Deleted(a, Q))
  <2> DEFINE cut == { Cut(p) : p \in Q }
             gone == LinksOf(a, cut)
             left(q) == [k \in DOMAIN a[q] |-> IF a[q][k].link \in gone THEN Dangling ELSE a[q][k]]
  <2>1. Deleted(a, Q) = [q \in Path |-> IF q \in cut THEN <<>> ELSE left(q)]
    BY DEF Deleted
  <2> HIDE DEF gone
  <2>2. ASSUME NEW q \in Path, NEW k \in DOMAIN left(q) PROVE left(q)[k].data \in Fits
    BY <2>2, EmptyFits DEF FitsIn, Dangling
  <2>3. DOMAIN <<>> = {}
    OBVIOUS
  <2> HIDE DEF cut, left
  <2> QED BY <2>1, <2>2, <2>3 DEF FitsIn
<1> QED BY <1>1 DEF DeletedDir

LEMMA AddedFits ==
  ASSUME NEW a, ArchiveType(a), FitsIn(a), NEW p \in Path, NEW node, node.data \in Fits,
         NEW b \in AddedOrNot(a, p, node)
  PROVE  FitsIn(b)
<1>1. a[p] \in Seq(Node) /\ DOMAIN a = Path
  BY DEF ArchiveType
<1> DEFINE c == Append(a[p], node)
<1>2. ASSUME NEW k \in DOMAIN c PROVE c[k].data \in Fits
  <2>1. (k \in DOMAIN a[p] /\ c[k] = a[p][k]) \/ c[k] = node
    BY <1>1, <1>2
  <2> QED BY <2>1 DEF FitsIn
<1>3. Added(a, p, node) = [a EXCEPT ![p] = c]
  BY DEF Added
<1> HIDE DEF c
<1>4. FitsIn(Added(a, p, node))
  BY <1>1, <1>2, <1>3 DEF FitsIn
<1> QED BY <1>4 DEF AddedOrNot

LEMMA RewrittenFits ==
  ASSUME NEW a, FitsIn(a), NEW order, NEW gone, NEW data,
         \A q \in DOMAIN order : data[q] \in Fits
  PROVE  FitsIn(Rewritten(a, order, gone, data))
<1> DEFINE node(q) == NewNode(ModeKind(Deleted(a, Earlier(order, q)), q), data[q])
           left == Deleted(a, DOMAIN order \cup gone)
<1>1. Rewritten(a, order, gone, data) =
        [q \in Path |-> IF q \in DOMAIN order /\ q \notin { Cut(p) : p \in gone }
                        THEN <<node(q)>> ELSE left[q]]
  BY DEF Rewritten
<1>2. \A q \in DOMAIN order : node(q).data \in Fits
  BY DEF NewNode
<1> HIDE DEF node
<1>3. \A q \in DOMAIN order : \A k \in DOMAIN <<node(q)>> : <<node(q)>>[k].data \in Fits
  BY <1>2
<1>4. FitsIn(left)
  BY DeletedFits
<1> HIDE DEF left
<1> QED BY <1>1, <1>3, <1>4 DEF FitsIn

LEMMA FileDataFits ==
  ASSUME NEW a, ArchiveType(a), FitsIn(a), NEW p, IsFile(a, p)
  PROVE  FileData(a, p) \in Fits
<1>1. Cut(p) \in Path /\ a[Cut(p)] \in Seq(Node) /\ a[Cut(p)] # <<>>
  BY DEF IsFile, HasEntry, ArchiveType
<1>2. 1 \in DOMAIN a[Cut(p)]
  BY <1>1
<1> QED BY <1>1, <1>2 DEF FileData, FitsIn

LEMMA ReadFits ==
  ASSUME TypeOK, NEW i, CanRead(i)
  PROVE  Data(i) \in Fits
BY FitsBefore, FileDataFits DEF CanRead, Data, DataFits

LEMMA RedoneFits ==
  ASSUME NEW a, ArchiveType(a), FitsIn(a), NEW order, CanRedo(a, order)
  PROVE  FitsIn(Redone(a, order))
<1> DEFINE data == [p \in DOMAIN order |-> FileData(a, p)]
<1>1. \A p \in DOMAIN order : data[p] \in Fits
  BY DeletedFile, FileDataFits DEF CanRedo
<1> HIDE DEF data
<1>2. FitsIn(Rewritten(a, order, {}, data))
  BY <1>1, RewrittenFits
<1> QED BY <1>2 DEF Redone, data

LEMMA DataStoredFits ==
  ASSUME TypeOK, NEW first \in Orders(DOMAIN modified_data)
  PROVE  ArchiveType(DataStored(archive, first)) /\ FitsIn(DataStored(archive, first))
<1>1. \A q \in DOMAIN first : modified_data[q] \in Fits
  BY FitsBefore, OrderOf DEF DataFits
<1> QED BY <1>1, FitsBefore, DataStoredType, RewrittenFits DEF DataStored

LEMMA SyncFits ==
  ASSUME TypeOK, Synced \/ SyncStops
  PROVE  FitsIn(archive')
<1>1. CASE Synced
  BY <1>1, DataStoredFits, RedoneFits DEF Synced
<1>2. ASSUME NEW p \in DOMAIN modified_data,
             NEW done \in SUBSET { q \in DOMAIN modified_data : q # p /\ Storable(q) },
             NEW order \in Orders(done),
             archive' = Rewritten(archive, order, {p}, modified_data)
      PROVE  FitsIn(archive')
  <2>1. FitsIn(archive) /\ \A q \in DOMAIN order : modified_data[q] \in Fits
    BY FitsBefore, OrderOf DEF DataFits
  <2> QED BY <1>2, <2>1, RewrittenFits
<1>3. ASSUME NEW first \in Orders(DOMAIN modified_data),
             NEW done \in SUBSET AttrsOnly, NEW then \in Orders(done),
             CanRedo(DataStored(archive, first), then),
             LET a == Redone(DataStored(archive, first), then)
             IN  \/ \E p \in AttrsOnly \ done :
                        archive' = IF IsFile(a, p) THEN Deleted(a, {p}) ELSE a
                 \/ done = AttrsOnly /\ archive' = a
      PROVE  FitsIn(archive')
  <2> DEFINE a == Redone(DataStored(archive, first), then)
  <2>1. FitsIn(a)
    BY <1>3, DataStoredFits, RedoneFits
  <2>2. (\E p \in AttrsOnly \ done : archive' = IF IsFile(a, p) THEN Deleted(a, {p}) ELSE a)
        \/ archive' = a
    BY <1>3
  <2> HIDE DEF a
  <2> QED BY <2>1, <2>2, DeletedFits
<1> QED BY <1>1, <1>2, <1>3 DEF SyncStops

LEMMA WriteFits ==
  ASSUME TypeOK, NEW i, NEW offset \in 0..MaxFileSize, NEW b \in Byte, Write(i, offset, b)
  PROVE  DataFits(modified_data')
<1> DEFINE size == IF offset < Len(Data(i)) THEN Len(Data(i)) ELSE offset + 1
           written == [Resized(Data(i), size) EXCEPT ![offset + 1] = b]
<1>1. /\ CanRead(i)
      /\ modified_data' = IF offset >= MaxFileSize
                          THEN With(modified_data, inode_to_path[i], Data(i))
                          ELSE With(modified_data, inode_to_path[i], written)
  BY DEF Write, Load
<1>2. Data(i) \in Content /\ Len(Data(i)) \in Nat /\ Data(i) \in Fits
  BY <1>1, DataType, ReadFits, ContentFacts
<1>3. ASSUME ~(offset >= MaxFileSize) PROVE written \in Fits
  <2>1. MaxFileSize \in Nat
    BY BaleFsAssumption
  <2>2. size \in Nat /\ offset + 1 \in 1..size /\ (size = Len(Data(i)) \/ size <= MaxFileSize)
    BY <1>2, <1>3, <2>1
  <2> HIDE DEF size
  <2>3. written \in Content /\ Len(written) = size
    BY <1>2, <2>2, ResizedType
  <2> QED BY <1>2, <2>2, <2>3 DEF Fits
<1> HIDE DEF written
<1>4. DataFits(modified_data)
  BY FitsBefore
<1> QED BY <1>1, <1>2, <1>3, <1>4 DEF DataFits, With

LEMMA TruncateFits ==
  ASSUME TypeOK, NEW i, NEW n \in 0..MaxFileSize, Truncate(i, n)
  PROVE  DataFits(modified_data')
<1>1. CanRead(i) /\ modified_data' = With(modified_data, inode_to_path[i], Resized(Data(i), n))
  BY DEF Truncate
<1>2. Resized(Data(i), n) \in Content /\ Len(Resized(Data(i), n)) = n /\ n <= MaxFileSize
  BY <1>1, DataType, ResizedType
<1>3. Resized(Data(i), n) \in Fits
  BY <1>2, LimitFits
<1> QED BY <1>1, <1>3, FitsBefore DEF DataFits, With

LEMMA NewInodeFits ==
  ASSUME TypeOK, NEW d, NEW name, NEW kind, NewInode(d, name, kind)
  PROVE  FitsIn(archive')
<1> DEFINE p == Append(PathOf(d), name)
<1>1. p \in Path /\ archive' \in AddedOrNot(archive, p, NewNode(kind, <<>>))
  BY DEF NewInode, IsNew
<1> HIDE DEF p
<1>2. NewNode(kind, <<>>).data \in Fits
  BY EmptyFits DEF NewNode
<1> QED BY <1>1, <1>2, FitsBefore, AddedFits

LEMMA CreateDirectoryFits ==
  ASSUME TypeOK, NEW d, NEW name, CreateDirectory(d, name)
  PROVE  FitsIn(archive')
<1> DEFINE p == Append(PathOf(d), name)
<1>1. p \in Path /\ archive' \in AddedOrNot(archive, p, NewNode("dir", <<>>))
  BY DEF CreateDirectory, IsNew
<1> HIDE DEF p
<1>2. NewNode("dir", <<>>).data \in Fits
  BY EmptyFits DEF NewNode
<1> QED BY <1>1, <1>2, FitsBefore, AddedFits

LEMMA RenameFileFits ==
  ASSUME TypeOK, NEW d, NEW name, NEW e, NEW to, RenameFile(d, name, e, to)
  PROVE  FitsIn(archive') /\ DataFits(modified_data')
<1> DEFINE old == Append(PathOf(d), name)
           new == Append(PathOf(e), to)
           over == {new} \cap DOMAIN path_to_inode
           kept == Without(modified_data, over)
           data == IF old \in DOMAIN kept THEN With(Without(kept, {old}), new, kept[old])
                   ELSE kept
           a == Deleted(archive, over)
           copied == IF IsFile(a, old) THEN AddedOrNot(a, new, NewNode(ModeKind(a, old), FileData(a, old)))
                     ELSE IF new \in DOMAIN data
                     THEN AddedOrNot(a, new, NewNode("file", data[new]))
                     ELSE {a}
<1>1. /\ new \in Path
      /\ modified_data' = data
      /\ \E b \in copied : archive' = Deleted(b, {old})
  BY DEF RenameFile
<1> HIDE DEF old, new, over
<1>2. DataFits(kept)
  BY FitsBefore DEF DataFits, Without
<1> HIDE DEF kept
<1>3. DataFits(data)
  BY <1>2 DEF DataFits, With, Without
<1> HIDE DEF data
<1>4. ArchiveType(a) /\ FitsIn(a)
  BY FitsBefore, DeletedType, DeletedFits
<1> HIDE DEF a
<1>5. PICK b \in copied : archive' = Deleted(b, {old})
  BY <1>1
<1>6. FitsIn(b)
  <2>1. CASE IsFile(a, old)
    <3>1. NewNode(ModeKind(a, old), FileData(a, old)).data \in Fits
      BY <1>4, <2>1, FileDataFits DEF NewNode
    <3> QED BY <1>1, <1>4, <1>5, <2>1, <3>1, AddedFits
  <2>2. CASE ~IsFile(a, old) /\ new \in DOMAIN data
    <3>1. NewNode("file", data[new]).data \in Fits
      BY <1>3, <2>2 DEF NewNode, DataFits
    <3> QED BY <1>1, <1>4, <1>5, <2>2, <3>1, AddedFits
  <2>3. CASE ~IsFile(a, old) /\ new \notin DOMAIN data
    BY <1>4, <1>5, <2>3
  <2> QED BY <2>1, <2>2, <2>3
<1> HIDE DEF copied
<1> QED BY <1>1, <1>3, <1>5, <1>6, DeletedFits

LEMMA RenameDirectoryFits ==
  ASSUME TypeOK, NEW d, NEW name, NEW e, NEW to, RenameDirectory(d, name, e, to)
  PROVE  FitsIn(archive') /\ DataFits(modified_data')
<1> DEFINE old == Append(PathOf(d), name)
           new == Append(PathOf(e), to)
           buffers == modified_data'
<1>1. /\ new \in Path
      /\ buffers = Rekeyed(modified_data, old, new)
      /\ \E a \in AddedOrNot(archive, new, NewNode("dir", <<>>)) :
            archive' = DeletedDir(a, old)
  BY DEF RenameDirectory, MovedData
<1> HIDE DEF old, new
<1>2. PICK a \in AddedOrNot(archive, new, NewNode("dir", <<>>)) : archive' = DeletedDir(a, old)
  BY <1>1
<1>3. FitsIn(a)
  <2>1. NewNode("dir", <<>>).data \in Fits
    BY EmptyFits DEF NewNode
  <2> QED BY <1>1, <1>2, <2>1, FitsBefore, AddedFits
<1>4. FitsIn(archive')
  BY <1>2, <1>3, DeletedFits
<1> HIDE DEF buffers
<1>5. \A q \in DOMAIN buffers : \E p \in DOMAIN modified_data : buffers[q] = modified_data[p]
  BY <1>1, RekeyedFrom
<1>6. DataFits(buffers)
  BY <1>5, FitsBefore DEF DataFits
<1> QED BY <1>4, <1>6 DEF buffers

LEMMA RequestFits ==
  ASSUME TypeOK, RequestNext
  PROVE  FitsIn(archive') /\ DataFits(modified_data')
<1>1. FitsIn(archive) /\ DataFits(modified_data) /\ DataFits(NoMap)
  BY FitsBefore DEF DataFits, NoMap
<1>2. CASE \E ro \in BOOLEAN : MountAs(ro)
  BY <1>1, <1>2 DEF MountAs, Mount
<1>3. CASE flush
  <2>1. CASE Synced
    BY <1>1, <2>1, SyncFits DEF Synced
  <2>2. CASE SyncFails
    BY <1>1, <2>2, SyncFits DEF SyncFails
  <2> QED BY <1>3, <2>1, <2>2 DEF flush
<1>4. CASE destroy
  BY <1>1, <1>4, SyncFits DEF destroy
<1>5. ASSUME NEW d \in DirIno, NEW name \in Names,
             \/ mkdir(d, name) \/ rmdir(d, name) \/ create(d, name)
             \/ symlink(d, name) \/ unlink(d, name)
             \/ \E e \in DirIno, to \in Names : rename(d, name, e, to)
      PROVE  FitsIn(archive') /\ DataFits(modified_data')
  <2>1. CASE mkdir(d, name)
    BY <1>1, <2>1, CreateDirectoryFits DEF mkdir, CreateDirectory
  <2>2. CASE rmdir(d, name)
    BY <1>1, <2>2, DeletedFits DEF rmdir, RemoveDirectory
  <2>3. CASE create(d, name)
    <3>1. NewInode(d, name, "file")
          /\ modified_data' = With(modified_data, Append(PathOf(d), name), <<>>)
      BY <2>3 DEF create, CreateFile
    <3>2. DataFits(modified_data')
      BY <1>1, <3>1, EmptyFits DEF DataFits, With
    <3> QED BY <3>1, <3>2, NewInodeFits
  <2>4. CASE symlink(d, name)
    BY <1>1, <2>4, NewInodeFits DEF symlink, CreateSymlink
  <2>5. CASE unlink(d, name)
    <3>1. /\ modified_data' = Without(modified_data, {Append(PathOf(d), name)})
          /\ archive' = Deleted(archive, {Append(PathOf(d), name)})
      BY <2>5 DEF unlink, RemoveFile
    <3>2. DataFits(modified_data')
      BY <1>1, <3>1 DEF DataFits, Without
    <3> QED BY <1>1, <3>1, <3>2, DeletedFits
  <2>6. ASSUME NEW e \in DirIno, NEW to \in Names, rename(d, name, e, to)
        PROVE  FitsIn(archive') /\ DataFits(modified_data')
    BY <2>6, RenameFileFits, RenameDirectoryFits DEF rename
  <2> QED BY <1>5, <2>1, <2>2, <2>3, <2>4, <2>5, <2>6
<1>6. ASSUME NEW i \in FileIno,
             \/ \E offset \in 0..MaxFileSize, b \in Byte : write(i, offset, b)
             \/ \E n \in 0..MaxFileSize : setattr_size(i, n)
      PROVE  FitsIn(archive') /\ DataFits(modified_data')
  <2>1. archive' = archive
    BY <1>6 DEF write, Write, setattr_size, Truncate
  <2> QED BY <1>1, <1>6, <2>1, WriteFits, TruncateFits DEF write, setattr_size
<1>7. ASSUME NEW p \in AttrPath, setattr_mode(p) \/ setattr_time(p)
      PROVE  FitsIn(archive') /\ DataFits(modified_data')
  BY <1>1, <1>7 DEF setattr_mode, setattr_time, SetMode, SetTime
<1> QED BY <1>2, <1>3, <1>4, <1>5, <1>6, <1>7 DEF RequestNext

\* No request makes a file of a length above MaxFileSize that nothing had, in a
\* buffer or in the archive: write and setattr check the limit, and what they
\* and a sync or a rename take over whole was as long before.
THEOREM NothingIsExtended == Spec => NoneExtended
<1>1. FsInv /\ [RequestNext]_requestVars
      => [\A n \in Lengths' : n <= MaxFileSize \/ n \in Lengths]_vars
  <2>1. CASE FsInv /\ RequestNext
    BY <2>1, RequestFits, FitsAfter DEF FsInv
  <2>2. CASE UNCHANGED requestVars
    BY <2>2 DEF requestVars
  <2> QED BY <2>1, <2>2
<1> QED BY <1>1, FsInvariance, PTL DEF Spec, NoneExtended

-----------------------------------------------------------------------------
(* Paths and what is below them *)

LEMMA SameElements ==
  ASSUME NEW S, NEW p \in Seq(S), NEW q \in Seq(S), Len(p) = Len(q),
         \A k \in 1..Len(p) : p[k] = q[k]
  PROVE  p = q
OBVIOUS

LEMMA BelowElements ==
  ASSUME NEW S, NEW p \in Seq(S), NEW q \in Seq(S)
  PROVE  Below(p, q) <=> Len(p) > Len(q) /\ \A k \in 1..Len(q) : p[k] = q[k]
<1>1. Len(p) \in Nat /\ Len(q) \in Nat
  OBVIOUS
<1>2. ASSUME Len(p) > Len(q)
      PROVE  /\ SubSeq(p, 1, Len(q)) \in Seq(S) /\ Len(SubSeq(p, 1, Len(q))) = Len(q)
             /\ \A k \in 1..Len(q) : SubSeq(p, 1, Len(q))[k] = p[k]
  BY <1>1, <1>2
<1>3. ASSUME Len(p) > Len(q), \A k \in 1..Len(q) : p[k] = q[k]
      PROVE  SubSeq(p, 1, Len(q)) = q
  <2> DEFINE s == SubSeq(p, 1, Len(q))
  <2>1. s \in Seq(S) /\ Len(s) = Len(q) /\ \A k \in 1..Len(s) : s[k] = q[k]
    BY <1>2, <1>3
  <2> HIDE DEF s
  <2> QED BY <2>1, SameElements DEF s
<1> QED BY <1>2, <1>3 DEF Below

LEMMA BelowAppend ==
  ASSUME NEW S, NEW p \in Seq(S), NEW q \in Seq(S), NEW n \in S
  PROVE  Below(Append(p, n), q) <=> (q = p \/ Below(p, q))
<1> DEFINE a == Append(p, n)
<1>1. /\ a \in Seq(S) /\ Len(a) = Len(p) + 1 /\ \A k \in 1..Len(p) : a[k] = p[k]
      /\ Len(p) \in Nat /\ Len(q) \in Nat
  OBVIOUS
<1> HIDE DEF a
<1>2. ASSUME q = p \/ Below(p, q) PROVE Below(a, q)
  BY <1>1, <1>2, BelowElements
<1>3. ASSUME Below(a, q) PROVE q = p \/ Below(p, q)
  <2>1. Len(a) > Len(q) /\ \A k \in 1..Len(q) : a[k] = q[k]
    BY <1>1, <1>3, BelowElements
  <2>2. Len(q) <= Len(p) /\ \A k \in 1..Len(q) : p[k] = q[k]
    BY <1>1, <2>1
  <2>3. CASE Len(q) = Len(p)
    BY <2>2, <2>3, SameElements
  <2>4. CASE Len(q) # Len(p)
    BY <1>1, <2>2, <2>4, BelowElements
  <2> QED BY <2>3, <2>4
<1> QED BY <1>2, <1>3 DEF a

LEMMA BelowTransitive ==
  ASSUME NEW S, NEW p \in Seq(S), NEW q \in Seq(S), NEW r \in Seq(S), Below(p, q), Below(q, r)
  PROVE  Below(p, r) /\ ~Below(q, p) /\ p # q
<1>1. Len(p) \in Nat /\ Len(q) \in Nat /\ Len(r) \in Nat
  OBVIOUS
<1>2. /\ Len(p) > Len(q) /\ \A k \in 1..Len(q) : p[k] = q[k]
      /\ Len(q) > Len(r) /\ \A k \in 1..Len(r) : q[k] = r[k]
  BY BelowElements
<1>3. \A k \in 1..Len(r) : p[k] = r[k]
  BY <1>1, <1>2
<1> QED BY <1>1, <1>2, <1>3, BelowElements

LEMMA BelowNext ==
  ASSUME NEW S, NEW p \in Seq(S), NEW q \in Seq(S), Below(p, q)
  PROVE  \E n \in S : p = Append(q, n) \/ Below(p, Append(q, n))
<1>1. Len(p) \in Nat /\ Len(q) \in Nat
  OBVIOUS
<1>2. Len(p) > Len(q) /\ \A k \in 1..Len(q) : p[k] = q[k]
  BY BelowElements
<1> DEFINE n == p[Len(q) + 1]
           a == Append(q, n)
<1>3. n \in S
  BY <1>1, <1>2
<1>4. a \in Seq(S) /\ Len(a) = Len(q) + 1 /\ \A k \in 1..Len(q) : a[k] = q[k]
  BY <1>3
<1>5. a[Len(q) + 1] = n
  BY <1>3
<1> HIDE DEF a
<1>6. \A k \in 1..Len(a) : p[k] = a[k]
  BY <1>1, <1>2, <1>4, <1>5
<1>7. CASE Len(p) = Len(a)
  BY <1>3, <1>4, <1>6, <1>7, SameElements DEF a
<1>8. CASE Len(p) # Len(a)
  <2>1. Len(p) > Len(a)
    BY <1>1, <1>2, <1>4, <1>8
  <2>2. Below(p, a)
    BY <1>4, <1>6, <2>1, BelowElements
  <2> QED BY <1>3, <2>2 DEF a
<1> QED BY <1>7, <1>8

LEMMA PathsAreSeqs == \A p \in DirPath : p \in Seq(Names)
<1>1. \A p \in Path : p \in Seq(Names)
  BY BaleFsAssumption
<1>2. RootPath \in Seq(Names)
  BY DEF RootPath
<1> QED BY <1>1, <1>2 DEF DirPath

-----------------------------------------------------------------------------
(* A path after the rename of a directory *)

Within(p, old) == p = old \/ Below(p, old)

\* Where a path is after old was renamed to new: old itself, or one below it.
Put(p, old, new) == IF p = old THEN new ELSE Moved(p, old, new)

\* q is p with new for old.
IsPut(p, q, old, new) ==
    /\ Len(p) >= Len(old) /\ Len(q) = Len(new) + Len(p) - Len(old)
    /\ \A k \in 1..Len(old) : p[k] = old[k]
    /\ \A k \in 1..Len(new) : q[k] = new[k]
    /\ \A k \in 1..(Len(p) - Len(old)) : q[Len(new) + k] = p[Len(old) + k]

LEMMA PutElements ==
  ASSUME NEW S, NEW p \in Seq(S), NEW old \in Seq(S), NEW new \in Seq(S), Within(p, old)
  PROVE  Put(p, old, new) \in Seq(S) /\ IsPut(p, Put(p, old, new), old, new)
<1> DEFINE q == Put(p, old, new)
           n == Len(old)
           m == Len(new)
           tail == SubSeq(p, n + 1, Len(p))
<1>1. n \in Nat /\ m \in Nat /\ Len(p) \in Nat
  OBVIOUS
<1>2. CASE p = old
  <2>1. q = new
    BY <1>2 DEF Put
  <2> QED BY <1>1, <1>2, <2>1 DEF IsPut
<1>3. CASE p # old
  <2>1. Below(p, old)
    BY <1>3 DEF Within
  <2>2. q = new \o tail
    BY <1>3, <2>1 DEF Put, Moved
  <2>3. Len(p) > n /\ \A k \in 1..n : p[k] = old[k]
    BY <2>1, BelowElements
  <2>4. /\ tail \in Seq(S) /\ Len(tail) = Len(p) - n
        /\ \A k \in 1..(Len(p) - n) : tail[k] = p[n + k]
    BY <1>1, <2>3
  <2> HIDE DEF tail, q
  <2>5. /\ q \in Seq(S) /\ Len(q) = m + Len(tail)
        /\ \A k \in 1..(m + Len(tail)) : q[k] = IF k <= m THEN new[k] ELSE tail[k - m]
    BY <2>2, <2>4, ConcatProperties
  <2>6. ASSUME NEW k \in 1..m PROVE q[k] = new[k]
    <3>1. k \in 1..(m + Len(tail)) /\ k <= m
      BY <1>1, <2>4
    <3> QED BY <2>5, <3>1
  <2>7. ASSUME NEW k \in 1..(Len(p) - n) PROVE q[m + k] = p[n + k]
    <3>1. m + k \in 1..(m + Len(tail)) /\ ~(m + k <= m) /\ (m + k) - m = k
      BY <1>1, <2>4
    <3>2. q[m + k] = tail[(m + k) - m]
      BY <2>5, <3>1
    <3> QED BY <2>4, <3>1, <3>2
  <2>8. Len(p) >= n /\ Len(q) = m + Len(p) - n
    BY <1>1, <2>3, <2>4, <2>5
  <2> QED BY <2>3, <2>5, <2>6, <2>7, <2>8 DEF q, IsPut
<1> QED BY <1>2, <1>3

LEMMA WithinElements ==
  ASSUME NEW S, NEW p \in Seq(S), NEW old \in Seq(S)
  PROVE  Within(p, old) <=> Len(p) >= Len(old) /\ \A k \in 1..Len(old) : p[k] = old[k]
<1>1. Len(p) \in Nat /\ Len(old) \in Nat
  OBVIOUS
<1>2. ASSUME Len(p) >= Len(old), \A k \in 1..Len(old) : p[k] = old[k] PROVE Within(p, old)
  <2>1. CASE Len(p) = Len(old)
    <3>1. p = old
      BY <1>2, <2>1, SameElements
    <3> QED BY <3>1 DEF Within
  <2>2. CASE Len(p) # Len(old)
    <3>1. Below(p, old)
      BY <1>1, <1>2, <2>2, BelowElements
    <3> QED BY <3>1 DEF Within
  <2> QED BY <2>1, <2>2
<1>3. ASSUME Within(p, old) PROVE Len(p) >= Len(old) /\ \A k \in 1..Len(old) : p[k] = old[k]
  <2>1. CASE p = old
    BY <1>1, <2>1
  <2>2. CASE Below(p, old)
    BY <1>1, <2>2, BelowElements
  <2> QED BY <1>3, <2>1, <2>2 DEF Within
<1> QED BY <1>2, <1>3

LEMMA WithinPaths ==
  ASSUME NEW S, NEW p \in Seq(S), NEW q \in Seq(S), NEW r \in Seq(S)
  PROVE  /\ Within(p, q) /\ Within(q, r) => Within(p, r)
         /\ Below(p, q) => Within(p, q) /\ ~Within(q, p)
         /\ Below(p, q) /\ Within(q, r) => Below(p, r)
         /\ \A n \in S : Within(Append(p, n), q) <=> (Append(p, n) = q \/ Within(p, q))
<1>1. \A n \in S : Append(p, n) \in Seq(S)
  OBVIOUS
<1>2. Below(p, q) => Within(p, q) /\ ~Within(q, p)
  BY BelowTransitive DEF Within
<1>3. Below(p, q) /\ Within(q, r) => Below(p, r)
  BY BelowTransitive DEF Within
<1>4. Within(p, q) /\ Within(q, r) => Within(p, r)
  BY BelowTransitive DEF Within
<1>5. \A n \in S : Within(Append(p, n), q) <=> (Append(p, n) = q \/ Within(p, q))
  BY BelowAppend DEF Within
<1> QED BY <1>2, <1>3, <1>4, <1>5

LEMMA WithinAppend ==
  ASSUME NEW S, NEW p \in Seq(S), NEW q \in Seq(S), NEW n \in S
  PROVE  Within(Append(p, n), q) <=> (Append(p, n) = q \/ Within(p, q))
BY BelowAppend DEF Within

LEMMA PutWithin ==
  ASSUME NEW S, NEW p \in Seq(S), NEW old \in Seq(S), NEW new \in Seq(S), Within(p, old)
  PROVE  /\ Put(p, old, new) \in Seq(S)
         /\ Within(Put(p, old, new), new)
         /\ \A n \in S : Put(Append(p, n), old, new) = Append(Put(p, old, new), n)
<1> DEFINE q == Put(p, old, new)
<1>1. /\ q \in Seq(S)
      /\ Len(p) >= Len(old) /\ Len(q) = Len(new) + Len(p) - Len(old)
      /\ \A k \in 1..Len(old) : p[k] = old[k]
      /\ \A k \in 1..Len(new) : q[k] = new[k]
      /\ \A k \in 1..(Len(p) - Len(old)) : q[Len(new) + k] = p[Len(old) + k]
  <2>1. q \in Seq(S) /\ IsPut(p, q, old, new)
    BY PutElements
  <2> HIDE DEF q
  <2> QED BY <2>1 DEF IsPut
<1>2. Len(p) \in Nat /\ Len(old) \in Nat /\ Len(new) \in Nat
  OBVIOUS
<1> HIDE DEF q
<1>3. Within(q, new)
  BY <1>1, <1>2, WithinElements
<1>4. ASSUME NEW n \in S PROVE Put(Append(p, n), old, new) = Append(q, n)
  <2> DEFINE a == Append(p, n)
             b == Append(q, n)
             c == Put(a, old, new)
  <2>1. /\ a \in Seq(S) /\ Len(a) = Len(p) + 1 /\ a[Len(p) + 1] = n
        /\ \A k \in 1..Len(p) : a[k] = p[k]
    OBVIOUS
  <2>2. /\ b \in Seq(S) /\ Len(b) = Len(q) + 1 /\ b[Len(q) + 1] = n
        /\ \A k \in 1..Len(q) : b[k] = q[k]
    BY <1>1
  <2>3. Within(a, old)
    BY WithinPaths
  <2> HIDE DEF a, b
  <2>4. /\ c \in Seq(S) /\ Len(c) = Len(new) + Len(a) - Len(old)
        /\ \A k \in 1..Len(new) : c[k] = new[k]
        /\ \A k \in 1..(Len(a) - Len(old)) : c[Len(new) + k] = a[Len(old) + k]
    <3>1. c \in Seq(S) /\ IsPut(a, c, old, new)
      BY <2>1, <2>3, PutElements
    <3> HIDE DEF c
    <3> QED BY <3>1 DEF IsPut
  <2> HIDE DEF c
  <2>5. Len(c) = Len(b) /\ Len(c) \in Nat
    BY <1>1, <1>2, <2>1, <2>2, <2>4
  <2>6. ASSUME NEW k \in 1..Len(c) PROVE c[k] = b[k]
    <3>1. CASE k <= Len(new)
      <4>1. k \in 1..Len(new) /\ k \in 1..Len(q)
        BY <1>1, <1>2, <3>1
      <4> QED BY <1>1, <2>2, <2>4, <4>1
    <3>2. CASE k > Len(new) /\ k <= Len(q)
      <4> DEFINE j == k - Len(new)
      <4>1. j \in 1..(Len(p) - Len(old)) /\ k = Len(new) + j /\ k \in 1..Len(q)
        BY <1>1, <1>2, <3>2
      <4>2. j \in 1..(Len(a) - Len(old)) /\ Len(old) + j \in 1..Len(p)
        BY <1>2, <2>1, <4>1
      <4> HIDE DEF j
      <4>3. c[k] = a[Len(old) + j] /\ a[Len(old) + j] = p[Len(old) + j]
        BY <2>1, <2>4, <4>1, <4>2
      <4>4. b[k] = q[k] /\ q[k] = p[Len(old) + j]
        BY <1>1, <2>2, <4>1
      <4> QED BY <4>3, <4>4
    <3>3. CASE k > Len(q)
      <4>1. k = Len(q) + 1 /\ k = Len(new) + (Len(p) + 1 - Len(old))
        BY <1>1, <1>2, <2>2, <2>5, <3>3
      <4>2. Len(p) + 1 - Len(old) \in 1..(Len(a) - Len(old))
            /\ Len(old) + (Len(p) + 1 - Len(old)) = Len(p) + 1
        BY <1>1, <1>2, <2>1
      <4>3. c[k] = a[Len(p) + 1]
        BY <2>4, <4>1, <4>2
      <4> QED BY <2>1, <2>2, <4>1, <4>3
    <3> QED BY <1>1, <1>2, <3>1, <3>2, <3>3
  <2>7. c = b
    BY <2>2, <2>4, <2>5, <2>6, SameElements
  <2> QED BY <2>7 DEF a, b, c
<1> QED BY <1>1, <1>3, <1>4 DEF q

LEMMA PutAppend ==
  ASSUME NEW S, NEW old \in Seq(S), NEW new \in Seq(S)
  PROVE  \A p \in Seq(S), n \in S :
            Within(p, old) => Put(Append(p, n), old, new) = Append(Put(p, old, new), n)
BY PutWithin

LEMMA PutInjective ==
  ASSUME NEW S, NEW p \in Seq(S), NEW r \in Seq(S), NEW old \in Seq(S), NEW new \in Seq(S),
         Within(p, old), Within(r, old), Put(p, old, new) = Put(r, old, new)
  PROVE  p = r
<1> DEFINE q == Put(p, old, new)
<1>1. /\ Len(p) >= Len(old) /\ Len(q) = Len(new) + Len(p) - Len(old)
      /\ \A k \in 1..Len(old) : p[k] = old[k]
      /\ \A k \in 1..(Len(p) - Len(old)) : q[Len(new) + k] = p[Len(old) + k]
  <2>1. IsPut(p, q, old, new)
    BY PutElements
  <2> HIDE DEF q
  <2> QED BY <2>1 DEF IsPut
<1>2. /\ Len(r) >= Len(old) /\ Len(q) = Len(new) + Len(r) - Len(old)
      /\ \A k \in 1..Len(old) : r[k] = old[k]
      /\ \A k \in 1..(Len(r) - Len(old)) : q[Len(new) + k] = r[Len(old) + k]
  <2>1. IsPut(r, q, old, new)
    BY PutElements
  <2> HIDE DEF q
  <2> QED BY <2>1 DEF IsPut
<1> HIDE DEF q
<1>3. Len(p) \in Nat /\ Len(r) \in Nat /\ Len(old) \in Nat /\ Len(new) \in Nat
  OBVIOUS
<1>4. Len(p) = Len(r)
  BY <1>1, <1>2, <1>3
<1>5. ASSUME NEW k \in 1..Len(p) PROVE p[k] = r[k]
  <2>1. CASE k <= Len(old)
    <3>1. k \in 1..Len(old)
      BY <1>3, <2>1
    <3> QED BY <1>1, <1>2, <3>1
  <2>2. CASE ~(k <= Len(old))
    <3> DEFINE j == k - Len(old)
    <3>1. j \in 1..(Len(p) - Len(old)) /\ k = Len(old) + j
      BY <1>3, <2>2
    <3> HIDE DEF j
    <3> QED BY <1>1, <1>2, <1>4, <3>1
  <2> QED BY <2>1, <2>2
<1> QED BY <1>4, <1>5, SameElements

LEMMA PutApart ==
  ASSUME NEW S, NEW p \in Seq(S), NEW r \in Seq(S), NEW old \in Seq(S), NEW new \in Seq(S),
         ~Within(p, new), ~Within(r, new), Put(p, old, new) = Put(r, old, new)
  PROVE  p = r
<1>1. \A x \in {p, r} : ~Within(x, old) => Put(x, old, new) = x
  BY DEF Put, Moved, Within
<1>2. \A x \in {p, r} : Within(x, old) => Within(Put(x, old, new), new)
  BY PutWithin
<1>3. CASE Within(p, old) /\ Within(r, old)
  BY <1>3, PutInjective
<1>4. CASE ~(Within(p, old) /\ Within(r, old))
  BY <1>1, <1>2, <1>4
<1> QED BY <1>3, <1>4

\* What is above a path that was moved: above the new place, or moved with it.
LEMMA PutBelow ==
  ASSUME NEW S, NEW p \in Seq(S), NEW old \in Seq(S), NEW new \in Seq(S), Within(p, old),
         NEW q \in Seq(S), Below(Put(p, old, new), q)
  PROVE  \/ Below(new, q)
         \/ \E r \in Seq(S) : Within(r, old) /\ Put(r, old, new) = q /\ Below(p, r)
<1> DEFINE t == Put(p, old, new)
<1>1. /\ t \in Seq(S)
      /\ Len(p) >= Len(old) /\ Len(t) = Len(new) + Len(p) - Len(old)
      /\ \A k \in 1..Len(old) : p[k] = old[k]
      /\ \A k \in 1..Len(new) : t[k] = new[k]
      /\ \A k \in 1..(Len(p) - Len(old)) : t[Len(new) + k] = p[Len(old) + k]
  <2>1. t \in Seq(S) /\ IsPut(p, t, old, new)
    BY PutElements
  <2> HIDE DEF t
  <2> QED BY <2>1 DEF IsPut
<1>2. Len(p) \in Nat /\ Len(old) \in Nat /\ Len(new) \in Nat /\ Len(q) \in Nat
  OBVIOUS
<1> HIDE DEF t
<1>3. Len(t) > Len(q) /\ \A k \in 1..Len(q) : t[k] = q[k]
  BY <1>1, BelowElements DEF t
<1>4. CASE Len(q) < Len(new)
  <2>1. \A k \in 1..Len(q) : new[k] = q[k]
    BY <1>1, <1>2, <1>3, <1>4
  <2> QED BY <1>2, <1>4, <2>1, BelowElements
<1>5. CASE ~(Len(q) < Len(new))
  <2> DEFINE n == Len(old) + Len(q) - Len(new)
             r == SubSeq(p, 1, n)
  <2>1. n \in Nat /\ n < Len(p) /\ n >= Len(old)
    BY <1>1, <1>2, <1>3, <1>5
  <2>2. r \in Seq(S) /\ Len(r) = n /\ \A k \in 1..n : r[k] = p[k]
    <3> HIDE DEF n
    <3> QED BY <1>2, <2>1
  <2> HIDE DEF r
  <2>3. Below(p, r)
    BY <1>2, <2>1, <2>2, BelowElements
  <2>4. Within(r, old)
    <3>1. \A k \in 1..Len(old) : r[k] = old[k]
      <4> HIDE DEF n
      <4> QED BY <1>1, <1>2, <2>1, <2>2
    <3> QED BY <2>1, <2>2, <3>1, WithinElements
  <2> DEFINE u == Put(r, old, new)
  <2>5. /\ u \in Seq(S) /\ Len(u) = Len(new) + Len(r) - Len(old)
        /\ \A k \in 1..Len(new) : u[k] = new[k]
        /\ \A k \in 1..(Len(r) - Len(old)) : u[Len(new) + k] = r[Len(old) + k]
    <3>1. u \in Seq(S) /\ IsPut(r, u, old, new)
      BY <2>2, <2>4, PutElements
    <3> HIDE DEF u
    <3> QED BY <3>1 DEF IsPut
  <2> HIDE DEF u
  <2>6. Len(u) = Len(q)
    BY <1>2, <2>2, <2>5
  <2>7. ASSUME NEW k \in 1..Len(u) PROVE u[k] = q[k]
    <3>1. CASE k <= Len(new)
      <4>1. k \in 1..Len(new) /\ k \in 1..Len(q)
        BY <1>2, <2>6, <3>1
      <4> QED BY <1>1, <1>3, <2>5, <4>1
    <3>2. CASE ~(k <= Len(new))
      <4> DEFINE j == k - Len(new)
      <4>1. /\ k = Len(new) + j /\ k \in 1..Len(q)
            /\ j \in 1..(Len(r) - Len(old)) /\ j \in 1..(Len(p) - Len(old))
            /\ Len(old) + j \in 1..n
        BY <1>2, <2>1, <2>2, <2>5, <2>6, <3>2
      <4> HIDE DEF j, n
      <4>2. u[k] = r[Len(old) + j] /\ r[Len(old) + j] = p[Len(old) + j]
        BY <2>2, <2>5, <4>1
      <4>3. t[k] = p[Len(old) + j] /\ t[k] = q[k]
        BY <1>1, <1>3, <4>1
      <4> QED BY <4>2, <4>3
    <3> QED BY <1>2, <3>1, <3>2
  <2>8. u = q
    BY <2>5, <2>6, <2>7, SameElements
  <2> QED BY <2>2, <2>3, <2>4, <2>8 DEF u
<1> QED BY <1>4, <1>5

-----------------------------------------------------------------------------
(* What other files' requests leave *)

\* A row of its own: no hard link is to its entry.
Alone(a, p) == \A k \in DOMAIN a[p] : a[p][k].link = 0

\* A path that is not shared is nobody else's, cut or not.
LEMMA UnsharedPath ==
  ASSUME ArchiveType(archive), NEW p \in Path, ~IsShared(p)
  PROVE  /\ p \notin Long /\ Cut(p) = p
         /\ \A q : q # p => Cut(q) # p
         /\ Alone(archive, p)
<1>1. p \notin Long /\ (\A q \in Long : CutTo[q] # p) /\ LinksOf(archive, {p}) = {}
  BY DEF IsShared
<1>2. Alone(archive, p)
  <2> SUFFICES ASSUME NEW k \in DOMAIN archive[p], archive[p][k].link # 0
               PROVE  FALSE
    BY DEF Alone
  <2>1. archive[p][k].link \in { archive[p][l].link : l \in DOMAIN archive[p] }
    OBVIOUS
  <2>2. { archive[p][l].link : l \in DOMAIN archive[p] }
            \in { { archive[q][l].link : l \in DOMAIN archive[q] } : q \in {p} \cap Path }
    OBVIOUS
  <2>3. archive[p][k].link \in LinksOf(archive, {p})
    BY <2>1, <2>2 DEF LinksOf
  <2> QED BY <1>1, <2>3
<1> QED BY <1>1, <1>2 DEF Cut

\* delete leaves the rows of other paths, unless they are hard links.
LEMMA DeletedElsewhere ==
  ASSUME NEW a, NEW p \in Path, a[p] \in Seq(Node), Alone(a, p),
         NEW P, p \notin { Cut(q) : q \in P }
  PROVE  Deleted(a, P)[p] = a[p]
<1> DEFINE gone == LinksOf(a, { Cut(q) : q \in P })
<1>1. 0 \notin gone
  BY DEF LinksOf
<1>2. Deleted(a, P)[p] = [k \in DOMAIN a[p] |->
                            IF a[p][k].link \in gone THEN Dangling ELSE a[p][k]]
  BY DEF Deleted
<1> HIDE DEF gone
<1>3. Deleted(a, P)[p] = [k \in DOMAIN a[p] |-> a[p][k]]
  BY <1>1, <1>2 DEF Alone
<1>4. a[p] = [k \in DOMAIN a[p] |-> a[p][k]]
  BY DEF Alone
<1> QED BY <1>3, <1>4

LEMMA RewrittenElsewhere ==
  ASSUME NEW a, NEW p \in Path, a[p] \in Seq(Node), Alone(a, p), NEW order, NEW gone, NEW data,
         p \notin DOMAIN order, p \notin { Cut(q) : q \in DOMAIN order \cup gone }
  PROVE  Rewritten(a, order, gone, data)[p] = a[p]
<1>1. Deleted(a, DOMAIN order \cup gone)[p] = a[p]
  BY DeletedElsewhere
<1> QED BY <1>1 DEF Rewritten

\* What is rewritten has one row, with what was buffered and no hard link.
LEMMA RewrittenHere ==
  ASSUME BuffersType, NEW a, ArchiveType(a), NEW order, NEW p \in DOMAIN order \cap Path,
         NEW data, data[p] \in Content,
         NEW kind, kind = ModeKind(Deleted(a, Earlier(order, p)), p)
  PROVE  /\ Rewritten(a, order, {}, data)[p] = <<NewNode(kind, data[p])>>
         /\ <<NewNode(kind, data[p])>> \in Seq(Node)
         /\ Alone(Rewritten(a, order, {}, data), p)
<1> DEFINE node == NewNode(kind, data[p])
<1>1. Rewritten(a, order, {}, data)[p] = <<node>>
  BY DEF Rewritten
<1>2. kind \in Kind
  BY DeletedType, ModeKindType
<1>3. node \in Node /\ node.link = 0
  BY <1>2, NodeTypes DEF NewNode
<1> HIDE DEF node
<1>4. <<node>> \in Seq(Node) /\ \A k \in DOMAIN <<node>> : <<node>>[k].link = 0
  BY <1>3
<1> QED BY <1>1, <1>4 DEF Alone, node

\* A path with a file's mode has one after any delete: where there is no entry,
\* a file's is the default.
LEMMA DeletedKeepsMode ==
  ASSUME NEW a, ArchiveType(a), NEW p, ModeKind(a, p) = "file", NEW P
  PROVE  ModeKind(Deleted(a, P), p) = "file"
<1> DEFINE c == Cut(p)
           b == Deleted(a, P)[c]
           gone == LinksOf(a, { Cut(q) : q \in P })
<1>1. CASE p \in DOMAIN modified_modes
  BY <1>1 DEF ModeKind
<1>2. CASE p \notin DOMAIN modified_modes /\ ~HasEntry(Deleted(a, P), p)
  BY <1>2 DEF ModeKind, EntryKind
<1>3. CASE p \notin DOMAIN modified_modes /\ HasEntry(Deleted(a, P), p)
  <2>1. c \in Path /\ b # <<>> /\ b[1].kind # "none"
    BY <1>3 DEF HasEntry
  <2>2. b = [k \in DOMAIN a[c] |-> IF a[c][k].link \in gone THEN Dangling ELSE a[c][k]]
    BY <2>1 DEF Deleted
  <2> HIDE DEF b, gone
  <2>3. a[c] \in Seq(Node) /\ a[c] # <<>>
    <3>1. a[c] \in Seq(Node)
      BY <2>1 DEF ArchiveType
    <3>2. a[c] = <<>> => b = <<>>
      BY <2>2
    <3> QED BY <2>1, <3>1, <3>2
  <2>4. 1 \in DOMAIN a[c]
    BY <2>3
  <2>5. b[1] = Dangling \/ b[1] = a[c][1]
    BY <2>2, <2>4
  <2>6. b[1] = a[c][1]
    BY <2>1, <2>5 DEF Dangling
  <2>7. a[c][1].kind = "file"
    BY <1>3, <2>1, <2>3, <2>6 DEF ModeKind, EntryKind, HasEntry
  <2> QED BY <1>3, <2>6, <2>7 DEF ModeKind, EntryKind, b
<1> QED BY <1>1, <1>2, <1>3

\* The mode of a path is that of its rows, unless one is buffered.
LEMMA ModeOfRows ==
  ASSUME NEW p \in Path, Cut(p) = p, NEW a, NEW b
  PROVE  /\ a[p] = b[p] => ModeKind(a, p) = ModeKind(b, p)
         /\ \A kind \in Kind : \A c :
                a[p] = <<NewNode(kind, c)>> /\ p \notin DOMAIN modified_modes => ModeKind(a, p) = kind
<1>1. a[p] = b[p] => ModeKind(a, p) = ModeKind(b, p)
  BY DEF ModeKind, EntryKind, HasEntry
<1>2. ASSUME NEW kind \in Kind, NEW c, a[p] = <<NewNode(kind, c)>>, p \notin DOMAIN modified_modes
      PROVE  ModeKind(a, p) = kind
  BY <1>2 DEF ModeKind, EntryKind, HasEntry, NewNode, Kind
<1> QED BY <1>1, <1>2

\* And so it has when it, or another path, is written anew.
LEMMA RewrittenKeepsMode ==
  ASSUME NEW a, ArchiveType(a), NEW p, Cut(p) = p, ModeKind(a, p) = "file",
         NEW order, NEW gone, NEW data
  PROVE  ModeKind(Rewritten(a, order, gone, data), p) = "file"
<1> DEFINE new == Rewritten(a, order, gone, data)
           left == Deleted(a, DOMAIN order \cup gone)
<1>1. CASE p \in DOMAIN modified_modes \/ p \notin Path
  BY <1>1 DEF ModeKind, EntryKind, HasEntry
<1>2. CASE p \notin DOMAIN modified_modes /\ p \in Path
  <2>1. CASE p \in DOMAIN order /\ p \notin { Cut(q) : q \in gone }
    <3>1. ModeKind(Deleted(a, Earlier(order, p)), p) = "file"
      BY DeletedKeepsMode
    <3>2. new[p] = <<NewNode("file", data[p])>>
      BY <1>2, <2>1, <3>1 DEF Rewritten
    <3>3. \A x : x[p] = <<NewNode("file", data[p])>> => ModeKind(x, p) = "file"
      BY <1>2, ModeOfRows DEF Kind
    <3> QED BY <3>2, <3>3
  <2>2. CASE ~(p \in DOMAIN order /\ p \notin { Cut(q) : q \in gone })
    <3>1. new[p] = left[p]
      BY <1>2, <2>2 DEF Rewritten
    <3>2. ModeKind(left, p) = "file"
      BY DeletedKeepsMode
    <3>3. \A x, y : x[p] = y[p] => ModeKind(x, p) = ModeKind(y, p)
      BY <1>2, ModeOfRows
    <3> QED BY <3>1, <3>2, <3>3
  <2> QED BY <2>1, <2>2
<1> QED BY <1>1, <1>2

\* What a sync stores of a path that is buffered, whatever it does for attributes.
StoredIn(a, p) ==
    \E kind \in Kind : /\ a[p] = <<NewNode(kind, modified_data[p])>>
                       /\ HasFileMode(p) => kind = "file"

LEMMA SyncedStores ==
  ASSUME TypeOK, NEW first \in Orders(DOMAIN modified_data),
         NEW done \in SUBSET AttrsOnly, NEW then \in Orders(done),
         CanRedo(DataStored(archive, first), then), NEW p \in DOMAIN modified_data
  PROVE  StoredIn(Redone(DataStored(archive, first), then), p)
<1> DEFINE a == DataStored(archive, first)
           kind == ModeKind(Deleted(archive, Earlier(first, p)), p)
<1>1. /\ p \in Path /\ modified_data[p] \in Content /\ BuffersType /\ ArchiveType(archive)
      /\ DOMAIN first = DOMAIN modified_data /\ DOMAIN then = done
  BY TypeParts, OrderOf DEF TypeOK
<1>2. /\ a[p] = <<NewNode(kind, modified_data[p])>> /\ a[p] \in Seq(Node) /\ Alone(a, p)
  <2>1. a = Rewritten(archive, first, {}, modified_data)
    BY DEF DataStored
  <2>2. p \in DOMAIN first \cap Path
    BY <1>1
  <2>3. kind = ModeKind(Deleted(archive, Earlier(first, p)), p)
    OBVIOUS
  <2> HIDE DEF a, kind
  <2>4. /\ Rewritten(archive, first, {}, modified_data)[p] = <<NewNode(kind, modified_data[p])>>
        /\ <<NewNode(kind, modified_data[p])>> \in Seq(Node)
        /\ Alone(Rewritten(archive, first, {}, modified_data), p)
    BY <1>1, <2>2, <2>3, RewrittenHere
  <2> QED BY <2>1, <2>4
<1>3. kind \in Kind /\ (HasFileMode(p) => kind = "file")
  BY <1>1, DeletedType, ModeKindType, DeletedKeepsMode DEF HasFileMode
<1>4. p \notin done /\ \A q \in done : Cut(q) = q
  BY <1>1 DEF CanRedo, AttrsOnly, Storable, Cut
<1> HIDE DEF a, kind
<1>5. Redone(a, then)[p] = a[p]
  <2>1. p \notin DOMAIN then /\ p \notin { Cut(q) : q \in DOMAIN then \cup {} }
    BY <1>1, <1>4
  <2>2. \A data : Rewritten(a, then, {}, data)[p] = a[p]
    BY <1>1, <1>2, <2>1, RewrittenElsewhere
  <2> QED BY <2>2 DEF Redone
<1> QED BY <1>2, <1>3, <1>5 DEF a, StoredIn

LEMMA SyncedIsStored ==
  ASSUME TypeOK, Synced, NEW p \in DOMAIN modified_data
  PROVE  StoredIn(archive', p)
BY SyncedStores DEF Synced

\* A sync leaves what is not buffered, changed in no mode or time, and not shared.
LEMMA RedoneElsewhere ==
  ASSUME TypeOK, NEW first \in Orders(DOMAIN modified_data),
         NEW done \in SUBSET AttrsOnly, NEW then \in Orders(done),
         CanRedo(DataStored(archive, first), then),
         \A q \in DOMAIN modified_data : Storable(q),
         NEW p \in Path \ DOMAIN modified_data, p \notin AttrsOnly, ~IsShared(p)
  PROVE  LET a == Redone(DataStored(archive, first), then)
         IN  a[p] = archive[p] /\ Alone(a, p)
<1> DEFINE a == DataStored(archive, first)
<1>1. archive[p] \in Seq(Node) /\ Alone(archive, p)
  BY TypeParts, UnsharedPath DEF ArchiveType
<1>2. /\ DOMAIN first = DOMAIN modified_data /\ DOMAIN then = done
      /\ \A q \in DOMAIN modified_data \cup done : Cut(q) = q
  BY OrderOf DEF CanRedo, Storable, Cut
<1>3. a[p] = archive[p]
  BY <1>1, <1>2, RewrittenElsewhere DEF DataStored
<1> HIDE DEF a
<1>4. a[p] \in Seq(Node) /\ Alone(a, p)
  BY <1>1, <1>3 DEF Alone
<1>5. Redone(a, then)[p] = a[p]
  BY <1>2, <1>4, RewrittenElsewhere DEF Redone
<1> QED BY <1>3, <1>4, <1>5 DEF a, Alone

LEMMA SyncStopsElsewhere ==
  ASSUME TypeOK, SyncStops,
         NEW p \in Path \ DOMAIN modified_data, p \notin AttrsOnly, ~IsShared(p)
  PROVE  archive'[p] = archive[p]
<1>1. /\ archive[p] \in Seq(Node) /\ Alone(archive, p)
      /\ \A q : q # p => Cut(q) # p
  BY TypeParts, UnsharedPath DEF ArchiveType
<1>2. ASSUME NEW q \in DOMAIN modified_data,
             NEW done \in SUBSET { r \in DOMAIN modified_data : r # q /\ Storable(r) },
             NEW order \in Orders(done),
             archive' = Rewritten(archive, order, {q}, modified_data)
      PROVE  archive'[p] = archive[p]
  <2>1. p \notin DOMAIN order /\ p \notin { Cut(r) : r \in DOMAIN order \cup {q} }
    BY <1>1, OrderOf
  <2> QED BY <1>1, <1>2, <2>1, RewrittenElsewhere
<1>3. ASSUME \A q \in DOMAIN modified_data : Storable(q),
             NEW first \in Orders(DOMAIN modified_data),
             NEW done \in SUBSET AttrsOnly, NEW then \in Orders(done),
             CanRedo(DataStored(archive, first), then),
             LET a == Redone(DataStored(archive, first), then)
             IN  \/ \E q \in AttrsOnly \ done :
                        archive' = IF IsFile(a, q) THEN Deleted(a, {q}) ELSE a
                 \/ done = AttrsOnly /\ archive' = a
      PROVE  archive'[p] = archive[p]
  <2> DEFINE a == Redone(DataStored(archive, first), then)
  <2>1. a[p] = archive[p] /\ Alone(a, p)
    BY <1>3, RedoneElsewhere
  <2>2. (\E q \in AttrsOnly \ done : archive' = IF IsFile(a, q) THEN Deleted(a, {q}) ELSE a)
        \/ archive' = a
    BY <1>3
  <2> HIDE DEF a
  <2>3. ASSUME NEW q \in AttrsOnly PROVE Deleted(a, {q})[p] = a[p]
    <3>1. p \notin { Cut(r) : r \in {q} }
      BY <1>1
    <3> QED BY <1>1, <2>1, <3>1, DeletedElsewhere
  <2> QED BY <2>1, <2>2, <2>3
<1> QED BY <1>2, <1>3 DEF SyncStops

\* A sync that stops on the way leaves a path with a file's mode one.
LEMMA SyncStopsKeepsMode ==
  ASSUME TypeOK, SyncStops, NEW p, Cut(p) = p, HasFileMode(p)
  PROVE  ModeKind(archive', p) = "file"
<1>1. ArchiveType(archive) /\ BuffersType /\ ModeKind(archive, p) = "file"
  BY TypeParts DEF HasFileMode
<1>2. ASSUME NEW q \in DOMAIN modified_data,
             NEW done \in SUBSET { r \in DOMAIN modified_data : r # q /\ Storable(r) },
             NEW order \in Orders(done),
             archive' = Rewritten(archive, order, {q}, modified_data)
      PROVE  ModeKind(archive', p) = "file"
  BY <1>1, <1>2, RewrittenKeepsMode
<1>3. ASSUME NEW first \in Orders(DOMAIN modified_data),
             NEW done \in SUBSET AttrsOnly, NEW then \in Orders(done),
             CanRedo(DataStored(archive, first), then),
             LET a == Redone(DataStored(archive, first), then)
             IN  \/ \E q \in AttrsOnly \ done :
                        archive' = IF IsFile(a, q) THEN Deleted(a, {q}) ELSE a
                 \/ done = AttrsOnly /\ archive' = a
      PROVE  ModeKind(archive', p) = "file"
  <2> DEFINE stored == DataStored(archive, first)
             a == Redone(stored, then)
  <2>1. ArchiveType(stored) /\ ModeKind(stored, p) = "file"
    BY <1>1, DataStoredType, RewrittenKeepsMode DEF DataStored
  <2>2. CanRedo(stored, then)
    BY <1>3
  <2>3. (\E q \in AttrsOnly \ done : archive' = IF IsFile(a, q) THEN Deleted(a, {q}) ELSE a)
        \/ archive' = a
    BY <1>3
  <2> HIDE DEF stored
  <2>4. ArchiveType(a) /\ ModeKind(a, p) = "file"
    BY <1>1, <2>1, <2>2, RedoneType, RewrittenKeepsMode DEF Redone
  <2> HIDE DEF a
  <2> QED BY <2>3, <2>4, DeletedKeepsMode
<1> QED BY <1>2, <1>3 DEF SyncStops

(***************************************************************************)
(* What a request does for a file that it is not for.  What is buffered     *)
(* goes where the file goes; the archive's row of a file that stays does    *)
(* too, if it is nobody else's.                                             *)
(***************************************************************************)
FileModeAfter(p) ==
    (IF p \in DOMAIN modified_modes' THEN modified_modes'[p] ELSE EntryKind(archive', p)) = "file"

Carried(i) ==
    LET p == inode_to_path[i]
        q == inode_to_path'[i]
    IN  /\ p \in DOMAIN modified_data =>
                q \in DOMAIN modified_data' /\ modified_data'[q] = modified_data[p]
        /\ (p \notin DOMAIN modified_data /\ p = q /\ p \notin AttrsOnly /\ ~IsShared(p)) =>
                p \notin DOMAIN modified_data' /\ archive'[p] = archive[p]
        /\ (p = q /\ ~IsShared(p) /\ HasFileMode(p)) => FileModeAfter(p) \/ SetMode(p)

\* The mode of a path stays if its rows and the buffered modes do.
LEMMA SameMode ==
  ASSUME FsInv, NEW p \in Path, ~IsShared(p), HasFileMode(p),
         archive'[p] = archive[p], UNCHANGED modified_modes
  PROVE  FileModeAfter(p)
<1>1. Cut(p) = p
  BY FsParts, UnsharedPath
<1> QED BY <1>1 DEF HasFileMode, ModeKind, EntryKind, HasEntry, FileModeAfter

\* WritesKept and OthersLeftAlone, of one file.
WritesKeptOf(i) ==
    IsNamed(i) /\ inode_to_path[i] \in DOMAIN modified_data =>
        LET p == inode_to_path[i]
        IN  /\ Synced => StoredIn(archive', p)
            /\ mounted' /\ i \in DOMAIN inode_to_path' =>
                IF inode_to_path'[i] \in DOMAIN modified_data'
                THEN Data(i)' = Data(i) \/ WrittenTo(i)
                ELSE StoredIn(archive', p)

LeftAlone(i) ==
    LET p == inode_to_path[i]
    IN  /\ IsNamed(i) /\ CanRead(i)
        /\ HasFileMode(p)
        /\ p \notin AttrsOnly /\ ~IsShared(p)
        /\ i \in DOMAIN inode_to_path'
        /\ inode_to_path'[i] = p
        => /\ CanRead(i)' /\ (Data(i)' = Data(i) \/ WrittenTo(i))
           /\ HasFileMode(p)' \/ SetMode(p)

LEMMA ModeAfter ==
  ASSUME NEW i, inode_to_path'[i] = inode_to_path[i], FileModeAfter(inode_to_path[i])
  PROVE  HasFileMode(inode_to_path[i])'
BY DEF FileModeAfter, HasFileMode, ModeKind, EntryKind, HasEntry, Cut

LEMMA CarriedIsKept ==
  ASSUME FsInv, NEW i, IsNamed(i), i \in DOMAIN inode_to_path', Carried(i)
  PROVE  WritesKeptOf(i) /\ LeftAlone(i)
<1> DEFINE p == inode_to_path[i]
           q == inode_to_path'[i]
<1>1. i \in DOMAIN inode_to_path /\ p \in Path
  BY FsParts DEF IsNamed, FilesType
<1>2. ASSUME p \in DOMAIN modified_data
      PROVE  CanRead(i)' /\ Data(i)' = Data(i) /\ q \in DOMAIN modified_data'
  BY <1>2 DEF Carried, CanRead, Data
<1>3. ASSUME p \notin DOMAIN modified_data, CanRead(i), p \notin AttrsOnly, ~IsShared(p), q = p
      PROVE  CanRead(i)' /\ Data(i)' = Data(i)
  <2>1. p \notin DOMAIN modified_data' /\ archive'[p] = archive[p] /\ Cut(p) = p
    BY <1>1, <1>3, FsParts, UnsharedPath DEF Carried
  <2>2. IsFile(archive, p)
    BY <1>3 DEF CanRead
  <2>3. IsFile(archive', p) /\ FileData(archive', p) = FileData(archive, p)
    BY <2>1, <2>2 DEF IsFile, HasEntry, FileData
  <2> QED BY <1>3, <2>1, <2>3 DEF CanRead, Data
<1>4. ASSUME Synced, p \in DOMAIN modified_data
      PROVE  StoredIn(archive', p)
  BY <1>4, SyncedIsStored DEF FsInv
<1>5. WritesKeptOf(i)
  BY <1>2, <1>4 DEF WritesKeptOf
<1>6. ASSUME q = p, ~IsShared(p), HasFileMode(p)
      PROVE  HasFileMode(inode_to_path[i])' \/ SetMode(p)
  BY <1>6, ModeAfter DEF Carried
<1>7. LeftAlone(i)
  BY <1>2, <1>3, <1>6 DEF LeftAlone
<1> QED BY <1>5, <1>7

\* The row of a file of one's own, when others' are deleted or added.
LEMMA AddedElsewhere ==
  ASSUME NEW a, NEW p, NEW q, p # q, NEW node, NEW b \in AddedOrNot(a, q, node)
  PROVE  b[p] = a[p]
<1>1. Added(a, q, node)[p] = a[p]
  BY DEF Added
<1> QED BY <1>1 DEF AddedOrNot

LEMMA NamedFile ==
  ASSUME FsInv, NEW i, IsNamed(i)
  PROVE  /\ i \in DOMAIN inode_to_path /\ inode_to_path[i] \in Path
         /\ inode_to_path[i] \in DOMAIN path_to_inode
         /\ path_to_inode[inode_to_path[i]] = i
         /\ archive[inode_to_path[i]] \in Seq(Node)
BY FsParts DEF IsNamed, FilesType, ArchiveType

\* Requests that only add a row, of a path that no file has.
LEMMA AdditionCarries ==
  ASSUME FsInv, NEW i, IsNamed(i), inode_to_path'[i] = inode_to_path[i],
         NEW new, new \notin DOMAIN path_to_inode,
         NEW node, archive' \in AddedOrNot(archive, new, node),
         \/ modified_data' = modified_data
         \/ \E c : modified_data' = With(modified_data, new, c),
         UNCHANGED attrs
  PROVE  Carried(i)
<1> DEFINE p == inode_to_path[i]
<1>1. p # new
  BY NamedFile
<1>2. archive'[p] = archive[p]
  <2> HIDE DEF p
  <2> QED BY <1>1, AddedElsewhere
<1>3. /\ p \in DOMAIN modified_data' <=> p \in DOMAIN modified_data
      /\ p \in DOMAIN modified_data => modified_data'[p] = modified_data[p]
  BY <1>1 DEF With
<1>4. ASSUME ~IsShared(p), HasFileMode(p) PROVE FileModeAfter(p)
  BY <1>2, <1>4, NamedFile, SameMode DEF attrs
<1> QED BY <1>2, <1>3, <1>4 DEF Carried

LEMMA CreateDirectoryCarries ==
  ASSUME FsInv, NEW d, NEW name, CreateDirectory(d, name), NEW i, IsNamed(i)
  PROVE  Carried(i)
<1> DEFINE new == Append(PathOf(d), name)
<1>1. /\ new \notin DOMAIN path_to_inode
      /\ archive' \in AddedOrNot(archive, new, NewNode("dir", <<>>))
      /\ UNCHANGED <<inode_to_path, modified_data, attrs>>
  BY DEF CreateDirectory, IsNew
<1> HIDE DEF new
<1> QED BY <1>1, AdditionCarries

LEMMA NewInodeCarries ==
  ASSUME FsInv, NEW d, NEW name, NEW kind, NewInode(d, name, kind), NEW i, IsNamed(i),
         \/ modified_data' = modified_data
         \/ modified_data' = With(modified_data, Append(PathOf(d), name), <<>>)
  PROVE  Carried(i)
<1> DEFINE new == Append(PathOf(d), name)
<1>1. /\ new \notin DOMAIN path_to_inode
      /\ archive' \in AddedOrNot(archive, new, NewNode(kind, <<>>))
      /\ inode_to_path' = With(inode_to_path, next_file_ino, new)
      /\ UNCHANGED attrs
  BY DEF NewInode, IsNew
<1> HIDE DEF new
<1>2. i \in DOMAIN inode_to_path /\ i # next_file_ino
  BY NamedFile, FsParts DEF FilesFresh, FilesType
<1>3. inode_to_path'[i] = inode_to_path[i]
  BY <1>1, <1>2 DEF With
<1> QED BY <1>1, <1>3, AdditionCarries DEF new

LEMMA RemoveDirectoryCarries ==
  ASSUME FsInv, NEW d, NEW name, RemoveDirectory(d, name), NEW i, IsNamed(i)
  PROVE  Carried(i)
<1> DEFINE gone == Append(PathOf(d), name)
           p == inode_to_path[i]
<1>1. /\ gone \notin DOMAIN path_to_inode /\ archive' = DeletedDir(archive, gone)
      /\ UNCHANGED <<inode_to_path, modified_data, modified_modes>>
  BY DEF RemoveDirectory, attrs
<1> HIDE DEF gone
<1>2. ASSUME ~IsShared(p) PROVE archive'[p] = archive[p]
  <2>1. p \in Path /\ archive[p] \in Seq(Node) /\ p # gone
    BY <1>1, NamedFile
  <2>2. Alone(archive, p) /\ p \notin { Cut(q) : q \in {gone} }
    BY <1>2, <2>1, FsParts, UnsharedPath
  <2> HIDE DEF p
  <2> QED BY <1>1, <2>1, <2>2, DeletedElsewhere DEF DeletedDir
<1>3. ASSUME ~IsShared(p), HasFileMode(p) PROVE FileModeAfter(p)
  BY <1>1, <1>2, <1>3, NamedFile, SameMode
<1> QED BY <1>1, <1>2, <1>3 DEF Carried

LEMMA RemoveFileCarries ==
  ASSUME FsInv, NEW d, NEW name, RemoveFile(d, name),
         NEW i, IsNamed(i), i \in DOMAIN inode_to_path'
  PROVE  Carried(i)
<1> DEFINE gone == Append(PathOf(d), name)
           p == inode_to_path[i]
<1>1. /\ gone \in DOMAIN path_to_inode /\ archive' = Deleted(archive, {gone})
      /\ inode_to_path' = Without(inode_to_path, {path_to_inode[gone]})
      /\ modified_data' = Without(modified_data, {gone})
      /\ UNCHANGED modified_modes
  BY DEF RemoveFile, attrs
<1> HIDE DEF gone
<1>2. p \in Path /\ archive[p] \in Seq(Node) /\ p # gone /\ inode_to_path'[i] = p
  BY <1>1, NamedFile DEF Without
<1>3. ASSUME ~IsShared(p) PROVE archive'[p] = archive[p]
  <2>1. Alone(archive, p) /\ p \notin { Cut(q) : q \in {gone} }
    BY <1>2, <1>3, FsParts, UnsharedPath
  <2> HIDE DEF p
  <2> QED BY <1>1, <1>2, <2>1, DeletedElsewhere
<1>4. /\ p \in DOMAIN modified_data' <=> p \in DOMAIN modified_data
      /\ p \in DOMAIN modified_data => modified_data'[p] = modified_data[p]
  BY <1>1, <1>2 DEF Without
<1>5. ASSUME ~IsShared(p), HasFileMode(p) PROVE FileModeAfter(p)
  BY <1>1, <1>2, <1>3, <1>5, SameMode
<1> QED BY <1>2, <1>3, <1>4, <1>5 DEF Carried

\* The buffer of a file goes to its new path, over that of a file that had it.
LEMMA RenameFileCarries ==
  ASSUME FsInv, NEW d, NEW name, NEW e, NEW to, RenameFile(d, name, e, to),
         NEW i, IsNamed(i), i \in DOMAIN inode_to_path'
  PROVE  Carried(i)
<1> DEFINE old == Append(PathOf(d), name)
           new == Append(PathOf(e), to)
           ino == path_to_inode[old]
           over == {new} \cap DOMAIN path_to_inode
           overInos == { path_to_inode[r] : r \in over }
           kept == Without(modified_data, over)
           data == IF old \in DOMAIN kept THEN With(Without(kept, {old}), new, kept[old])
                   ELSE kept
           a == Deleted(archive, over)
           copied == IF IsFile(a, old) THEN AddedOrNot(a, new, NewNode(ModeKind(a, old), FileData(a, old)))
                     ELSE IF new \in DOMAIN data
                     THEN AddedOrNot(a, new, NewNode("file", data[new]))
                     ELSE {a}
           p == inode_to_path[i]
<1>1. /\ old \in DOMAIN path_to_inode /\ new # old
      /\ inode_to_path' = With(Without(inode_to_path, overInos), ino, new)
      /\ modified_data' = data /\ UNCHANGED modified_modes
      /\ \E b \in copied : archive' = Deleted(b, {old})
  BY DEF RenameFile, attrs
<1> HIDE DEF old, new
<1>2. /\ i \in DOMAIN inode_to_path /\ p \in Path /\ p \in DOMAIN path_to_inode
      /\ path_to_inode[p] = i /\ archive[p] \in Seq(Node)
  BY NamedFile
<1>3. inode_to_path[ino] = old
  BY <1>1, FsParts DEF InodesSound
<1>4. /\ DOMAIN inode_to_path' = (DOMAIN inode_to_path \ overInos) \cup {ino}
      /\ inode_to_path'[i] = IF i = ino THEN new ELSE p
  BY <1>1 DEF With, Without
<1>5. /\ DOMAIN kept = DOMAIN modified_data \ over
      /\ \A r \in DOMAIN kept : kept[r] = modified_data[r]
  BY DEF Without
<1>6. over \subseteq {new}
  OBVIOUS
<1>7. CASE i = ino
  <2>1. p = old /\ inode_to_path'[i] = new
    BY <1>3, <1>4, <1>7
  <2>2. ASSUME old \in DOMAIN modified_data
        PROVE  new \in DOMAIN data /\ data[new] = modified_data[old]
    <3>1. old \in DOMAIN kept /\ kept[old] = modified_data[old]
      BY <1>1, <1>5, <1>6, <2>2
    <3> HIDE DEF kept
    <3> QED BY <3>1 DEF With, Without
  <2> HIDE DEF data
  <2> QED BY <1>1, <2>1, <2>2 DEF Carried
<1>8. CASE i # ino
  <2>1. p # old /\ inode_to_path'[i] = p
    BY <1>2, <1>4, <1>8
  <2>2. p # new
    BY <1>2, <1>4, <1>8
  <2>3. /\ p \in DOMAIN data <=> p \in DOMAIN modified_data
        /\ p \in DOMAIN modified_data => data[p] = modified_data[p]
    <3>1. /\ p \in DOMAIN kept <=> p \in DOMAIN modified_data
          /\ p \in DOMAIN modified_data => kept[p] = modified_data[p]
      BY <1>5, <1>6, <2>2
    <3> HIDE DEF kept
    <3> QED BY <2>1, <2>2, <3>1 DEF With, Without
  <2>4. ASSUME ~IsShared(p) PROVE archive'[p] = archive[p]
    <3>1. Alone(archive, p) /\ \A q : q # p => Cut(q) # p
      BY <1>2, <2>4, FsParts, UnsharedPath
    <3>2. a[p] = archive[p]
      <4>1. p \notin { Cut(q) : q \in over }
        BY <2>2, <3>1
      <4> HIDE DEF over, p
      <4> QED BY <1>2, <3>1, <4>1, DeletedElsewhere
    <3> HIDE DEF a, data
    <3>3. PICK b \in copied : archive' = Deleted(b, {old})
      BY <1>1
    <3>4. b[p] = a[p]
      <4>1. (\E node : b \in AddedOrNot(a, new, node)) \/ b = a
        BY <3>3
      <4> HIDE DEF copied
      <4> QED BY <2>2, <4>1, AddedElsewhere
    <3>5. b[p] \in Seq(Node) /\ Alone(b, p) /\ p \notin { Cut(q) : q \in {old} }
      BY <1>2, <2>1, <3>1, <3>2, <3>4 DEF Alone
    <3> HIDE DEF p
    <3> QED BY <1>2, <3>2, <3>3, <3>4, <3>5, DeletedElsewhere
  <2>5. ASSUME ~IsShared(p), HasFileMode(p) PROVE FileModeAfter(p)
    BY <1>1, <1>2, <2>4, <2>5, SameMode
  <2> HIDE DEF data
  <2> QED BY <1>1, <2>1, <2>3, <2>4, <2>5 DEF Carried
<1> QED BY <1>7, <1>8

\* Files below a directory stay apart when it is renamed.
LEMMA MovedApart ==
  ASSUME NEW S, NEW p \in Seq(S), NEW r \in Seq(S), NEW old \in Seq(S), NEW new \in Seq(S),
         Below(p, old), Below(r, old), Moved(p, old, new) = Moved(r, old, new)
  PROVE  p = r
<1>1. \A x \in {p, r} : Within(x, old) /\ x # old
  BY BelowTransitive, WithinPaths DEF Within
<1>2. Put(p, old, new) = Put(r, old, new)
  BY <1>1 DEF Put
<1> QED BY <1>1, <1>2, PutInjective

(***************************************************************************)
(* The rename of a directory moves another file onto the path of i, which   *)
(* stays where it is: there is one buffer for the two.                      *)
(***************************************************************************)
Overrun(i) ==
    /\ dir_inodes' # dir_inodes
    /\ i \in DOMAIN inode_to_path'
    /\ inode_to_path'[i] = inode_to_path[i]
    /\ \E j \in DOMAIN inode_to_path \cap DOMAIN inode_to_path' :
        inode_to_path[j] # inode_to_path[i] /\ inode_to_path'[j] = inode_to_path[i]

\* What is buffered for a file below the directory goes with it.
LEMMA MovedBuffer ==
  ASSUME FsInv, NEW p \in DOMAIN modified_data, NEW old \in Seq(Names), NEW new \in Seq(Names),
         Below(p, old),
         NEW data, data = Rekeyed(modified_data, old, new)
  PROVE  /\ Moved(p, old, new) \in DOMAIN data
         /\ data[Moved(p, old, new)] = modified_data[p]
<1> DEFINE under == { r \in DOMAIN modified_data : Below(r, old) }
           q == Moved(p, old, new)
           from == CHOOSE r \in under : Moved(r, old, new) = q
<1>1. p \in under /\ q \in { Moved(r, old, new) : r \in DOMAIN modified_data }
  OBVIOUS
<1>2. q \in DOMAIN data /\ data[q] = modified_data[from]
  BY <1>1 DEF Rekeyed
<1>3. from \in under /\ Moved(from, old, new) = q
  BY <1>1
<1>4. p \in Seq(Names) /\ from \in Seq(Names)
  BY <1>3, FsParts, BaleFsAssumption DEF BuffersType
<1>5. from = p
  <2>1. Below(from, old)
    BY <1>3
  <2> HIDE DEF from
  <2> QED BY <1>3, <1>4, <2>1, MovedApart
<1> QED BY <1>2, <1>5

\* A directory's rename carries every file, but one that it puts another onto.
LEMMA RenameDirectoryCarries ==
  ASSUME FsInv, NEW d, NEW name \in Names, NEW e, NEW to \in Names,
         RenameDirectory(d, name, e, to),
         NEW i, IsNamed(i), i \in DOMAIN inode_to_path', ~Overrun(i)
  PROVE  Carried(i)
<1> DEFINE old == Append(PathOf(d), name)
           new == Append(PathOf(e), to)
           i2p == [j \in DOMAIN inode_to_path |-> Moved(inode_to_path[j], old, new)]
           p == inode_to_path[i]
           q == Moved(p, old, new)
           data == Rekeyed(modified_data, old, new)
<1>1. /\ old \in DOMAIN dir_inodes \ DOMAIN path_to_inode
      /\ new \in Path /\ new \notin DOMAIN dir_inodes \cup DOMAIN path_to_inode
      /\ new \in DOMAIN dir_inodes'
      /\ inode_to_path' = i2p
      /\ modified_data' = data /\ UNCHANGED modified_modes
      /\ \E a \in AddedOrNot(archive, new, NewNode("dir", <<>>)) :
            archive' = DeletedDir(a, old)
  BY DEF RenameDirectory, MovedData, With, attrs
<1> HIDE DEF old, new
<1>2. /\ i \in DOMAIN inode_to_path /\ p \in Path /\ p \in DOMAIN path_to_inode
      /\ path_to_inode[p] = i /\ archive[p] \in Seq(Node)
  BY NamedFile
<1>3. old \in Seq(Names) /\ new \in Seq(Names) /\ p \in Seq(Names)
  <2>1. old \in DirPath
    BY <1>1, FsParts DEF DirsType
  <2>2. \A x \in Path : x \in Seq(Names)
    BY BaleFsAssumption
  <2>3. RootPath \in Seq(Names)
    BY DEF RootPath
  <2> QED BY <1>1, <1>2, <2>1, <2>2, <2>3 DEF DirPath
<1>4. dir_inodes' # dir_inodes
  BY <1>1
<1>5. /\ DOMAIN inode_to_path' = DOMAIN inode_to_path
      /\ \A j \in DOMAIN inode_to_path : inode_to_path'[j] = Moved(inode_to_path[j], old, new)
  BY <1>1
<1>6. ASSUME NEW r \in DOMAIN modified_data, Moved(r, old, new) = p, q = p
      PROVE  r = p
  <2>1. PICK j \in DOMAIN inode_to_path : inode_to_path[j] = r
    BY FsParts DEF InodesSound
  <2>2. inode_to_path'[j] = p /\ inode_to_path'[i] = p
    BY <1>2, <1>5, <1>6, <2>1
  <2> QED BY <1>2, <1>4, <1>5, <2>1, <2>2 DEF Overrun
<1>7. \A x \in DOMAIN data : \E r \in DOMAIN modified_data :
            Moved(r, old, new) = x /\ data[x] = modified_data[r]
  BY RekeyedFrom
<1>8. ASSUME p \in DOMAIN modified_data
      PROVE  q \in DOMAIN data /\ data[q] = modified_data[p]
  <2>1. CASE Below(p, old)
    BY <1>3, <1>8, <2>1, MovedBuffer
  <2>2. CASE ~Below(p, old)
    <3>1. q = p
      BY <2>2 DEF Moved
    <3>2. q \in DOMAIN data
      BY <1>8 DEF Rekeyed
    <3> QED BY <1>6, <1>7, <3>1, <3>2
  <2> QED BY <2>1, <2>2
<1>9. ASSUME p \notin DOMAIN modified_data, q = p PROVE p \notin DOMAIN data
  BY <1>6, <1>7, <1>9
<1>10. ASSUME ~IsShared(p) PROVE archive'[p] = archive[p]
  <2>1. Alone(archive, p) /\ p # new /\ p # old /\ \A x : x # p => Cut(x) # p
    BY <1>1, <1>2, <1>10, FsParts, UnsharedPath
  <2>2. PICK a \in AddedOrNot(archive, new, NewNode("dir", <<>>)) : archive' = DeletedDir(a, old)
    BY <1>1
  <2> HIDE DEF p
  <2>3. a[p] = archive[p]
    BY <2>1, <2>2, AddedElsewhere
  <2>4. a[p] \in Seq(Node) /\ Alone(a, p) /\ p \notin { Cut(x) : x \in {old} }
    BY <1>2, <2>1, <2>3 DEF Alone
  <2>5. Deleted(a, {old})[p] = a[p]
    BY <1>2, <2>4, DeletedElsewhere
  <2> QED BY <2>2, <2>3, <2>5 DEF DeletedDir
<1>11. inode_to_path'[i] = q
  BY <1>2, <1>5
<1>12. ASSUME ~IsShared(p), HasFileMode(p) PROVE FileModeAfter(p)
  BY <1>1, <1>2, <1>10, <1>12, SameMode
<1> HIDE DEF data, q, p
<1> QED BY <1>1, <1>8, <1>9, <1>10, <1>11, <1>12 DEF Carried, p
\* Writing to a file leaves the files with other paths.
LEMMA WriteIsKept ==
  ASSUME FsInv, NEW j,
         \/ \E offset \in 0..MaxFileSize, b \in Byte : Write(j, offset, b)
         \/ \E n \in 0..MaxFileSize : Truncate(j, n),
         NEW i, IsNamed(i)
  PROVE  WritesKeptOf(i) /\ LeftAlone(i)
<1> DEFINE p == inode_to_path[i]
<1>1. /\ j \in DOMAIN inode_to_path
      /\ UNCHANGED <<mounted, archive, tree, attrs>>
      /\ \E c : modified_data' = With(modified_data, inode_to_path[j], c)
  BY DEF Write, Truncate, Load, CanRead
<1>2. i \in DOMAIN inode_to_path /\ UNCHANGED inode_to_path
  BY <1>1, NamedFile DEF tree
<1>3. CASE inode_to_path[j] = p
  <2>1. WrittenTo(i)
    BY <1>1, <1>3 DEF WrittenTo
  <2>2. p \in DOMAIN modified_data' /\ CanRead(i)'
    BY <1>1, <1>2, <1>3 DEF With, CanRead
  <2>3. Synced /\ p \in DOMAIN modified_data => StoredIn(archive', p)
    BY SyncedIsStored DEF FsInv
  <2>4. ASSUME ~IsShared(p), HasFileMode(p) PROVE HasFileMode(inode_to_path[i])'
    BY <1>1, <1>2, <2>4, NamedFile, SameMode, ModeAfter DEF attrs
  <2>5. LeftAlone(i)
    BY <2>1, <2>2, <2>4 DEF LeftAlone
  <2> QED BY <1>2, <2>1, <2>2, <2>3, <2>5 DEF WritesKeptOf
<1>4. CASE inode_to_path[j] # p
  <2>1. /\ p \in DOMAIN modified_data' <=> p \in DOMAIN modified_data
        /\ p \in DOMAIN modified_data => modified_data'[p] = modified_data[p]
    BY <1>1, <1>4 DEF With
  <2>2. ASSUME ~IsShared(p), HasFileMode(p) PROVE FileModeAfter(p)
    BY <1>1, <1>2, <2>2, NamedFile, SameMode DEF attrs
  <2>3. Carried(i)
    BY <1>1, <1>2, <2>1, <2>2 DEF Carried
  <2> QED BY <1>2, <2>3, CarriedIsKept
<1> QED BY <1>3, <1>4

LEMMA FlushIsKept ==
  ASSUME FsInv, flush, NEW i, IsNamed(i)
  PROVE  WritesKeptOf(i) /\ LeftAlone(i)
<1> DEFINE p == inode_to_path[i]
<1>1. i \in DOMAIN inode_to_path /\ UNCHANGED inode_to_path /\ p \in Path
  BY NamedFile DEF flush, SyncFails, tree
<1>2. CASE Synced
  <2>1. modified_data' = NoMap /\ modified_modes' = NoMap /\ DOMAIN NoMap = {} /\ TypeOK
    BY <1>2 DEF Synced, NoMap, FsInv
  <2>2. ASSUME p \in DOMAIN modified_data
        PROVE  /\ StoredIn(archive', p)
               /\ HasFileMode(p) => CanRead(i)' /\ Data(i)' = Data(i) /\ FileModeAfter(p)
    <3>1. StoredIn(archive', p)
      BY <1>2, <2>1, <2>2, SyncedIsStored
    <3>2. Cut(p) = p
      BY <1>2, <2>2 DEF Synced, Storable, Cut
    <3>3. ASSUME HasFileMode(p)
          PROVE  CanRead(i)' /\ Data(i)' = Data(i) /\ FileModeAfter(p)
      <4>1. archive'[p] = <<NewNode("file", modified_data[p])>>
        BY <3>1, <3>3 DEF StoredIn
      <4>2. /\ IsFile(archive', p) /\ FileData(archive', p) = modified_data[p]
            /\ EntryKind(archive', p) = "file"
        BY <1>1, <3>2, <4>1 DEF IsFile, HasEntry, FileData, EntryKind, NewNode
      <4> QED BY <1>1, <2>1, <2>2, <4>2 DEF CanRead, Data, FileModeAfter
    <3> QED BY <3>1, <3>3
  <2>3. ASSUME p \notin DOMAIN modified_data, p \notin AttrsOnly, ~IsShared(p)
        PROVE  archive'[p] = archive[p]
    <3>1. PICK first \in Orders(DOMAIN modified_data), then \in Orders(AttrsOnly) :
            /\ CanRedo(DataStored(archive, first), then)
            /\ archive' = Redone(DataStored(archive, first), then)
      BY <1>2 DEF Synced
    <3>2. p \in Path \ DOMAIN modified_data /\ \A r \in DOMAIN modified_data : Storable(r)
      BY <1>1, <1>2, <2>3 DEF Synced
    <3> HIDE DEF p
    <3> QED BY <2>1, <2>3, <3>1, <3>2, RedoneElsewhere
  <2>4. WritesKeptOf(i)
    BY <1>1, <2>1, <2>2 DEF WritesKeptOf
  <2>5. LeftAlone(i)
    <3>1. CASE p \in DOMAIN modified_data
      BY <1>1, <2>2, <3>1, ModeAfter DEF LeftAlone
    <3>2. CASE p \notin DOMAIN modified_data /\ p \notin AttrsOnly /\ ~IsShared(p)
      <4>1. ASSUME HasFileMode(p) PROVE FileModeAfter(p)
        <5>1. Cut(p) = p /\ archive'[p] = archive[p] /\ p \notin DOMAIN modified_modes
          BY <1>1, <2>3, <3>2, FsParts, UnsharedPath DEF AttrsOnly
        <5> QED BY <2>1, <4>1, <5>1
                DEF HasFileMode, ModeKind, EntryKind, HasEntry, FileModeAfter
      <4>2. Carried(i)
        BY <1>1, <2>1, <2>3, <3>2, <4>1 DEF Carried
      <4> QED BY <1>1, <4>2, CarriedIsKept
    <3>3. CASE p \in AttrsOnly \/ IsShared(p)
      BY <3>3 DEF LeftAlone
    <3> QED BY <3>1, <3>2, <3>3
  <2> QED BY <2>4, <2>5
<1>3. CASE SyncFails
  <2>1. SyncStops /\ TypeOK /\ UNCHANGED <<modified_data, modified_modes>>
    BY <1>3 DEF SyncFails, FsInv, attrs
  <2>2. ASSUME p \notin DOMAIN modified_data, p \notin AttrsOnly, ~IsShared(p)
        PROVE  archive'[p] = archive[p]
    <3>1. p \in Path \ DOMAIN modified_data
      BY <1>1, <2>2
    <3> HIDE DEF p
    <3> QED BY <2>1, <2>2, <3>1, SyncStopsElsewhere
  <2>3. ASSUME ~IsShared(p), HasFileMode(p) PROVE FileModeAfter(p)
    <3>1. Cut(p) = p
      BY <1>1, <2>3, FsParts, UnsharedPath
    <3>2. ModeKind(archive', p) = "file"
      BY <2>1, <2>3, <3>1, SyncStopsKeepsMode
    <3> QED BY <2>1, <3>2 DEF ModeKind, FileModeAfter
  <2>4. Carried(i)
    BY <1>1, <2>1, <2>2, <2>3 DEF Carried
  <2> QED BY <1>1, <2>4, CarriedIsKept
<1> QED BY <1>2, <1>3 DEF flush

\* A request either carries a file along, or removes it.
LEMMA RequestIsKept ==
  ASSUME FsInv, RequestNext, mounted, NEW i, IsNamed(i), ~Overrun(i)
  PROVE  WritesKeptOf(i) /\ (mounted' => LeftAlone(i))
<1>1. Synced /\ inode_to_path[i] \in DOMAIN modified_data
        => StoredIn(archive', inode_to_path[i])
  BY SyncedIsStored DEF FsInv
<1>2. ASSUME i \notin DOMAIN inode_to_path' \/ ~mounted'
      PROVE  WritesKeptOf(i) /\ (mounted' => LeftAlone(i))
  BY <1>1, <1>2 DEF WritesKeptOf, LeftAlone
<1>3. ASSUME i \in DOMAIN inode_to_path', Carried(i)
      PROVE  WritesKeptOf(i) /\ LeftAlone(i)
  BY <1>3, CarriedIsKept
<1>4. CASE \E ro \in BOOLEAN : MountAs(ro)
  BY <1>4 DEF MountAs, Mount
<1>5. CASE flush
  BY <1>5, FlushIsKept
<1>6. CASE destroy
  BY <1>2, <1>6 DEF destroy, Dropping
<1>7. ASSUME NEW d \in DirIno, NEW name \in Names,
             \/ mkdir(d, name) \/ rmdir(d, name) \/ create(d, name)
             \/ symlink(d, name) \/ unlink(d, name)
             \/ \E e \in DirIno, to \in Names : rename(d, name, e, to),
             i \in DOMAIN inode_to_path'
      PROVE  Carried(i)
  <2>1. CASE mkdir(d, name)
    BY <2>1, CreateDirectoryCarries DEF mkdir
  <2>2. CASE rmdir(d, name)
    BY <2>2, RemoveDirectoryCarries DEF rmdir
  <2>3. CASE create(d, name)
    <3>1. /\ NewInode(d, name, "file")
          /\ modified_data' = With(modified_data, Append(PathOf(d), name), <<>>)
      BY <2>3 DEF create, CreateFile
    <3> QED BY <3>1, NewInodeCarries
  <2>4. CASE symlink(d, name)
    <3>1. NewInode(d, name, "symlink") /\ modified_data' = modified_data
      BY <2>4 DEF symlink, CreateSymlink
    <3> QED BY <3>1, NewInodeCarries
  <2>5. CASE unlink(d, name)
    BY <1>7, <2>5, RemoveFileCarries DEF unlink
  <2>6. ASSUME NEW e \in DirIno, NEW to \in Names, rename(d, name, e, to)
        PROVE  Carried(i)
    <3>1. CASE RenameFile(d, name, e, to)
      BY <1>7, <3>1, RenameFileCarries
    <3>2. CASE RenameDirectory(d, name, e, to)
      BY <1>7, <3>2, RenameDirectoryCarries
    <3> QED BY <2>6, <3>1, <3>2 DEF rename
  <2> QED BY <1>7, <2>1, <2>2, <2>3, <2>4, <2>5, <2>6
<1>8. ASSUME NEW j \in FileIno,
             \/ \E offset \in 0..MaxFileSize, b \in Byte : write(j, offset, b)
             \/ \E n \in 0..MaxFileSize : setattr_size(j, n)
      PROVE  WritesKeptOf(i) /\ LeftAlone(i)
  <2>1. \/ \E offset \in 0..MaxFileSize, b \in Byte : Write(j, offset, b)
        \/ \E n \in 0..MaxFileSize : Truncate(j, n)
    BY <1>8 DEF write, setattr_size
  <2> QED BY <2>1, WriteIsKept
<1>9. ASSUME NEW p \in AttrPath, setattr_mode(p) \/ setattr_time(p)
      PROVE  Carried(i) /\ i \in DOMAIN inode_to_path'
  <2> DEFINE q == inode_to_path[i]
  <2>1. UNCHANGED <<archive, inode_to_path, modified_data>>
    BY <1>9 DEF setattr_mode, setattr_time, SetMode, SetTime, tree
  <2>2. SetMode(q) \/ UNCHANGED modified_modes
                  \/ \E kind : modified_modes' = With(modified_modes, p, kind) /\ p # q
    <3>1. CASE setattr_time(p)
      BY <3>1 DEF setattr_time, SetTime
    <3>2. CASE setattr_mode(p) /\ p = q
      BY <3>2 DEF setattr_mode
    <3>3. CASE setattr_mode(p) /\ p # q
      BY <3>3 DEF setattr_mode, SetMode
    <3> QED BY <1>9, <3>1, <3>2, <3>3
  <2>3. ASSUME HasFileMode(q), ~SetMode(q) PROVE FileModeAfter(q)
    <3>1. IF q \in DOMAIN modified_modes
          THEN q \in DOMAIN modified_modes' /\ modified_modes'[q] = modified_modes[q]
          ELSE q \notin DOMAIN modified_modes'
      BY <2>2, <2>3 DEF With
    <3> QED BY <2>1, <2>3, <3>1 DEF HasFileMode, ModeKind, FileModeAfter
  <2> QED BY <2>1, <2>3, NamedFile DEF Carried
<1> QED BY <1>2, <1>3, <1>4, <1>5, <1>6, <1>7, <1>8, <1>9 DEF RequestNext

(***************************************************************************)
(* No directory is renamed so that a file of it lands on one that stays.    *)
(* rename refuses a target that exists, so this takes a tree whose maps and *)
(* listings disagree: three levels deep, after a file and a directory that  *)
(* shared a path, rename_entry and rmdir can leave one. MountsUnique below  *)
(* rules such trees out, and so implies this.                               *)
(***************************************************************************)
NoneOverrun == [][\A i \in FileIno : IsNamed(i) => ~Overrun(i)]_vars

\* What was written and not yet synced is not lost before the mount's last sync:
\* every request leaves it, moves it with its file, or stores it, whatever else
\* it does and however it fails, as long as no directory is renamed over it. It
\* is stored as a file if get_file_mode gives a file's mode for its path.
THEOREM WritesAlwaysKept == Spec /\ NoneOverrun => WritesKept
<1>1. ASSUME FsInv, [RequestNext]_requestVars, [\A i \in FileIno : IsNamed(i) => ~Overrun(i)]_vars
      PROVE  [mounted => KeepsWrites]_vars
  <2> SUFFICES ASSUME vars' # vars, mounted, NEW i \in FileIno
               PROVE  WritesKeptOf(i)
    BY DEF KeepsWrites, WritesKeptOf, StoredIn
  <2>1. RequestNext
    BY <1>1 DEF requestVars
  <2>2. CASE IsNamed(i)
    BY <1>1, <2>1, <2>2, RequestIsKept
  <2>3. CASE ~IsNamed(i)
    BY <2>3 DEF WritesKeptOf
  <2> QED BY <2>2, <2>3
<1> QED BY <1>1, FsInvariance, PTL DEF Spec, NoneOverrun, WritesKept

\* A file that can be read, and of which get_file_mode gives a file's mode, reads
\* the same and has such a mode after a request that is not for it, also when
\* that is a sync that fails half-way, as long as no directory is renamed over it.
THEOREM OthersAlwaysLeftAlone == Spec /\ NoneOverrun => OthersLeftAlone
<1>1. ASSUME FsInv, [RequestNext]_requestVars, [\A i \in FileIno : IsNamed(i) => ~Overrun(i)]_vars
      PROVE  [mounted /\ mounted' => LeavesOthers]_vars
  <2> SUFFICES ASSUME vars' # vars, mounted, mounted',
                      NEW i \in FileIno \cap DOMAIN inode_to_path'
               PROVE  LeftAlone(i)
    BY DEF LeavesOthers, LeftAlone
  <2>1. RequestNext
    BY <1>1 DEF requestVars
  <2>2. CASE IsNamed(i)
    BY <1>1, <2>1, <2>2, RequestIsKept
  <2>3. CASE ~IsNamed(i)
    BY <2>3 DEF LeftAlone
  <2> QED BY <2>2, <2>3
<1> QED BY <1>1, FsInvariance, PTL DEF Spec, NoneOverrun, OthersLeftAlone

-----------------------------------------------------------------------------
(* A tree in which every path is one thing *)

\* What FsInv says of the maps.
TreeTypes(dirs, contents, paths, inodes) ==
    /\ DOMAIN dirs \cup DOMAIN inodes \subseteq Seq(Names)
    /\ \A p \in DOMAIN dirs : dirs[p] \in DOMAIN contents
    /\ \A p, q \in DOMAIN dirs : dirs[p] = dirs[q] => p = q
    /\ \A d \in DOMAIN contents : contents[d] \subseteq Listed
    /\ \A p \in DOMAIN inodes : inodes[p] \in DOMAIN paths /\ paths[inodes[p]] = p

\* No path is two files, or a file and a directory.
Apart(dirs, paths, inodes) ==
    /\ \A p \in DOMAIN dirs : p \notin DOMAIN inodes
    /\ \A i \in DOMAIN paths : paths[i] \in DOMAIN inodes /\ inodes[paths[i]] = i

\* What is above a file or a directory is a directory.
Closed(dirs, inodes) ==
    \A p \in DOMAIN dirs \cup DOMAIN inodes, q \in Seq(Names) : Below(p, q) => q \in DOMAIN dirs

\* A directory lists what is in it.
Shows(dirs, contents, inodes) ==
    \A p \in DOMAIN dirs, name \in Names :
        LET q == Append(p, name)
        IN  /\ q \in DOMAIN dirs => Entry(name, dirs[q], "dir") \in contents[dirs[p]]
            /\ q \in DOMAIN inodes =>
                \E kind \in {"file", "symlink"} : Entry(name, inodes[q], kind) \in contents[dirs[p]]

\* What a directory lists is in it.
Tells(dirs, paths, inodes, p, e) ==
    LET q == Append(p, e.name)
    IN  IF e.kind = "dir" THEN q \in DOMAIN dirs /\ dirs[q] = e.ino
        ELSE q \in DOMAIN inodes /\ e.ino \in DOMAIN paths /\ paths[e.ino] = q

Sound(dirs, contents, paths, inodes) ==
    \A p \in DOMAIN dirs : \A e \in contents[dirs[p]] : Tells(dirs, paths, inodes, p, e)

\* No listing is left of a directory that is gone.
Reached(dirs, contents) == \A d \in DOMAIN contents : \E p \in DOMAIN dirs : dirs[p] = d

IsTree(dirs, contents, paths, inodes) ==
    /\ Apart(dirs, paths, inodes)
    /\ Closed(dirs, inodes)
    /\ Shows(dirs, contents, inodes)
    /\ Sound(dirs, contents, paths, inodes)
    /\ Reached(dirs, contents)

LEMMA PushedFacts ==
  ASSUME NEW C, NEW d \in DOMAIN C, NEW entry
  PROVE  /\ DOMAIN Pushed(C, d, entry) = DOMAIN C
         /\ Pushed(C, d, entry)[d] = C[d] \cup {entry}
         /\ \A z \in DOMAIN C : z # d => Pushed(C, d, entry)[z] = C[z]
BY DEF Pushed

LEMMA DroppedFacts ==
  ASSUME NEW C, NEW d \in DOMAIN C, NEW name
  PROVE  /\ DOMAIN Dropped(C, d, name) = DOMAIN C
         /\ Dropped(C, d, name)[d] = { e \in C[d] : e.name # name }
         /\ \A z \in DOMAIN C : z # d => Dropped(C, d, name)[z] = C[z]
BY DEF Dropped

LEMMA EntryFacts ==
  ASSUME NEW name, NEW ino, NEW kind
  PROVE  LET e == Entry(name, ino, kind)
         IN  e.name = name /\ e.ino = ino /\ e.kind = kind
BY DEF Entry

\* Below a path that is no directory there is nothing.
LEMMA NothingBelow ==
  ASSUME NEW D, NEW C, NEW I, NEW P, TreeTypes(D, C, I, P), IsTree(D, C, I, P),
         NEW p \in Seq(Names), p \notin DOMAIN D
  PROVE  /\ \A n \in Names : Append(p, n) \notin DOMAIN D \cup DOMAIN P
         /\ \A n \in Names : Append(p, n) # p
         /\ \A q \in DOMAIN D \cup DOMAIN P : ~Below(q, p)
<1>1. \A q \in DOMAIN D \cup DOMAIN P : ~Below(q, p)
  BY DEF IsTree, Closed
<1>2. \A n \in Names : Append(p, n) \in Seq(Names) /\ Below(Append(p, n), p) /\ Append(p, n) # p
  <2> TAKE n \in Names
  <2>1. Append(p, n) \in Seq(Names) /\ Len(Append(p, n)) # Len(p)
    OBVIOUS
  <2> QED BY <2>1, BelowAppend
<1> QED BY <1>1, <1>2

LEMMA NewDirTree ==
  ASSUME NEW D, NEW C, NEW I, NEW P, TreeTypes(D, C, I, P), IsTree(D, C, I, P),
         NEW dp \in DOMAIN D, NEW name \in Names, NEW p, p = Append(dp, name),
         p \notin DOMAIN D \cup DOMAIN P, NEW ino, ino \notin DOMAIN C
  PROVE  IsTree(With(D, p, ino), Pushed(With(C, ino, {}), D[dp], Entry(name, ino, "dir")), I, P)
<1> DEFINE D2 == With(D, p, ino)
           C1 == With(C, ino, {})
           entry == Entry(name, ino, "dir")
           C2 == Pushed(C1, D[dp], entry)
<1>1. /\ dp \in Seq(Names) /\ p \in Seq(Names)
      /\ \A r \in DOMAIN D \cup DOMAIN P : r \in Seq(Names)
      /\ \A r \in DOMAIN D : D[r] \in DOMAIN C /\ D[r] # ino
      /\ \A r \in DOMAIN D : D[r] = D[dp] => r = dp
  BY DEF TreeTypes
<1>2. /\ DOMAIN D2 = DOMAIN D \cup {p} /\ D2[p] = ino
      /\ \A r \in DOMAIN D : D2[r] = D[r]
  BY DEF With
<1>3. DOMAIN C1 = DOMAIN C \cup {ino} /\ C1[ino] = {} /\ \A x \in DOMAIN C : C1[x] = C[x]
  BY DEF With
<1> HIDE DEF C1, D2
<1>4. /\ DOMAIN C2 = DOMAIN C \cup {ino} /\ C2[ino] = {}
      /\ C2[D[dp]] = C[D[dp]] \cup {entry}
      /\ \A x \in DOMAIN C : x # D[dp] => C2[x] = C[x]
  BY <1>1, <1>3, PushedFacts
<1> HIDE DEF C2
<1>5. \A r \in DOMAIN D : C2[D[r]] = IF r = dp THEN C[D[r]] \cup {entry} ELSE C[D[r]]
  BY <1>1, <1>4
<1>6. entry.name = name /\ entry.ino = ino /\ entry.kind = "dir"
  BY EntryFacts
<1>7. /\ \A n \in Names : Append(p, n) \notin DOMAIN D \cup DOMAIN P
      /\ \A n \in Names : Append(p, n) # p
  BY <1>1, NothingBelow
<1>8. Apart(D2, I, P)
  BY <1>2 DEF IsTree, Apart
<1>9. Closed(D2, P)
  <2>1. ASSUME NEW q \in Seq(Names), Below(p, q) PROVE q \in DOMAIN D
    <3>1. q = dp \/ Below(dp, q)
      BY <1>1, <2>1, BelowAppend
    <3> QED BY <2>1, <3>1 DEF IsTree, Closed
  <2> QED BY <1>2, <2>1 DEF IsTree, Closed
<1>10. Shows(D2, C2, P)
  <2> SUFFICES ASSUME NEW r \in DOMAIN D2, NEW n \in Names
               PROVE  LET q == Append(r, n)
                      IN  /\ q \in DOMAIN D2 => Entry(n, D2[q], "dir") \in C2[D2[r]]
                          /\ q \in DOMAIN P =>
                                \E kind \in {"file", "symlink"} : Entry(n, P[q], kind) \in C2[D2[r]]
    BY DEF Shows
  <2> DEFINE q == Append(r, n)
  <2>1. CASE r = p
    BY <1>2, <1>7, <2>1
  <2>2. CASE r # p
    <3>1. r \in DOMAIN D /\ D2[r] = D[r] /\ C[D[r]] \subseteq C2[D2[r]]
      BY <1>2, <1>5, <2>2
    <3>2. /\ q \in DOMAIN D => Entry(n, D[q], "dir") \in C[D[r]]
          /\ q \in DOMAIN P =>
                \E kind \in {"file", "symlink"} : Entry(n, P[q], kind) \in C[D[r]]
      BY <3>1 DEF IsTree, Shows
    <3>3. q = p => r = dp /\ n = name
      BY <1>1, <3>1, AppendInjective
    <3>4. CASE q = p
      BY <1>2, <1>5, <3>1, <3>3, <3>4
    <3>5. CASE q # p
      BY <1>2, <3>1, <3>2, <3>5
    <3> QED BY <3>4, <3>5
  <2> QED BY <2>1, <2>2
<1>11. Sound(D2, C2, I, P)
  <2> SUFFICES ASSUME NEW r \in DOMAIN D2, NEW e \in C2[D2[r]]
               PROVE  Tells(D2, I, P, r, e)
    BY DEF Sound
  <2>1. r # p
    BY <1>2, <1>4
  <2>2. r \in DOMAIN D /\ D2[r] = D[r]
    BY <1>2, <2>1
  <2>3. CASE e \in C[D[r]]
    <3>1. Tells(D, I, P, r, e)
      BY <2>2, <2>3 DEF IsTree, Sound
    <3> QED BY <1>2, <3>1 DEF Tells
  <2>4. CASE e \notin C[D[r]]
    <3>0. e \in C2[D[r]]
      BY <2>2
    <3>1. r = dp
      BY <1>5, <2>2, <2>4, <3>0
    <3>2. e = entry
      BY <1>4, <2>2, <2>4, <3>0, <3>1
    <3> QED BY <1>2, <1>6, <3>1, <3>2 DEF Tells
  <2> QED BY <2>3, <2>4
<1>12. Reached(D2, C2)
  BY <1>2, <1>4 DEF IsTree, Reached
<1> QED BY <1>8, <1>9, <1>10, <1>11, <1>12 DEF IsTree, D2, C1, C2

LEMMA NewFileTree ==
  ASSUME NEW D, NEW C, NEW I, NEW P, TreeTypes(D, C, I, P), IsTree(D, C, I, P),
         NEW dp \in DOMAIN D, NEW name \in Names, NEW p, p = Append(dp, name),
         p \notin DOMAIN D \cup DOMAIN P, NEW ino, ino \notin DOMAIN I,
         NEW kind \in {"file", "symlink"}
  PROVE  IsTree(D, Pushed(C, D[dp], Entry(name, ino, kind)), With(I, ino, p), With(P, p, ino))
<1> DEFINE I2 == With(I, ino, p)
           P2 == With(P, p, ino)
           entry == Entry(name, ino, kind)
           C2 == Pushed(C, D[dp], entry)
<1>1. /\ dp \in Seq(Names) /\ p \in Seq(Names)
      /\ \A r \in DOMAIN D \cup DOMAIN P : r \in Seq(Names)
      /\ \A r \in DOMAIN D : D[r] \in DOMAIN C
      /\ \A r \in DOMAIN D : D[r] = D[dp] => r = dp
  BY DEF TreeTypes
<1>2. /\ DOMAIN I2 = DOMAIN I \cup {ino} /\ I2[ino] = p
      /\ \A i \in DOMAIN I : I2[i] = I[i]
  BY DEF With
<1>3. /\ DOMAIN P2 = DOMAIN P \cup {p} /\ P2[p] = ino
      /\ \A r \in DOMAIN P : P2[r] = P[r]
  BY DEF With
<1> HIDE DEF I2, P2
<1>4. /\ DOMAIN C2 = DOMAIN C
      /\ C2[D[dp]] = C[D[dp]] \cup {entry}
      /\ \A x \in DOMAIN C : x # D[dp] => C2[x] = C[x]
  BY <1>1, PushedFacts
<1> HIDE DEF C2
<1>5. \A r \in DOMAIN D : C2[D[r]] = IF r = dp THEN C[D[r]] \cup {entry} ELSE C[D[r]]
  BY <1>1, <1>4
<1>6. entry.name = name /\ entry.ino = ino /\ entry.kind = kind
  BY EntryFacts
<1>7. Apart(D, I2, P2)
  BY <1>2, <1>3 DEF IsTree, Apart
<1>8. Closed(D, P2)
  <2>1. ASSUME NEW q \in Seq(Names), Below(p, q) PROVE q \in DOMAIN D
    <3>1. q = dp \/ Below(dp, q)
      BY <1>1, <2>1, BelowAppend
    <3> QED BY <2>1, <3>1 DEF IsTree, Closed
  <2> QED BY <1>3, <2>1 DEF IsTree, Closed
<1>9. Shows(D, C2, P2)
  <2> SUFFICES ASSUME NEW r \in DOMAIN D, NEW n \in Names
               PROVE  LET q == Append(r, n)
                      IN  /\ q \in DOMAIN D => Entry(n, D[q], "dir") \in C2[D[r]]
                          /\ q \in DOMAIN P2 =>
                                \E k \in {"file", "symlink"} : Entry(n, P2[q], k) \in C2[D[r]]
    BY DEF Shows
  <2> DEFINE q == Append(r, n)
  <2>1. C[D[r]] \subseteq C2[D[r]]
    BY <1>5
  <2>2. /\ q \in DOMAIN D => Entry(n, D[q], "dir") \in C[D[r]]
        /\ q \in DOMAIN P =>
                \E k \in {"file", "symlink"} : Entry(n, P[q], k) \in C[D[r]]
    BY DEF IsTree, Shows
  <2>3. q = p => r = dp /\ n = name
    BY <1>1, AppendInjective
  <2>4. CASE q = p
    BY <1>3, <1>5, <2>3, <2>4
  <2>5. CASE q # p
    BY <1>3, <2>1, <2>2, <2>5
  <2> QED BY <2>4, <2>5
<1>10. Sound(D, C2, I2, P2)
  <2> SUFFICES ASSUME NEW r \in DOMAIN D, NEW e \in C2[D[r]]
               PROVE  Tells(D, I2, P2, r, e)
    BY DEF Sound
  <2>1. CASE e \in C[D[r]]
    <3>1. Tells(D, I, P, r, e)
      BY <2>1 DEF IsTree, Sound
    <3> QED BY <1>2, <1>3, <3>1 DEF Tells
  <2>2. CASE e \notin C[D[r]]
    <3>1. r = dp /\ e = entry
      BY <1>5, <2>2
    <3> QED BY <1>2, <1>3, <1>6, <3>1 DEF Tells
  <2> QED BY <2>1, <2>2
<1>11. Reached(D, C2)
  BY <1>4 DEF IsTree, Reached
<1> QED BY <1>7, <1>8, <1>9, <1>10, <1>11 DEF IsTree, I2, P2, C2
\* A file that is removed from the directory dp.
LEMMA DropFileTree ==
  ASSUME NEW D, NEW C, NEW I, NEW P, TreeTypes(D, C, I, P), IsTree(D, C, I, P),
         NEW dp \in DOMAIN D, NEW name \in Names, NEW p, p = Append(dp, name), p \in DOMAIN P
  PROVE  LET C2 == Dropped(C, D[dp], name)
             I2 == Without(I, {P[p]})
             P2 == Without(P, {p})
         IN  TreeTypes(D, C2, I2, P2) /\ IsTree(D, C2, I2, P2)
<1> DEFINE C2 == Dropped(C, D[dp], name)
           I2 == Without(I, {P[p]})
           P2 == Without(P, {p})
<1>1. /\ dp \in Seq(Names) /\ p \in Seq(Names)
      /\ \A r \in DOMAIN D \cup DOMAIN P : r \in Seq(Names)
      /\ \A r \in DOMAIN D : D[r] \in DOMAIN C
      /\ \A r, t \in DOMAIN D : D[r] = D[t] => r = t
      /\ \A d \in DOMAIN C : C[d] \subseteq Listed
      /\ \A r \in DOMAIN P : P[r] \in DOMAIN I /\ I[P[r]] = r
  BY DEF TreeTypes
<1>2. DOMAIN I2 = DOMAIN I \ {P[p]} /\ \A i \in DOMAIN I2 : I2[i] = I[i]
  BY DEF Without
<1>3. DOMAIN P2 = DOMAIN P \ {p} /\ \A r \in DOMAIN P2 : P2[r] = P[r]
  BY DEF Without
<1> HIDE DEF I2, P2
<1>4. /\ DOMAIN C2 = DOMAIN C
      /\ C2[D[dp]] = { e \in C[D[dp]] : e.name # name }
      /\ \A x \in DOMAIN C : x # D[dp] => C2[x] = C[x]
  BY <1>1, DroppedFacts
<1> HIDE DEF C2
<1>5. \A r \in DOMAIN D : \A e : e \in C2[D[r]] <=> e \in C[D[r]] /\ (r # dp \/ e.name # name)
  BY <1>1, <1>4
<1>6. \A r \in DOMAIN D, n \in Names : Append(r, n) = p => r = dp /\ n = name
  BY <1>1, AppendInjective
<1>7. TreeTypes(D, C2, I2, P2)
  <2>1. \A d \in DOMAIN C2 : C2[d] \subseteq Listed
    BY <1>1, <1>4
  <2>2. ASSUME NEW r \in DOMAIN P2 PROVE P2[r] \in DOMAIN I2 /\ I2[P2[r]] = r
    <3>1. r \in DOMAIN P /\ r # p /\ P2[r] = P[r]
      BY <1>3
    <3>2. P[r] \in DOMAIN I /\ I[P[r]] = r /\ I[P[p]] = p
      BY <1>1, <3>1
    <3>3. P[r] # P[p]
      BY <3>1, <3>2
    <3> QED BY <1>2, <3>1, <3>2, <3>3
  <2>3. DOMAIN D \cup DOMAIN P2 \subseteq Seq(Names)
    BY <1>1, <1>3
  <2> QED BY <1>1, <1>4, <2>1, <2>2, <2>3 DEF TreeTypes
<1>8. Apart(D, I2, P2)
  <2>1. \A r \in DOMAIN D : r \notin DOMAIN P2
    BY <1>3 DEF IsTree, Apart
  <2>2. ASSUME NEW i \in DOMAIN I2 PROVE I2[i] \in DOMAIN P2 /\ P2[I2[i]] = i
    <3>1. i \in DOMAIN I /\ i # P[p] /\ I2[i] = I[i]
      BY <1>2
    <3>2. I[i] \in DOMAIN P /\ P[I[i]] = i
      BY <3>1 DEF IsTree, Apart
    <3>3. I[i] # p
      BY <3>1, <3>2
    <3> QED BY <1>3, <3>1, <3>2, <3>3
  <2> QED BY <2>1, <2>2 DEF Apart
<1>9. Closed(D, P2)
  BY <1>3 DEF IsTree, Closed
<1>10. Shows(D, C2, P2)
  <2> SUFFICES ASSUME NEW r \in DOMAIN D, NEW n \in Names
               PROVE  LET q == Append(r, n)
                      IN  /\ q \in DOMAIN D => Entry(n, D[q], "dir") \in C2[D[r]]
                          /\ q \in DOMAIN P2 =>
                                \E k \in {"file", "symlink"} : Entry(n, P2[q], k) \in C2[D[r]]
    BY DEF Shows
  <2> DEFINE q == Append(r, n)
  <2>1. /\ q \in DOMAIN D => Entry(n, D[q], "dir") \in C[D[r]]
        /\ q \in DOMAIN P =>
                \E k \in {"file", "symlink"} : Entry(n, P[q], k) \in C[D[r]]
    BY DEF IsTree, Shows
  <2>2. CASE q = p
    BY <1>3, <2>2 DEF IsTree, Apart
  <2>3. CASE q # p
    <3>1. r # dp \/ n # name
      BY <2>3
    <3>2. \A ino, k : Entry(n, ino, k) \in C[D[r]] => Entry(n, ino, k) \in C2[D[r]]
      BY <1>5, <3>1, EntryFacts
    <3> QED BY <1>3, <2>1, <2>3, <3>2
  <2> QED BY <2>2, <2>3
<1>11. Sound(D, C2, I2, P2)
  <2> SUFFICES ASSUME NEW r \in DOMAIN D, NEW e \in C2[D[r]]
               PROVE  Tells(D, I2, P2, r, e)
    BY DEF Sound
  <2>1. e \in C[D[r]] /\ (r # dp \/ e.name # name)
    BY <1>5
  <2>2. e.name \in Names
    BY <1>1, <2>1 DEF Listed
  <2>3. Append(r, e.name) # p
    BY <1>6, <2>1, <2>2
  <2>4. Tells(D, I, P, r, e)
    BY <2>1 DEF IsTree, Sound
  <2> QED BY <1>1, <1>2, <1>3, <2>3, <2>4 DEF Tells
<1>12. Reached(D, C2)
  BY <1>4 DEF IsTree, Reached
<1> QED BY <1>7, <1>8, <1>9, <1>10, <1>11, <1>12 DEF IsTree, I2, P2, C2

\* A directory without entries that is removed from dp.
LEMMA DropDirTree ==
  ASSUME NEW D, NEW C, NEW I, NEW P, TreeTypes(D, C, I, P), IsTree(D, C, I, P),
         NEW dp \in DOMAIN D, NEW name \in Names, NEW p, p = Append(dp, name),
         p \in DOMAIN D, C[D[p]] = {}
  PROVE  IsTree(Without(D, {p}), Dropped(Without(C, {D[p]}), D[dp], name), I, P)
<1> DEFINE D2 == Without(D, {p})
           C1 == Without(C, {D[p]})
           C2 == Dropped(C1, D[dp], name)
<1>1. /\ dp \in Seq(Names) /\ p \in Seq(Names)
      /\ \A r \in DOMAIN D \cup DOMAIN P : r \in Seq(Names)
      /\ \A r \in DOMAIN D : D[r] \in DOMAIN C
      /\ \A r, t \in DOMAIN D : D[r] = D[t] => r = t
      /\ \A d \in DOMAIN C : C[d] \subseteq Listed
  BY DEF TreeTypes
<1>2. DOMAIN D2 = DOMAIN D \ {p} /\ \A r \in DOMAIN D2 : D2[r] = D[r]
  BY DEF Without
<1>3. DOMAIN C1 = DOMAIN C \ {D[p]} /\ \A x \in DOMAIN C1 : C1[x] = C[x]
  BY DEF Without
<1>4. dp # p
  <2>1. Len(p) = Len(dp) + 1 /\ Len(dp) \in Nat
    BY <1>1
  <2> QED BY <2>1
<1> HIDE DEF C1, D2
<1>5. D[dp] \in DOMAIN C1
  BY <1>1, <1>3, <1>4
<1>6. /\ DOMAIN C2 = DOMAIN C1
      /\ C2[D[dp]] = { e \in C1[D[dp]] : e.name # name }
      /\ \A x \in DOMAIN C1 : x # D[dp] => C2[x] = C1[x]
  BY <1>5, DroppedFacts
<1> HIDE DEF C2
<1>7. ASSUME NEW r \in DOMAIN D2
      PROVE  \A e : e \in C2[D[r]] <=> e \in C[D[r]] /\ (r # dp \/ e.name # name)
  <2>1. D[r] \in DOMAIN C1 /\ C1[D[r]] = C[D[r]]
    BY <1>1, <1>2, <1>3
  <2>2. D[r] = D[dp] <=> r = dp
    BY <1>1, <1>2
  <2> QED BY <1>6, <2>1, <2>2
<1>8. \A r \in DOMAIN D, n \in Names : Append(r, n) = p => r = dp /\ n = name
  BY <1>1, AppendInjective
<1>9. \A q \in DOMAIN D \cup DOMAIN P : ~Below(q, p)
  <2> SUFFICES ASSUME NEW q \in DOMAIN D \cup DOMAIN P, Below(q, p) PROVE FALSE
    OBVIOUS
  <2>1. PICK n \in Names : q = Append(p, n) \/ Below(q, Append(p, n))
    BY <1>1, BelowNext
  <2>2. Append(p, n) \in Seq(Names)
    BY <1>1
  <2>3. Append(p, n) \in DOMAIN D \cup DOMAIN P
    BY <2>1, <2>2 DEF IsTree, Closed
  <2> QED BY <2>3 DEF IsTree, Shows
<1>10. Apart(D2, I, P)
  BY <1>2 DEF IsTree, Apart
<1>11. Closed(D2, P)
  BY <1>2, <1>9 DEF IsTree, Closed
<1>12. Shows(D2, C2, P)
  <2> SUFFICES ASSUME NEW r \in DOMAIN D2, NEW n \in Names
               PROVE  LET q == Append(r, n)
                      IN  /\ q \in DOMAIN D2 => Entry(n, D2[q], "dir") \in C2[D2[r]]
                          /\ q \in DOMAIN P =>
                                \E k \in {"file", "symlink"} : Entry(n, P[q], k) \in C2[D2[r]]
    BY DEF Shows
  <2> DEFINE q == Append(r, n)
  <2>1. r \in DOMAIN D /\ D2[r] = D[r]
    BY <1>2
  <2>2. /\ q \in DOMAIN D => Entry(n, D[q], "dir") \in C[D[r]]
        /\ q \in DOMAIN P =>
                \E k \in {"file", "symlink"} : Entry(n, P[q], k) \in C[D[r]]
    BY <2>1 DEF IsTree, Shows
  <2>3. CASE q = p
    BY <1>2, <2>3 DEF IsTree, Apart
  <2>4. CASE q # p
    <3>1. r # dp \/ n # name
      BY <2>4
    <3>2. \A ino, k : Entry(n, ino, k) \in C[D[r]] => Entry(n, ino, k) \in C2[D[r]]
      BY <1>7, <3>1, EntryFacts
    <3> QED BY <1>2, <2>1, <2>2, <2>4, <3>2
  <2> QED BY <2>3, <2>4
<1>13. Sound(D2, C2, I, P)
  <2> SUFFICES ASSUME NEW r \in DOMAIN D2, NEW e \in C2[D2[r]]
               PROVE  Tells(D2, I, P, r, e)
    BY DEF Sound
  <2>1. r \in DOMAIN D /\ e \in C[D[r]] /\ (r # dp \/ e.name # name)
    BY <1>2, <1>7
  <2>2. e.name \in Names
    BY <1>1, <2>1 DEF Listed
  <2>3. Append(r, e.name) # p
    BY <1>8, <2>1, <2>2
  <2>4. Tells(D, I, P, r, e)
    BY <2>1 DEF IsTree, Sound
  <2> QED BY <1>2, <2>3, <2>4 DEF Tells
<1>14. Reached(D2, C2)
  <2> SUFFICES ASSUME NEW x \in DOMAIN C2 PROVE \E r \in DOMAIN D2 : D2[r] = x
    BY DEF Reached
  <2>1. x \in DOMAIN C /\ x # D[p]
    BY <1>3, <1>6
  <2>2. PICK r \in DOMAIN D : D[r] = x
    BY <2>1 DEF IsTree, Reached
  <2> QED BY <1>2, <2>1, <2>2
<1> QED BY <1>10, <1>11, <1>12, <1>13, <1>14 DEF IsTree, D2, C1, C2
\* A file that goes from the directory dp to ep.
LEMMA MoveFileTree ==
  ASSUME NEW D, NEW C, NEW I, NEW P, TreeTypes(D, C, I, P), IsTree(D, C, I, P),
         NEW dp \in DOMAIN D, NEW name \in Names, NEW old, old = Append(dp, name),
         NEW ep \in DOMAIN D, NEW to \in Names, NEW new, new = Append(ep, to),
         old \in DOMAIN P, new \notin DOMAIN D \cup DOMAIN P
  PROVE  IsTree(D, Pushed(Dropped(C, D[dp], name), D[ep], Entry(to, P[old], "file")),
                With(I, P[old], new), With(Without(P, {old}), new, P[old]))
<1> DEFINE ino == P[old]
           C1 == Dropped(C, D[dp], name)
           I1 == Without(I, {ino})
           P1 == Without(P, {old})
<1>1. TreeTypes(D, C1, I1, P1) /\ IsTree(D, C1, I1, P1)
  BY DropFileTree
<1>2. new \notin DOMAIN P1 /\ ino \notin DOMAIN I1
  BY DEF Without
<1>3. ino \in DOMAIN I
  BY DEF TreeTypes
<1>4. With(I1, ino, new) = With(I, ino, new)
  <2>1. DOMAIN I1 \cup {ino} = DOMAIN I \cup {ino}
    BY DEF Without
  <2>2. \A z \in DOMAIN I1 : I1[z] = I[z]
    BY DEF Without
  <2> QED BY <2>1, <2>2 DEF With
<1> HIDE DEF C1, I1, P1, ino
<1>5. IsTree(D, Pushed(C1, D[ep], Entry(to, ino, "file")), With(I1, ino, new), With(P1, new, ino))
  BY <1>1, <1>2, NewFileTree
<1> QED BY <1>4, <1>5 DEF C1, P1, ino

\* g has new for old where f has a key.
KeysMoved(f, g, old, new) ==
    /\ DOMAIN g = { Put(q, old, new) : q \in DOMAIN f }
    /\ \A q \in DOMAIN f : g[Put(q, old, new)] = f[q]

\* And where f has a value.
ValuesMoved(f, g, old, new) ==
    /\ DOMAIN g = DOMAIN f
    /\ \A i \in DOMAIN f : g[i] = Put(f[i], old, new)

\* The maps of a tree in which old has become new.
LEMMA MoveDirTree ==
  ASSUME NEW D, NEW C, NEW I, NEW P, TreeTypes(D, C, I, P), IsTree(D, C, I, P),
         NEW dp \in DOMAIN D, NEW name \in Names, NEW old, old = Append(dp, name),
         NEW ep \in DOMAIN D, NEW to \in Names, NEW new, new = Append(ep, to),
         old \in DOMAIN D, new \notin DOMAIN D \cup DOMAIN P, ~Below(new, old),
         NEW D2, KeysMoved(D, D2, old, new), NEW I2, ValuesMoved(I, I2, old, new),
         NEW P2, KeysMoved(P, P2, old, new)
  PROVE  IsTree(D2, Pushed(Dropped(C, D[dp], name), D[ep], Entry(to, D[old], "dir")), I2, P2)
<1> DEFINE m(q) == Put(q, old, new)
           entry == Entry(to, D[old], "dir")
           C1 == Dropped(C, D[dp], name)
           C2 == Pushed(C1, D[ep], entry)
           All == DOMAIN D \cup DOMAIN P
<1>1. /\ dp \in Seq(Names) /\ ep \in Seq(Names) /\ old \in Seq(Names) /\ new \in Seq(Names)
      /\ \A r \in All : r \in Seq(Names)
      /\ \A r \in DOMAIN D : D[r] \in DOMAIN C
      /\ \A r, t \in DOMAIN D : D[r] = D[t] => r = t
      /\ \A d \in DOMAIN C : C[d] \subseteq Listed
      /\ \A r \in DOMAIN P : P[r] \in DOMAIN I /\ I[P[r]] = r
  BY DEF TreeTypes
<1>2. \A q \in Seq(Names) : m(q) \in Seq(Names)
  <2> TAKE q \in Seq(Names)
  <2>1. CASE Within(q, old)
    BY <1>1, <2>1, PutElements
  <2>2. CASE ~Within(q, old)
    BY <2>2 DEF Put, Moved, Within
  <2> QED BY <2>1, <2>2
<1>3. \A q \in Seq(Names) : ~Within(q, old) => m(q) = q
  BY DEF Put, Moved, Within
<1>4. m(old) = new
  BY DEF Put
<1>5. \A q \in All : ~Within(q, new)
  <2> TAKE q \in All
  <2>1. \A t \in All : ~Below(t, new)
    BY <1>1, NothingBelow
  <2> QED BY <2>1 DEF Within
<1>6. ASSUME NEW q \in All, NEW t \in All, m(q) = m(t) PROVE q = t
  <2>1. q \in Seq(Names) /\ t \in Seq(Names) /\ ~Within(q, new) /\ ~Within(t, new)
    BY <1>1, <1>5
  <2>2. Put(q, old, new) = Put(t, old, new)
    BY <1>6
  <2>3. old \in Seq(Names) /\ new \in Seq(Names)
    BY <1>1
  <2> QED BY <2>1, <2>2, <2>3, PutApart
<1>7. \A q \in DOMAIN D : m(q) \in DOMAIN D2 /\ D2[m(q)] = D[q]
  BY DEF KeysMoved
<1>8. \A q \in DOMAIN P : m(q) \in DOMAIN P2 /\ P2[m(q)] = P[q]
  BY DEF KeysMoved
<1>9. /\ \A x \in DOMAIN D2 : \E q \in DOMAIN D : x = m(q)
      /\ \A x \in DOMAIN P2 : \E q \in DOMAIN P : x = m(q)
  BY DEF KeysMoved
<1>10. DOMAIN I2 = DOMAIN I /\ \A i \in DOMAIN I : I2[i] = m(I[i])
  BY DEF ValuesMoved
<1>11. \A q \in All, t \in Seq(Names) : Below(q, t) => t \in DOMAIN D
  BY DEF IsTree, Closed
<1>12. ~Within(new, old) /\ ~Within(ep, old) /\ m(ep) = ep
  <2>1. ~Within(new, old)
    BY DEF Within
  <2>2. ~Within(ep, old)
    BY <1>1, <2>1, WithinPaths
  <2> QED BY <1>1, <1>3, <2>1, <2>2
<1>13. \A r \in DOMAIN D, n \in Names : Append(r, n) = old => r = dp /\ n = name
  BY <1>1, AppendInjective
<1>14. DOMAIN C1 = DOMAIN C
       /\ \A r \in DOMAIN D : \A e : e \in C1[D[r]] <=> e \in C[D[r]] /\ (r # dp \/ e.name # name)
  <2>1. /\ DOMAIN C1 = DOMAIN C
        /\ C1[D[dp]] = { e \in C[D[dp]] : e.name # name }
        /\ \A x \in DOMAIN C : x # D[dp] => C1[x] = C[x]
    BY <1>1, DroppedFacts
  <2> HIDE DEF C1
  <2> QED BY <1>1, <2>1
<1> HIDE DEF C1
<1>15. DOMAIN C2 = DOMAIN C
       /\ \A r \in DOMAIN D :
            \A e : e \in C2[D[r]] <=> e \in C1[D[r]] \/ (r = ep /\ e = entry)
  <2>1. /\ DOMAIN C2 = DOMAIN C1
        /\ C2[D[ep]] = C1[D[ep]] \cup {entry}
        /\ \A x \in DOMAIN C1 : x # D[ep] => C2[x] = C1[x]
    BY <1>1, <1>14, PushedFacts
  <2> HIDE DEF C2, entry
  <2> QED BY <1>1, <1>14, <2>1
<1>16. entry.name = to /\ entry.ino = D[old] /\ entry.kind = "dir"
  BY EntryFacts
<1> HIDE DEF C2, m, entry
<1>17. \A r \in Seq(Names), n \in Names :
        Within(r, old) => Put(Append(r, n), old, new) = Append(Put(r, old, new), n)
  <2>1. old \in Seq(Names) /\ new \in Seq(Names)
    BY <1>1
  <2>2. \A o \in Seq(Names), w \in Seq(Names) : \A r \in Seq(Names), n \in Names :
            Within(r, o) => Put(Append(r, n), o, w) = Append(Put(r, o, w), n)
    BY PutAppend
  <2> QED BY <2>1, <2>2
\* A path with its parent is moved as the parent is.
<1>18. ASSUME NEW r \in DOMAIN D, NEW n \in Names, Append(r, n) # old
       PROVE  Append(m(r), n) = m(Append(r, n))
  <2>0. r \in Seq(Names) /\ old \in Seq(Names) /\ new \in Seq(Names)
    BY <1>1
  <2>1. CASE Within(r, old)
    <3>1. Put(Append(r, n), old, new) = Append(Put(r, old, new), n)
      BY <1>17, <2>0, <2>1
    <3> QED BY <3>1 DEF m
  <2>2. CASE ~Within(r, old)
    <3>1. ~Within(Append(r, n), old) /\ Append(r, n) \in Seq(Names)
      <4>1. Within(Append(r, n), old) <=> (Append(r, n) = old \/ Within(r, old))
        BY <2>0, WithinAppend
      <4> QED BY <1>18, <2>0, <2>2, <4>1
    <3> QED BY <1>1, <1>3, <2>2, <3>1
  <2> QED BY <2>1, <2>2
<1>19. ASSUME NEW r \in DOMAIN D, NEW n \in Names, NEW q \in All, m(q) = Append(m(r), n), q # old
       PROVE  q = Append(r, n)
  <2>1. CASE Within(q, old)
    <3>1. Below(q, old)
      BY <1>19, <2>1 DEF Within
    <3>2. PICK s \in Seq(Names), k \in Names : q = Append(s, k)
      <4>1. Len(q) > Len(old) /\ Len(old) \in Nat /\ Len(q) \in Nat
        BY <1>1, <3>1 DEF Below
      <4> DEFINE s == SubSeq(q, 1, Len(q) - 1)
      <4>2. s \in Seq(Names) /\ q[Len(q)] \in Names /\ q = Append(s, q[Len(q)])
        BY <1>1, <4>1
      <4> QED BY <4>2
    <3>3. Within(s, old) /\ Below(q, s)
      BY <1>1, <3>1, <3>2, BelowAppend DEF Within
    <3>4. s \in DOMAIN D
      BY <1>11, <3>3
    <3>5. m(Append(s, k)) = Append(m(s), k)
      BY <1>17, <3>3 DEF m
    <3>6. m(s) \in Seq(Names) /\ m(r) \in Seq(Names) /\ Append(m(s), k) = Append(m(r), n)
      BY <1>1, <1>2, <1>19, <3>2, <3>5
    <3>7. m(s) = m(r) /\ k = n
      BY <3>6, AppendInjective
    <3> QED BY <1>6, <3>2, <3>4, <3>7
  <2>2. CASE ~Within(q, old)
    <3>1. q = Append(m(r), n)
      BY <1>1, <1>3, <1>19, <2>2
    <3>2. ~Within(r, old)
      <4> SUFFICES ASSUME Within(r, old) PROVE FALSE
        OBVIOUS
      <4>1. Within(m(r), new) /\ m(r) \in Seq(Names)
        BY <1>1, PutWithin DEF m
      <4>2. new \in Seq(Names)
        BY <1>1
      <4>3. Within(q, new)
        BY <3>1, <4>1, <4>2, WithinAppend
      <4> QED BY <1>5, <4>3
    <3> QED BY <1>1, <1>3, <3>1, <3>2
  <2> QED BY <2>1, <2>2
<1>20. Apart(D2, I2, P2)
  <2>1. ASSUME NEW p \in DOMAIN D2, p \in DOMAIN P2 PROVE FALSE
    <3>1. PICK q \in DOMAIN D : p = m(q)
      BY <1>9
    <3>2. PICK t \in DOMAIN P : p = m(t)
      BY <1>9, <2>1
    <3>3. q = t
      BY <1>6, <3>1, <3>2
    <3> QED BY <3>3 DEF IsTree, Apart
  <2>2. ASSUME NEW i \in DOMAIN I2 PROVE I2[i] \in DOMAIN P2 /\ P2[I2[i]] = i
    <3>1. i \in DOMAIN I
      BY <1>10
    <3>2. I[i] \in DOMAIN P /\ P[I[i]] = i
      BY <3>1 DEF IsTree, Apart
    <3> QED BY <1>8, <1>10, <3>1, <3>2
  <2> QED BY <2>1, <2>2 DEF Apart
<1>21. Closed(D2, P2)
  <2> SUFFICES ASSUME NEW q \in All, NEW u \in Seq(Names), Below(m(q), u)
               PROVE  u \in DOMAIN D2
    <3>1. \A x \in DOMAIN D2 \cup DOMAIN P2 : \E q \in All : x = m(q)
      BY <1>9
    <3> QED BY <3>1 DEF Closed
  <2>1. CASE ~Within(q, old)
    <3>1. Below(q, u)
      BY <1>1, <1>3, <2>1
    <3>2. u \in DOMAIN D /\ ~Within(u, old)
      BY <1>1, <1>11, <2>1, <3>1, WithinPaths
    <3> QED BY <1>3, <1>7, <3>2
  <2>2. CASE Within(q, old)
    <3>1. CASE Below(new, u)
      <4>1. u \in DOMAIN D
        <5>1. u = ep \/ Below(ep, u)
          BY <1>1, <3>1, BelowAppend
        <5> QED BY <1>11, <5>1
      <4>2. ~Within(u, old)
        <5>1. Below(new, u) /\ Within(u, old) => Below(new, old)
          BY <1>1, WithinPaths
        <5> QED BY <3>1, <5>1
      <4> QED BY <1>3, <1>7, <4>1, <4>2
    <3>2. CASE \E r \in Seq(Names) : Within(r, old) /\ m(r) = u /\ Below(q, r)
      BY <1>7, <1>11, <3>2
    <3>3. Below(Put(q, old, new), u)
      BY DEF m
    <3>4. \/ Below(new, u)
          \/ \E r \in Seq(Names) : Within(r, old) /\ Put(r, old, new) = u /\ Below(q, r)
      <4>1. q \in Seq(Names) /\ old \in Seq(Names) /\ new \in Seq(Names)
        BY <1>1
      <4> QED BY <2>2, <3>3, <4>1, PutBelow
    <3> QED BY <3>1, <3>2, <3>4 DEF m
  <2> QED BY <2>1, <2>2
<1>22. Shows(D2, C2, P2)
  <2> SUFFICES ASSUME NEW r \in DOMAIN D, NEW n \in Names
               PROVE  LET q == Append(m(r), n)
                      IN  /\ q \in DOMAIN D2 => Entry(n, D2[q], "dir") \in C2[D2[m(r)]]
                          /\ q \in DOMAIN P2 =>
                                \E k \in {"file", "symlink"} : Entry(n, P2[q], k) \in C2[D2[m(r)]]
    BY <1>9 DEF Shows
  <2>1. D2[m(r)] = D[r]
    BY <1>7
  <2>2. ASSUME NEW q \in All, q # old, Append(m(r), n) = m(q)
        PROVE  /\ q = Append(r, n)
               /\ \A ino, k : Entry(n, ino, k) \in C[D[r]] => Entry(n, ino, k) \in C2[D[r]]
    <3>1. q = Append(r, n)
      BY <1>19, <2>2
    <3>2. r # dp \/ n # name
      BY <2>2, <3>1
    <3>3. \A ino, k : Entry(n, ino, k).name = n
      BY EntryFacts
    <3> QED BY <1>14, <1>15, <3>1, <3>2, <3>3
  <2>3. ASSUME Append(m(r), n) \in DOMAIN D2
        PROVE  Entry(n, D2[Append(m(r), n)], "dir") \in C2[D[r]]
    <3>1. PICK q \in DOMAIN D : Append(m(r), n) = m(q)
      BY <1>9, <2>3
    <3>2. CASE q = old
      <4>1. Append(m(r), n) = Append(ep, to)
        BY <1>4, <3>1, <3>2
      <4>2. m(r) = ep /\ n = to
        BY <1>1, <1>2, <4>1, AppendInjective
      <4>3. r = ep
        BY <1>6, <1>12, <4>2
      <4> QED BY <1>7, <1>15, <3>1, <3>2, <4>2, <4>3 DEF entry
    <3>3. CASE q # old
      <4>1. q = Append(r, n) /\ D2[m(q)] = D[q]
        BY <1>7, <2>2, <3>1, <3>3
      <4>2. Entry(n, D[q], "dir") \in C[D[r]]
        BY <4>1 DEF IsTree, Shows
      <4> QED BY <2>2, <3>1, <3>3, <4>1, <4>2
    <3> QED BY <3>2, <3>3
  <2>4. ASSUME Append(m(r), n) \in DOMAIN P2
        PROVE  \E k \in {"file", "symlink"} : Entry(n, P2[Append(m(r), n)], k) \in C2[D[r]]
    <3>1. PICK q \in DOMAIN P : Append(m(r), n) = m(q)
      BY <1>9, <2>4
    <3>2. q # old
      <4>1. \A x \in DOMAIN D : x \notin DOMAIN P
        BY DEF IsTree, Apart
      <4> QED BY <4>1
    <3>3. q = Append(r, n) /\ P2[m(q)] = P[q]
      BY <1>8, <2>2, <3>1, <3>2
    <3>4. PICK k \in {"file", "symlink"} : Entry(n, P[q], k) \in C[D[r]]
      BY <3>3 DEF IsTree, Shows
    <3> QED BY <2>2, <3>1, <3>2, <3>3, <3>4
  <2> QED BY <2>1, <2>3, <2>4
<1>23. Sound(D2, C2, I2, P2)
  <2> SUFFICES ASSUME NEW r \in DOMAIN D, NEW e \in C2[D[r]]
               PROVE  Tells(D2, I2, P2, m(r), e)
    <3>1. ASSUME NEW x \in DOMAIN D2 PROVE \E r \in DOMAIN D : x = m(r) /\ D2[x] = D[r]
      <4>1. PICK r \in DOMAIN D : x = m(r)
        BY <1>9
      <4> QED BY <1>7, <4>1
    <3> QED BY <3>1 DEF Sound
  <2>1. CASE r = ep /\ e = entry
    <3>1. Append(m(r), e.name) = new /\ e.kind = "dir" /\ e.ino = D[old]
      BY <1>12, <1>16, <2>1
    <3>2. new \in DOMAIN D2 /\ D2[new] = D[old]
      BY <1>4, <1>7
    <3> QED BY <3>1, <3>2 DEF Tells
  <2>2. CASE ~(r = ep /\ e = entry)
    <3>1. e \in C[D[r]] /\ (r # dp \/ e.name # name)
      BY <1>14, <1>15, <2>2
    <3>2. e.name \in Names
      BY <1>1, <3>1 DEF Listed
    <3> DEFINE q == Append(r, e.name)
    <3>3. q # old
      BY <1>13, <3>1, <3>2
    <3>4. Append(m(r), e.name) = m(q)
      BY <1>18, <3>2, <3>3
    <3>5. Tells(D, I, P, r, e)
      BY <3>1 DEF IsTree, Sound
    <3> QED BY <1>7, <1>8, <1>10, <3>4, <3>5 DEF Tells
  <2> QED BY <2>1, <2>2
<1>24. Reached(D2, C2)
  BY <1>7, <1>15 DEF IsTree, Reached
<1> QED BY <1>20, <1>21, <1>22, <1>23, <1>24 DEF IsTree, C2, C1, entry
-----------------------------------------------------------------------------
(* The tree of a mount *)

\* Of two entries of an archive no two have one path, and none is below a file.
PathsUnique ==
    \A r \in RowsOf({"file", "symlink"}), t \in RowsOf({"file", "dir", "symlink"}) :
        r # t => r[1] # t[1] /\ r[1] \notin Prefixes(t[1])

TreeInv ==
    /\ IsTree(dir_inodes, dir_contents, inode_to_path, path_to_inode)
    /\ mounted \/ DOMAIN inode_to_path = {}

LEMMA MapTypes ==
  ASSUME FsInv
  PROVE  TreeTypes(dir_inodes, dir_contents, inode_to_path, path_to_inode)
<1>1. DirsType /\ DirsFresh /\ FilesType /\ InodesSound
  BY FsParts
<1>2. DOMAIN dir_inodes \cup DOMAIN path_to_inode \subseteq Seq(Names)
  BY <1>1, PathsAreSeqs DEF DirsType, FilesType, DirPath
<1> QED BY <1>1, <1>2 DEF TreeTypes, DirsType, DirsFresh, InodesSound

\* Every directory that a request may be for has a path.
LEMMA PathOfDirectory ==
  ASSUME TreeInv, NEW d \in DOMAIN dir_contents
  PROVE  PathOf(d) \in DOMAIN dir_inodes /\ dir_inodes[PathOf(d)] = d
<1>1. \E p \in DOMAIN dir_inodes : dir_inodes[p] = d
  BY DEF TreeInv, IsTree, Reached
<1> QED BY <1>1 DEF PathOf

LEMMA CreateDirectoryTree ==
  ASSUME FsInv, TreeInv, NEW d, NEW name \in Names, CreateDirectory(d, name)
  PROVE  TreeInv'
<1> DEFINE p == Append(PathOf(d), name)
           ino == next_dir_ino
<1>1. /\ mounted /\ d \in DOMAIN dir_contents
      /\ p \notin DOMAIN dir_inodes \cup DOMAIN path_to_inode
      /\ dir_inodes' = With(dir_inodes, p, ino)
      /\ dir_contents' = Pushed(With(dir_contents, ino, {}), d, Entry(name, ino, "dir"))
      /\ UNCHANGED <<mounted, inode_to_path, path_to_inode>>
  BY DEF CreateDirectory, IsNew
<1>2. PathOf(d) \in DOMAIN dir_inodes /\ dir_inodes[PathOf(d)] = d
  BY <1>1, PathOfDirectory
<1>3. ino \notin DOMAIN dir_contents
  BY FsParts DEF DirsFresh, DirsType, DirIno
<1>4. TreeTypes(dir_inodes, dir_contents, inode_to_path, path_to_inode)
      /\ IsTree(dir_inodes, dir_contents, inode_to_path, path_to_inode)
  BY MapTypes DEF TreeInv
<1>5. p = Append(PathOf(d), name)
  OBVIOUS
<1> HIDE DEF p, ino
<1>6. IsTree(With(dir_inodes, p, ino),
             Pushed(With(dir_contents, ino, {}), dir_inodes[PathOf(d)], Entry(name, ino, "dir")),
             inode_to_path, path_to_inode)
  BY <1>1, <1>2, <1>3, <1>4, <1>5, NewDirTree
<1>7. IsTree(dir_inodes', dir_contents', inode_to_path', path_to_inode')
  BY <1>1, <1>2, <1>6
<1> QED BY <1>1, <1>7 DEF TreeInv

LEMMA NewInodeTree ==
  ASSUME FsInv, TreeInv, NEW d, NEW name \in Names, NEW kind \in {"file", "symlink"},
         NewInode(d, name, kind)
  PROVE  TreeInv'
<1> DEFINE p == Append(PathOf(d), name)
           ino == next_file_ino
<1>1. /\ mounted /\ d \in DOMAIN dir_contents
      /\ p \notin DOMAIN dir_inodes \cup DOMAIN path_to_inode
      /\ inode_to_path' = With(inode_to_path, ino, p)
      /\ path_to_inode' = With(path_to_inode, p, ino)
      /\ dir_contents' = Pushed(dir_contents, d, Entry(name, ino, kind))
      /\ UNCHANGED <<mounted, dir_inodes>>
  BY DEF NewInode, IsNew
<1>2. PathOf(d) \in DOMAIN dir_inodes /\ dir_inodes[PathOf(d)] = d
  BY <1>1, PathOfDirectory
<1>3. ino \notin DOMAIN inode_to_path
  BY FsParts DEF FilesFresh, FilesType
<1>4. TreeTypes(dir_inodes, dir_contents, inode_to_path, path_to_inode)
      /\ IsTree(dir_inodes, dir_contents, inode_to_path, path_to_inode)
  BY MapTypes DEF TreeInv
<1>5. p = Append(PathOf(d), name)
  OBVIOUS
<1> HIDE DEF p, ino
<1>6. IsTree(dir_inodes, Pushed(dir_contents, dir_inodes[PathOf(d)], Entry(name, ino, kind)),
             With(inode_to_path, ino, p), With(path_to_inode, p, ino))
  BY <1>1, <1>2, <1>3, <1>4, <1>5, NewFileTree
<1>7. IsTree(dir_inodes', dir_contents', inode_to_path', path_to_inode')
  BY <1>1, <1>2, <1>6
<1> QED BY <1>1, <1>7 DEF TreeInv

LEMMA RemoveDirectoryTree ==
  ASSUME FsInv, TreeInv, NEW d, NEW name \in Names, RemoveDirectory(d, name)
  PROVE  TreeInv'
<1> DEFINE p == Append(PathOf(d), name)
<1>1. /\ mounted /\ d \in DOMAIN dir_contents
      /\ p \in DOMAIN dir_inodes /\ dir_contents[dir_inodes[p]] = {}
      /\ dir_inodes' = Without(dir_inodes, {p})
      /\ dir_contents' = Dropped(Without(dir_contents, {dir_inodes[p]}), d, name)
      /\ UNCHANGED <<mounted, inode_to_path, path_to_inode>>
  BY DEF RemoveDirectory
<1>2. PathOf(d) \in DOMAIN dir_inodes /\ dir_inodes[PathOf(d)] = d
  BY <1>1, PathOfDirectory
<1>3. TreeTypes(dir_inodes, dir_contents, inode_to_path, path_to_inode)
      /\ IsTree(dir_inodes, dir_contents, inode_to_path, path_to_inode)
  BY MapTypes DEF TreeInv
<1>4. p = Append(PathOf(d), name)
  OBVIOUS
<1> HIDE DEF p
<1>5. IsTree(Without(dir_inodes, {p}),
             Dropped(Without(dir_contents, {dir_inodes[p]}), dir_inodes[PathOf(d)], name),
             inode_to_path, path_to_inode)
  BY <1>1, <1>2, <1>3, <1>4, DropDirTree
<1>6. IsTree(dir_inodes', dir_contents', inode_to_path', path_to_inode')
  BY <1>1, <1>2, <1>5
<1> QED BY <1>1, <1>6 DEF TreeInv

LEMMA RemoveFileTree ==
  ASSUME FsInv, TreeInv, NEW d, NEW name \in Names, RemoveFile(d, name)
  PROVE  TreeInv'
<1> DEFINE p == Append(PathOf(d), name)
<1>1. /\ mounted /\ d \in DOMAIN dir_contents /\ p \in DOMAIN path_to_inode
      /\ inode_to_path' = Without(inode_to_path, {path_to_inode[p]})
      /\ path_to_inode' = Without(path_to_inode, {p})
      /\ dir_contents' = Dropped(dir_contents, d, name)
      /\ UNCHANGED <<mounted, dir_inodes>>
  BY DEF RemoveFile
<1>2. PathOf(d) \in DOMAIN dir_inodes /\ dir_inodes[PathOf(d)] = d
  BY <1>1, PathOfDirectory
<1>3. TreeTypes(dir_inodes, dir_contents, inode_to_path, path_to_inode)
      /\ IsTree(dir_inodes, dir_contents, inode_to_path, path_to_inode)
  BY MapTypes DEF TreeInv
<1>4. p = Append(PathOf(d), name)
  OBVIOUS
<1> HIDE DEF p
<1>5. IsTree(dir_inodes, Dropped(dir_contents, dir_inodes[PathOf(d)], name),
             Without(inode_to_path, {path_to_inode[p]}), Without(path_to_inode, {p}))
  BY <1>1, <1>2, <1>3, <1>4, DropFileTree
<1>6. IsTree(dir_inodes', dir_contents', inode_to_path', path_to_inode')
  BY <1>1, <1>2, <1>5
<1> QED BY <1>1, <1>6 DEF TreeInv

LEMMA RenameFileTree ==
  ASSUME FsInv, TreeInv, NEW d, NEW name \in Names, NEW e, NEW to \in Names,
         RenameFile(d, name, e, to)
  PROVE  TreeInv'
<1> DEFINE old == Append(PathOf(d), name)
           new == Append(PathOf(e), to)
           ino == path_to_inode[old]
           over == {new} \cap DOMAIN path_to_inode
           overInos == { path_to_inode[p] : p \in over }
           listed == IF over = {} THEN dir_contents ELSE Dropped(dir_contents, e, to)
           inodes == With(Without(path_to_inode, over \cup {old}), new, ino)
           paths == With(Without(inode_to_path, overInos), ino, new)
           contents == Pushed(Dropped(listed, d, name), e, Entry(to, ino, "file"))
           dp == PathOf(d)
           ep == PathOf(e)
           D == dir_inodes
           C == dir_contents
           I == inode_to_path
           P == path_to_inode
<1>1. /\ mounted /\ {d, e} \subseteq DOMAIN C
      /\ old \in DOMAIN P /\ new # old /\ new \notin DOMAIN D
      /\ P' = inodes /\ I' = paths /\ C' = contents
      /\ UNCHANGED <<mounted, dir_inodes>>
  BY DEF RenameFile
<1>2. dp \in DOMAIN D /\ D[dp] = d /\ ep \in DOMAIN D /\ D[ep] = e
  BY <1>1, PathOfDirectory
<1>3. TreeTypes(D, C, I, P) /\ IsTree(D, C, I, P)
  BY MapTypes DEF TreeInv
<1>4. old = Append(dp, name) /\ new = Append(ep, to)
  OBVIOUS
<1> HIDE DEF old, new, D, C, I, P, dp, ep
<1>5. IsTree(D, contents, paths, inodes)
  <2>1. CASE new \notin DOMAIN P
    <3>1. over = {} /\ overInos = {} /\ listed = C
      BY <2>1 DEF P, C
    <3>2. IsTree(D, Pushed(Dropped(C, D[dp], name), D[ep], Entry(to, P[old], "file")),
                 With(I, P[old], new), With(Without(P, {old}), new, P[old]))
      BY <1>1, <1>2, <1>3, <1>4, <2>1, MoveFileTree
    <3>3. paths = With(I, P[old], new)
      <4>1. paths = With(Without(I, {}), P[old], new)
        BY <3>1 DEF I, P
      <4>2. With(Without(I, {}), P[old], new) = With(I, P[old], new)
        BY DEF With, Without
      <4> QED BY <4>1, <4>2
    <3>4. inodes = With(Without(P, {old}), new, P[old])
      <4>1. over \cup {old} = {old}
        BY <3>1
      <4> QED BY <4>1 DEF P
    <3>5. contents = Pushed(Dropped(C, D[dp], name), D[ep], Entry(to, P[old], "file"))
      BY <1>2, <3>1 DEF P
    <3> QED BY <3>2, <3>3, <3>4, <3>5
  <2>2. CASE new \in DOMAIN P
    <3> DEFINE C1 == Dropped(C, D[ep], to)
               I1 == Without(I, {P[new]})
               P1 == Without(P, {new})
    <3>1. over = {new} /\ overInos = {P[new]} /\ listed = C1
      BY <1>2, <2>2 DEF P, C
    <3>2. TreeTypes(D, C1, I1, P1) /\ IsTree(D, C1, I1, P1)
      BY <1>2, <1>3, <1>4, <2>2, DropFileTree
    <3>3. old \in DOMAIN P1 /\ P1[old] = P[old] /\ new \notin DOMAIN P1
      BY <1>1 DEF Without
    <3> HIDE DEF C1, I1, P1
    <3>4. IsTree(D, Pushed(Dropped(C1, D[dp], name), D[ep], Entry(to, P1[old], "file")),
                 With(I1, P1[old], new), With(Without(P1, {old}), new, P1[old]))
      BY <1>1, <1>2, <1>4, <3>2, <3>3, MoveFileTree
    <3>5. paths = With(I1, P1[old], new)
      <4>1. paths = With(Without(I, {P[new]}), P[old], new)
        BY <3>1 DEF I, P
      <4> QED BY <3>3, <4>1 DEF I1
    <3>6. inodes = With(Without(P1, {old}), new, P1[old])
      <4>1. inodes = With(Without(P, {new} \cup {old}), new, P[old])
        BY <3>1 DEF P
      <4>2. Without(P, {new} \cup {old}) = Without(P1, {old})
        BY DEF Without, P1
      <4> QED BY <3>3, <4>1, <4>2
    <3>7. contents = Pushed(Dropped(C1, D[dp], name), D[ep], Entry(to, P1[old], "file"))
      BY <1>2, <3>1, <3>3 DEF P
    <3> QED BY <3>4, <3>5, <3>6, <3>7
  <2> QED BY <2>1, <2>2
<1>6. IsTree(dir_inodes', dir_contents', inode_to_path', path_to_inode')
  BY <1>1, <1>5 DEF D, C, I, P
<1> QED BY <1>1, <1>6 DEF TreeInv
\* The maps after a directory's rename are the maps before it, with new for old.
LEMMA RenamedMaps ==
  ASSUME FsInv, TreeInv, NEW d, NEW name \in Names, NEW e, NEW to \in Names,
         RenameDirectory(d, name, e, to)
  PROVE  LET old == Append(PathOf(d), name)
             new == Append(PathOf(e), to)
         IN  /\ old \in Seq(Names) /\ new \in Seq(Names)
             /\ \A q \in DOMAIN dir_inodes \cup DOMAIN path_to_inode :
                    q \in Seq(Names) /\ ~Within(q, new)
             /\ KeysMoved(dir_inodes, dir_inodes', old, new)
             /\ ValuesMoved(inode_to_path, inode_to_path', old, new)
             /\ KeysMoved(path_to_inode, path_to_inode', old, new)
<1> DEFINE old == Append(PathOf(d), name)
           new == Append(PathOf(e), to)
           D == dir_inodes
           I == inode_to_path
           P == path_to_inode
           ino == D[old]
           i2p == [i \in DOMAIN I |-> Moved(I[i], old, new)]
           moved == { i \in DOMAIN I : Below(I[i], old) }
           stay == { p \in DOMAIN P : ~Below(p, old) }
           others == Without(D, {old})
           dirs == Rekeyed(others, old, new)
           put(q) == Put(q, old, new)
<1>1. /\ old \in DOMAIN D \ DOMAIN P /\ new \in Path
      /\ new \notin DOMAIN D \cup DOMAIN P
      /\ D' = With(dirs, new, ino)
      /\ I' = i2p
      /\ P' \in [stay \cup { i2p[i] : i \in moved } -> DOMAIN I]
      /\ \A p \in DOMAIN P' :
            IF \E i \in moved : i2p[i] = p THEN P'[p] \in moved /\ i2p[P'[p]] = p
            ELSE P'[p] = P[p]
  BY DEF RenameDirectory
<1> HIDE DEF old, new
<1>2. TreeTypes(D, dir_contents, I, P) /\ IsTree(D, dir_contents, I, P)
  BY MapTypes DEF TreeInv
<1>3. /\ \A q \in DOMAIN D \cup DOMAIN P : q \in Seq(Names)
      /\ new \in Seq(Names) /\ old \in Seq(Names)
      /\ \A i \in DOMAIN I : I[i] \in DOMAIN P /\ P[I[i]] = i
      /\ \A q \in DOMAIN P : P[q] \in DOMAIN I /\ I[P[q]] = q
  BY <1>1, <1>2, PathsAreSeqs DEF TreeTypes, IsTree, Apart, DirPath
<1>4. \A q \in DOMAIN D \cup DOMAIN P : ~Within(q, new)
  BY <1>1, <1>2, <1>3, NothingBelow DEF Within
<1>5. ASSUME NEW q \in DOMAIN D \cup DOMAIN P, NEW t \in DOMAIN D \cup DOMAIN P, put(q) = put(t)
      PROVE  q = t
  <2>1. q \in Seq(Names) /\ t \in Seq(Names) /\ ~Within(q, new) /\ ~Within(t, new)
    BY <1>3, <1>4
  <2> QED BY <1>3, <1>5, <2>1, PutApart
<1>6. /\ put(old) = new
      /\ \A q : q # old => put(q) = Moved(q, old, new)
      /\ \A q : ~Within(q, old) => put(q) = q
  BY DEF Put, Moved, Within
<1> HIDE DEF put
<1>7. DOMAIN others = DOMAIN D \ {old} /\ \A q \in DOMAIN others : others[q] = D[q]
  BY DEF Without
<1>8. DOMAIN dirs = { Moved(q, old, new) : q \in DOMAIN others }
  BY DEF Rekeyed
<1>9. \A x \in DOMAIN dirs : \E q \in DOMAIN others :
            Moved(q, old, new) = x /\ dirs[x] = others[q]
  <2> HIDE DEF others
  <2>1. dirs = Rekeyed(others, old, new)
    OBVIOUS
  <2> HIDE DEF dirs
  <2> QED BY <2>1, RekeyedFrom
<1> HIDE DEF others, dirs
<1>10. /\ DOMAIN D' = DOMAIN dirs \cup {new}
       /\ \A x \in DOMAIN D' : D'[x] = IF x = new THEN ino ELSE dirs[x]
  BY <1>1 DEF With
<1>11. DOMAIN D' = { put(q) : q \in DOMAIN D }
  <2>1. \A q \in DOMAIN D : put(q) \in DOMAIN D'
    BY <1>6, <1>7, <1>8, <1>10
  <2>2. ASSUME NEW x \in DOMAIN D' PROVE \E q \in DOMAIN D : x = put(q)
    <3>1. CASE x = new
      BY <1>1, <1>6, <3>1
    <3>2. CASE x # new
      BY <1>6, <1>7, <1>8, <1>10, <3>2
    <3> QED BY <3>1, <3>2
  <2> QED BY <2>1, <2>2
<1>12. ASSUME NEW q \in DOMAIN D PROVE D'[put(q)] = D[q]
  <2>1. put(q) \in DOMAIN D'
    BY <1>11
  <2>2. CASE q = old
    BY <1>6, <1>10, <2>1, <2>2
  <2>3. CASE q # old
    <3>1. put(q) # new
      BY <1>1, <1>5, <1>6, <2>3
    <3>2. put(q) \in DOMAIN dirs /\ D'[put(q)] = dirs[put(q)]
      BY <1>10, <2>1, <3>1
    <3>3. PICK t \in DOMAIN others : Moved(t, old, new) = put(q) /\ dirs[put(q)] = others[t]
      BY <1>9, <3>2
    <3>4. t \in DOMAIN D /\ t # old /\ put(t) = put(q)
      BY <1>6, <1>7, <3>3
    <3>5. t = q
      BY <1>5, <3>4
    <3> QED BY <1>7, <3>2, <3>3, <3>5
  <2> QED BY <2>2, <2>3
<1>13. DOMAIN I' = DOMAIN I /\ \A i \in DOMAIN I : I'[i] = Moved(I[i], old, new) /\ I'[i] = i2p[i]
  BY <1>1
<1>14. \A i \in DOMAIN I : I'[i] = put(I[i])
  <2>1. \A i \in DOMAIN I : I[i] # old
    <3>1. old \notin DOMAIN P
      BY <1>1
    <3> QED BY <1>3, <3>1
  <2> QED BY <1>6, <1>13, <2>1
<1>15. DOMAIN P' = stay \cup { i2p[i] : i \in moved }
  BY <1>1
<1>16. \A i \in moved : i \in DOMAIN I /\ i2p[i] = put(I[i]) /\ Below(I[i], old)
  BY <1>13, <1>14
<1>17. \A q \in DOMAIN P : ~Below(q, old) => put(q) = q
  BY <1>1, <1>6 DEF Within
<1>18. DOMAIN P' = { put(q) : q \in DOMAIN P }
  <2>1. ASSUME NEW q \in DOMAIN P PROVE put(q) \in DOMAIN P'
    <3>1. CASE Below(q, old)
      <4>1. P[q] \in moved /\ i2p[P[q]] = put(q)
        BY <1>3, <1>16, <3>1
      <4> QED BY <1>15, <4>1
    <3>2. CASE ~Below(q, old)
      BY <1>15, <1>17, <3>2
    <3> QED BY <3>1, <3>2
  <2>2. ASSUME NEW x \in DOMAIN P' PROVE \E q \in DOMAIN P : x = put(q)
    <3>1. CASE x \in stay
      BY <1>17, <3>1
    <3>2. CASE x \notin stay
      <4>1. PICK i \in moved : x = i2p[i]
        BY <1>15, <3>2
      <4> QED BY <1>3, <1>16, <4>1
    <3> QED BY <3>1, <3>2
  <2> QED BY <2>1, <2>2
<1> HIDE DEF i2p, moved, stay
<1>19. ASSUME NEW q \in DOMAIN P PROVE P'[put(q)] = P[q]
  <2> DEFINE x == put(q)
  <2>1. x \in DOMAIN P'
    BY <1>18
  <2>2. CASE \E i \in moved : i2p[i] = x
    <3>1. P'[x] \in moved /\ i2p[P'[x]] = x
      BY <1>1, <2>1, <2>2
    <3>2. P'[x] \in DOMAIN I /\ put(I[P'[x]]) = x
      BY <1>16, <3>1
    <3>3. I[P'[x]] \in DOMAIN P
      BY <1>3, <3>2
    <3>4. I[P'[x]] = q
      BY <1>5, <3>2, <3>3
    <3> QED BY <1>3, <3>2, <3>4
  <2>3. CASE ~\E i \in moved : i2p[i] = x
    <3>1. P'[x] = P[x]
      BY <1>1, <2>1, <2>3
    <3>2. ~Below(q, old)
      <4> SUFFICES ASSUME Below(q, old) PROVE FALSE
        OBVIOUS
      <4>1. P[q] \in moved
        BY <1>3 DEF moved
      <4> QED BY <1>3, <1>16, <2>3, <4>1
    <3> QED BY <1>17, <3>1, <3>2
  <2> QED BY <2>2, <2>3
<1>20. KeysMoved(D, D', old, new)
  BY <1>11, <1>12 DEF KeysMoved, put
<1>21. ValuesMoved(I, I', old, new)
  BY <1>13, <1>14 DEF ValuesMoved, put
<1>22. KeysMoved(P, P', old, new)
  BY <1>18, <1>19 DEF KeysMoved, put
<1> QED BY <1>3, <1>4, <1>20, <1>21, <1>22 DEF old, new

LEMMA RenameDirectoryTree ==
  ASSUME FsInv, TreeInv, NEW d, NEW name \in Names, NEW e, NEW to \in Names,
         RenameDirectory(d, name, e, to)
  PROVE  TreeInv'
<1> DEFINE old == Append(PathOf(d), name)
           new == Append(PathOf(e), to)
<1>1. /\ mounted /\ {d, e} \subseteq DOMAIN dir_contents
      /\ old \in DOMAIN dir_inodes /\ ~Below(new, old)
      /\ new \notin DOMAIN dir_inodes \cup DOMAIN path_to_inode
      /\ dir_contents' = Pushed(Dropped(dir_contents, d, name), e, Entry(to, dir_inodes[old], "dir"))
      /\ UNCHANGED mounted
  BY DEF RenameDirectory
<1>2. /\ PathOf(d) \in DOMAIN dir_inodes /\ dir_inodes[PathOf(d)] = d
      /\ PathOf(e) \in DOMAIN dir_inodes /\ dir_inodes[PathOf(e)] = e
  BY <1>1, PathOfDirectory
<1>3. TreeTypes(dir_inodes, dir_contents, inode_to_path, path_to_inode)
      /\ IsTree(dir_inodes, dir_contents, inode_to_path, path_to_inode)
  BY MapTypes DEF TreeInv
<1>4. old = Append(PathOf(d), name) /\ new = Append(PathOf(e), to)
  OBVIOUS
<1>5. /\ KeysMoved(dir_inodes, dir_inodes', old, new)
      /\ ValuesMoved(inode_to_path, inode_to_path', old, new)
      /\ KeysMoved(path_to_inode, path_to_inode', old, new)
  BY RenamedMaps
<1> HIDE DEF old, new
<1>6. IsTree(dir_inodes',
             Pushed(Dropped(dir_contents, dir_inodes[PathOf(d)], name), dir_inodes[PathOf(e)],
                    Entry(to, dir_inodes[old], "dir")),
             inode_to_path', path_to_inode')
  BY <1>1, <1>2, <1>3, <1>4, <1>5, MoveDirTree
<1>7. IsTree(dir_inodes', dir_contents', inode_to_path', path_to_inode')
  BY <1>1, <1>2, <1>6
<1> QED BY <1>1, <1>7 DEF TreeInv
\* What is above a path.
LEMMA PrefixesBelow ==
  ASSUME NEW p \in Path, NEW q \in Seq(Names)
  PROVE  Below(p, q) <=> q \in Prefixes(p)
<1>1. p \in Seq(Names) /\ Len(p) \in Nat /\ Len(q) \in Nat
  BY BaleFsAssumption
<1>2. ASSUME Below(p, q) PROVE q \in Prefixes(p)
  <2>1. Len(p) > Len(q) /\ SubSeq(p, 1, Len(q)) = q
    BY <1>2 DEF Below
  <2>2. Len(q) \in 0..(Len(p) - 1)
    BY <1>1, <2>1
  <2> QED BY <2>1, <2>2 DEF Prefixes
<1>3. ASSUME q \in Prefixes(p) PROVE Below(p, q)
  <2>1. PICK n \in 0..(Len(p) - 1) : q = SubSeq(p, 1, n)
    BY <1>3 DEF Prefixes
  <2>2. Len(q) = n /\ n < Len(p)
    BY <1>1, <2>1
  <2> QED BY <2>1, <2>2 DEF Below
<1> QED BY <1>2, <1>3

\* A path of an entry is its parent's and its name.
LEMMA ParentAndName ==
  ASSUME NEW p \in Path
  PROVE  /\ Name(p) \in Names /\ Parent(p) \in Seq(Names)
         /\ p = Append(Parent(p), Name(p)) /\ Below(p, Parent(p)) /\ p # RootPath
<1>1. p \in Seq(Names) /\ Len(p) > 0 /\ Len(p) \in Nat
  BY BaleFsAssumption
<1>2. Name(p) \in Names
  BY DEF Names
<1>3. Parent(p) \in Seq(Names) /\ Len(Parent(p)) = Len(p) - 1
  <2> DEFINE n == Len(p) - 1
  <2>1. n \in Nat /\ n <= Len(p)
    BY <1>1
  <2> HIDE DEF n
  <2>2. SubSeq(p, 1, n) \in Seq(Names) /\ Len(SubSeq(p, 1, n)) = n
    BY <1>1, <2>1
  <2> QED BY <2>2 DEF Parent, n
<1>4. p = Append(Parent(p), Name(p))
  BY <1>1 DEF Parent, Name
<1>5. Below(p, Parent(p))
  BY <1>1, <1>3 DEF Below, Parent
<1>6. p # RootPath
  BY <1>1 DEF RootPath
<1> QED BY <1>2, <1>3, <1>4, <1>5, <1>6

\* A path with a name after it is an entry's with that parent and that name.
LEMMA AppendIsChild ==
  ASSUME NEW p \in Seq(Names), NEW n \in Names
  PROVE  /\ Append(p, n) \in Seq(Names) /\ Append(p, n) # RootPath
         /\ Parent(Append(p, n)) = p /\ Name(Append(p, n)) = n
<1>1. /\ Append(p, n) \in Seq(Names) /\ Len(Append(p, n)) = Len(p) + 1 /\ Len(p) \in Nat
      /\ Append(p, n)[Len(p) + 1] = n
  OBVIOUS
<1>2. Append(p, n) # RootPath
  BY <1>1 DEF RootPath
<1>3. Parent(Append(p, n)) = p
  <2> DEFINE a == Append(p, n)
             s == SubSeq(a, 1, Len(p))
  <2>1. \A k \in 1..Len(p) : a[k] = p[k]
    OBVIOUS
  <2>2. Len(a) - 1 = Len(p)
    BY <1>1
  <2>3. s \in Seq(Names) /\ Len(s) = Len(p) /\ \A k \in 1..Len(s) : s[k] = p[k]
    BY <1>1, <2>1
  <2> HIDE DEF s
  <2>4. s = p
    BY <2>3, SameElements
  <2> QED BY <2>2, <2>4 DEF Parent, s
<1>4. Name(Append(p, n)) = n
  BY <1>1 DEF Name
<1> QED BY <1>1, <1>2, <1>3, <1>4

\* The tree of an archive in which paths are unique.
LEMMA MountTree ==
  ASSUME FsInv, Mount, PathsUnique
  PROVE  TreeInv'
<1> DEFINE files == RowsOf({"file", "symlink"})
           entries == RowsOf({"file", "dir", "symlink"})
           dirs == ({ r[1] : r \in RowsOf({"dir"}) } \cup UNION { Prefixes(r[1]) : r \in entries })
                   \ {RootPath}
           f == Numbering(files)
           dn == Numbering(dirs)
           d == With(dn, RootPath, Root)
           last(p) == CHOOSE r \in files : r[1] = p /\ \A t \in files : t[1] = p => t[2] <= r[2]
           nf == Cardinality(files)
           nd == Cardinality(dirs)
           kind(r) == archive[r[1]][r[2]].kind
           under(i) == { Entry(Name(p), d[p], "dir") : p \in { q \in dirs : d[Parent(q)] = i } }
           in(i) == { Entry(Name(r[1]), f[r], kind(r)) : r \in { t \in files : d[Parent(t[1])] = i } }
           D == dir_inodes'
           C == dir_contents'
           I == inode_to_path'
           P == path_to_inode'
<1>1. /\ mounted' = TRUE
      /\ D = d
      /\ C = [i \in 0..nd |-> under(i) \cup in(i)]
      /\ I = [i \in 1..nf |-> (CHOOSE r \in files : f[r] = i)[1]]
      /\ P = [p \in { r[1] : r \in files } |-> f[last(p)]]
  BY DEF Mount
<1>2. ArchiveType(archive)
  BY FsParts
<1>3. /\ files \subseteq entries /\ RowsOf({"dir"}) \subseteq entries
      /\ files \cap RowsOf({"dir"}) = {}
      /\ entries \subseteq Rows(archive)
      /\ \A r \in files : kind(r) \in {"file", "symlink"}
  BY DEF RowsOf
<1>4. \A r \in entries : r[1] \in Path
  BY <1>2, <1>3, RowsFinite
<1>5. IsFiniteSet(files)
  BY <1>2, <1>3, RowsFinite, FS_Subset
<1>6. \A r \in files, t \in entries : r # t => r[1] # t[1] /\ r[1] \notin Prefixes(t[1])
  BY DEF PathsUnique
<1>7. /\ \A p \in dirs : \E r \in entries : (p = r[1] /\ r \notin files) \/ p \in Prefixes(r[1])
      /\ \A r \in RowsOf({"dir"}) : r[1] = RootPath \/ r[1] \in dirs
      /\ \A r \in entries : \A p \in Prefixes(r[1]) : p = RootPath \/ p \in dirs
      /\ RootPath \notin dirs
  BY <1>3
<1>8. dirs \subseteq Path /\ IsFiniteSet(dirs)
  <2>1. \A r \in entries : Prefixes(r[1]) \subseteq Path \cup {RootPath}
    BY <1>4, BaleFsAssumption
  <2>2. dirs \subseteq Path
    BY <1>4, <1>7, <2>1
  <2> HIDE DEF dirs
  <2> QED BY <2>2, BaleFsAssumption, FS_Subset
<1>9. f = Numbering(files) /\ dn = Numbering(dirs)
  OBVIOUS
<1> HIDE DEF files, entries, dirs, f, dn, nf, nd, kind
<1>10. /\ nf \in Nat /\ f \in [files -> 1..nf]
       /\ \A x, y \in files : f[x] = f[y] => x = y
       /\ \A i \in 1..nf : \E x \in files : f[x] = i
  BY <1>5, <1>9, NumberingFacts DEF nf
<1>11. /\ nd \in Nat /\ dn \in [dirs -> 1..nd]
       /\ \A x, y \in dirs : dn[x] = dn[y] => x = y
       /\ \A i \in 1..nd : \E x \in dirs : dn[x] = i
  BY <1>8, <1>9, NumberingFacts DEF nd
<1>12. /\ DOMAIN d = dirs \cup {RootPath}
       /\ \A p \in dirs : d[p] = dn[p]
       /\ d[RootPath] = 0
  BY <1>7, <1>11 DEF With, Root
<1> HIDE DEF d
<1>13. /\ DOMAIN D = dirs \cup {RootPath}
       /\ \A p \in DOMAIN D : D[p] \in 0..nd
       /\ \A p, q \in DOMAIN D : D[p] = D[q] => p = q
  BY <1>1, <1>11, <1>12
<1>14. \A r \in files : \A t \in files : t[1] = r[1] => t = r
  BY <1>3, <1>6
<1>15. \A r \in files : last(r[1]) = r
  <2> TAKE r \in files
  <2>1. PICK s \in files : s[1] = r[1] /\ \A t \in files : t[1] = r[1] => t[2] <= s[2]
    BY <1>2, <1>3, LastRow
  <2>2. last(r[1]) \in files /\ last(r[1])[1] = r[1]
    BY <2>1
  <2> HIDE DEF last
  <2> QED BY <1>14, <2>2
<1> HIDE DEF last
<1>16. /\ DOMAIN P = { r[1] : r \in files }
       /\ \A r \in files : P[r[1]] = f[r]
  BY <1>1, <1>15
<1>17. DOMAIN I = 1..nf /\ \A r \in files : f[r] \in 1..nf /\ I[f[r]] = r[1]
  <2>1. \A r \in files : f[r] \in 1..nf
    BY <1>10
  <2>2. \A r \in files : (CHOOSE s \in files : f[s] = f[r]) = r
    BY <1>10
  <2> QED BY <1>1, <2>1, <2>2
<1>18. /\ DOMAIN C = 0..nd
       /\ \A p \in DOMAIN D : \A e : e \in C[D[p]] <=>
            \/ \E q \in dirs : d[Parent(q)] = D[p] /\ e = Entry(Name(q), D[q], "dir")
            \/ \E r \in files : d[Parent(r[1])] = D[p] /\ e = Entry(Name(r[1]), f[r], kind(r))
  BY <1>1, <1>13
<1>19. \A r \in entries, q \in Seq(Names) : Below(r[1], q) => q \in DOMAIN D
  BY <1>4, <1>7, <1>13, PrefixesBelow
<1>20. Closed(D, P)
  <2> SUFFICES ASSUME NEW p \in DOMAIN D \cup DOMAIN P, NEW q \in Seq(Names), Below(p, q)
               PROVE  q \in DOMAIN D
    BY DEF Closed
  <2>1. CASE p \in DOMAIN P
    BY <1>3, <1>16, <1>19, <2>1
  <2>2. CASE p \in dirs
    <3>1. PICK r \in entries : p = r[1] \/ p \in Prefixes(r[1])
      BY <1>7, <2>2
    <3>2. p \in Seq(Names) /\ r[1] \in Seq(Names) /\ r[1] \in Path
      BY <1>4, <1>8, <2>2, BaleFsAssumption
    <3>3. p = r[1] \/ Below(r[1], p)
      BY <3>1, <3>2, PrefixesBelow
    <3>4. Below(r[1], q)
      BY <3>2, <3>3, BelowTransitive
    <3> QED BY <1>19, <3>4
  <2>3. CASE p = RootPath
    BY <2>3 DEF Below, RootPath
  <2> QED BY <1>13, <2>1, <2>2, <2>3
<1>21. Apart(D, I, P)
  <2>1. ASSUME NEW p \in DOMAIN D, p \in DOMAIN P PROVE FALSE
    <3>1. PICK r \in files : p = r[1]
      BY <1>16, <2>1
    <3>2. r \in entries /\ r[1] \in Path
      BY <1>3, <1>4
    <3>3. p \in dirs
      BY <1>13, <3>1, <3>2, ParentAndName
    <3>4. PICK t \in entries : (p = t[1] /\ t \notin files) \/ p \in Prefixes(t[1])
      BY <1>7, <3>3
    <3>5. CASE t = r
      <4>1. Below(r[1], r[1])
        BY <3>1, <3>2, <3>4, <3>5, PrefixesBelow, BaleFsAssumption
      <4>2. Len(r[1]) \in Nat
        BY <3>2, BaleFsAssumption
      <4> QED BY <4>1, <4>2 DEF Below
    <3>6. CASE t # r
      BY <1>6, <3>1, <3>4, <3>6
    <3> QED BY <3>5, <3>6
  <2>2. ASSUME NEW i \in DOMAIN I PROVE I[i] \in DOMAIN P /\ P[I[i]] = i
    <3>1. PICK r \in files : f[r] = i
      BY <1>10, <1>17
    <3> QED BY <1>16, <1>17, <3>1
  <2> QED BY <2>1, <2>2 DEF Apart
<1>22. \A q \in dirs : Parent(q) \in DOMAIN D /\ d[Parent(q)] = D[Parent(q)]
  <2> TAKE q \in dirs
  <2>1. Parent(q) \in Seq(Names) /\ Below(q, Parent(q))
    BY <1>8, ParentAndName
  <2>2. Parent(q) \in DOMAIN D
    BY <1>13, <1>20, <2>1 DEF Closed
  <2> QED BY <1>1, <2>2
<1>23. \A r \in files : Parent(r[1]) \in DOMAIN D /\ d[Parent(r[1])] = D[Parent(r[1])]
  <2> TAKE r \in files
  <2>1. Parent(r[1]) \in Seq(Names) /\ Below(r[1], Parent(r[1])) /\ r \in entries
    BY <1>3, <1>4, ParentAndName
  <2>2. Parent(r[1]) \in DOMAIN D
    BY <1>19, <2>1
  <2> QED BY <1>1, <2>2
<1>24. \A p \in DOMAIN D : p \in Seq(Names)
  <2>1. RootPath \in Seq(Names)
    BY DEF RootPath
  <2> QED BY <1>8, <1>13, <2>1, BaleFsAssumption
<1> HIDE DEF D, C, I, P
<1>25. Shows(D, C, P)
  <2> SUFFICES ASSUME NEW p \in DOMAIN D, NEW n \in Names
               PROVE  LET q == Append(p, n)
                      IN  /\ q \in DOMAIN D => Entry(n, D[q], "dir") \in C[D[p]]
                          /\ q \in DOMAIN P =>
                                \E k \in {"file", "symlink"} : Entry(n, P[q], k) \in C[D[p]]
    BY DEF Shows
  <2> DEFINE q == Append(p, n)
  <2>1. q # RootPath /\ Parent(q) = p /\ Name(q) = n
    BY <1>24, AppendIsChild
  <2> HIDE DEF q
  <2>2. ASSUME q \in DOMAIN D PROVE Entry(n, D[q], "dir") \in C[D[p]]
    <3>1. q \in dirs /\ d[Parent(q)] = D[p]
      BY <1>13, <1>22, <2>1, <2>2
    <3> QED BY <1>18, <2>1, <3>1
  <2>3. ASSUME q \in DOMAIN P
        PROVE  \E k \in {"file", "symlink"} : Entry(n, P[q], k) \in C[D[p]]
    <3>1. PICK r \in files : q = r[1]
      BY <1>16, <2>3
    <3>2. d[Parent(r[1])] = D[p] /\ P[q] = f[r] /\ Name(r[1]) = n
      BY <1>16, <1>23, <2>1, <3>1
    <3>3. Entry(n, f[r], kind(r)) \in C[D[p]]
      BY <1>18, <3>2
    <3> QED BY <1>3, <3>2, <3>3
  <2> QED BY <2>2, <2>3 DEF q
<1>26. Sound(D, C, I, P)
  <2> SUFFICES ASSUME NEW p \in DOMAIN D, NEW e \in C[D[p]]
               PROVE  Tells(D, I, P, p, e)
    BY DEF Sound
  <2>1. CASE \E q \in dirs : d[Parent(q)] = D[p] /\ e = Entry(Name(q), D[q], "dir")
    <3>1. PICK q \in dirs : d[Parent(q)] = D[p] /\ e = Entry(Name(q), D[q], "dir")
      BY <2>1
    <3>2. Parent(q) = p
      BY <1>13, <1>22, <3>1
    <3>3. q = Append(p, Name(q)) /\ q \in DOMAIN D
      BY <1>8, <1>13, <3>2, ParentAndName
    <3>4. e.name = Name(q) /\ e.ino = D[q] /\ e.kind = "dir"
      BY <3>1, EntryFacts
    <3> QED BY <3>3, <3>4 DEF Tells
  <2>2. CASE \E r \in files : d[Parent(r[1])] = D[p] /\ e = Entry(Name(r[1]), f[r], kind(r))
    <3>1. PICK r \in files : d[Parent(r[1])] = D[p] /\ e = Entry(Name(r[1]), f[r], kind(r))
      BY <2>2
    <3>2. Parent(r[1]) = p
      BY <1>13, <1>23, <3>1
    <3>3. r[1] = Append(p, Name(r[1])) /\ r[1] \in DOMAIN P
      BY <1>3, <1>4, <1>16, <3>2, ParentAndName
    <3>4. e.name = Name(r[1]) /\ e.ino = f[r] /\ e.kind = kind(r)
      BY <3>1, EntryFacts
    <3>5. e.kind # "dir"
      BY <1>3, <3>4
    <3> QED BY <1>17, <3>3, <3>4, <3>5 DEF Tells
  <2> QED BY <1>18, <2>1, <2>2
<1>27. Reached(D, C)
  <2> SUFFICES ASSUME NEW i \in 0..nd PROVE \E p \in DOMAIN D : D[p] = i
    BY <1>18 DEF Reached
  <2>1. CASE i = 0
    BY <1>1, <1>12, <1>13, <2>1 DEF D
  <2>2. CASE i # 0
    <3>1. i \in 1..nd
      BY <1>11, <2>2
    <3>2. PICK p \in dirs : dn[p] = i
      BY <1>11, <3>1
    <3> QED BY <1>1, <1>12, <1>13, <3>2 DEF D
  <2> QED BY <2>1, <2>2
<1>28. IsTree(D, C, I, P)
  BY <1>20, <1>21, <1>25, <1>26, <1>27 DEF IsTree
<1> QED BY <1>1, <1>28 DEF TreeInv, D, C, I, P
\* Without a mount there is no tree.
LEMMA DestroyTree ==
  ASSUME destroy
  PROVE  TreeInv'
<1>1. /\ dir_inodes' = NoMap /\ dir_contents' = NoMap
      /\ inode_to_path' = NoMap /\ path_to_inode' = NoMap
  BY DEF destroy, Dropping
<1>2. IsTree(NoMap, NoMap, NoMap, NoMap)
  BY DEF IsTree, Apart, Closed, Shows, Sound, Reached, NoMap
<1>3. DOMAIN NoMap = {}
  BY DEF NoMap
<1> QED BY <1>1, <1>2, <1>3 DEF TreeInv

LEMMA InitTree ==
  ASSUME RequestInit
  PROVE  TreeInv
<1>1. /\ dir_inodes = NoMap /\ dir_contents = NoMap
      /\ inode_to_path = NoMap /\ path_to_inode = NoMap
  BY DEF RequestInit, Init, Empty
<1>2. IsTree(NoMap, NoMap, NoMap, NoMap)
  BY DEF IsTree, Apart, Closed, Shows, Sound, Reached, NoMap
<1>3. DOMAIN NoMap = {}
  BY DEF NoMap
<1> QED BY <1>1, <1>2, <1>3 DEF TreeInv

\* What leaves the tree alone.
LEMMA SameTree ==
  ASSUME TreeInv, UNCHANGED <<mounted, dir_inodes, dir_contents, inode_to_path, path_to_inode>>
  PROVE  TreeInv'
BY DEF TreeInv

\* The requests that change the tree, and those that do not.
LEMMA RequestOnTree ==
  ASSUME RequestNext
  PROVE  \/ Mount /\ ~mounted /\ mounted'
         \/ destroy
         \/ \E d, e : \E name \in Names, to \in Names :
                \/ CreateDirectory(d, name) \/ RemoveDirectory(d, name)
                \/ RemoveFile(d, name) \/ NewInode(d, name, "file") \/ NewInode(d, name, "symlink")
                \/ RenameFile(d, name, e, to) \/ RenameDirectory(d, name, e, to)
         \/ UNCHANGED <<mounted, dir_inodes, dir_contents, inode_to_path, path_to_inode>>
<1> DEFINE changed(d, e, name, to) ==
                \/ CreateDirectory(d, name) \/ RemoveDirectory(d, name)
                \/ RemoveFile(d, name) \/ NewInode(d, name, "file") \/ NewInode(d, name, "symlink")
                \/ RenameFile(d, name, e, to) \/ RenameDirectory(d, name, e, to)
           same == UNCHANGED <<mounted, dir_inodes, dir_contents, inode_to_path, path_to_inode>>
<1>1. CASE \E ro \in BOOLEAN : MountAs(ro)
  BY <1>1 DEF MountAs, Mount
<1>2. CASE flush
  <2>1. same
    BY <1>2 DEF flush, SyncFails, tree
  <2> QED BY <2>1
<1>3. ASSUME NEW d \in DirIno, NEW name \in Names,
             \/ mkdir(d, name) \/ rmdir(d, name) \/ create(d, name)
             \/ symlink(d, name) \/ unlink(d, name)
             \/ \E e \in DirIno, to \in Names : rename(d, name, e, to)
      PROVE  \E e : \E to \in Names : changed(d, e, name, to)
  <2>1. CASE \E e \in DirIno, to \in Names : rename(d, name, e, to)
    BY <2>1 DEF rename
  <2>2. CASE ~\E e \in DirIno, to \in Names : rename(d, name, e, to)
    <3>1. changed(d, d, name, name)
      BY <1>3, <2>2 DEF mkdir, rmdir, create, symlink, unlink, CreateFile, CreateSymlink
    <3> QED BY <3>1
  <2> QED BY <2>1, <2>2
<1>4. ASSUME NEW i \in FileIno,
             \/ \E offset \in 0..MaxFileSize, b \in Byte : write(i, offset, b)
             \/ \E n \in 0..MaxFileSize : setattr_size(i, n)
      PROVE  same
  BY <1>4 DEF write, setattr_size, Write, Truncate, tree
<1>5. ASSUME NEW p \in AttrPath, setattr_mode(p) \/ setattr_time(p)
      PROVE  same
  BY <1>5 DEF setattr_mode, setattr_time, SetMode, SetTime, tree
<1> QED BY <1>1, <1>2, <1>3, <1>4, <1>5 DEF RequestNext

LEMMA RequestKeepsTree ==
  ASSUME FsInv, TreeInv, RequestNext, ~mounted /\ mounted' => PathsUnique
  PROVE  TreeInv'
<1>1. CASE Mount /\ ~mounted /\ mounted'
  BY <1>1, MountTree
<1>2. CASE destroy
  BY <1>2, DestroyTree
<1>3. ASSUME NEW d, NEW e, NEW name \in Names, NEW to \in Names,
             \/ CreateDirectory(d, name) \/ RemoveDirectory(d, name)
             \/ RemoveFile(d, name) \/ NewInode(d, name, "file") \/ NewInode(d, name, "symlink")
             \/ RenameFile(d, name, e, to) \/ RenameDirectory(d, name, e, to)
      PROVE  TreeInv'
  BY <1>3, CreateDirectoryTree, RemoveDirectoryTree, RemoveFileTree, NewInodeTree,
     RenameFileTree, RenameDirectoryTree
<1>4. CASE UNCHANGED <<mounted, dir_inodes, dir_contents, inode_to_path, path_to_inode>>
  BY <1>4, SameTree
<1> QED BY <1>1, <1>2, <1>3, <1>4, RequestOnTree

(***************************************************************************)
(* What is mounted are archives as docs/bale-spec.md has them: "Each live   *)
(* path in the directory table must be unique", and no file has a path      *)
(* below it. This is asked of every mount, not of the first alone, as a     *)
(* mount can make other archives: the rows of the files below a directory   *)
(* stay when it is renamed, and new files can take their paths.             *)
(***************************************************************************)
MountsUnique == [][~mounted /\ mounted' => PathsUnique]_vars

LEMMA TreeInvariance == Spec /\ MountsUnique => []TreeInv
<1>1. RequestInit => TreeInv
  BY InitTree
<1>2. FsInv /\ TreeInv /\ [RequestNext]_requestVars /\ [~mounted /\ mounted' => PathsUnique]_vars
      => TreeInv'
  <2> SUFFICES ASSUME FsInv, TreeInv, [RequestNext]_requestVars,
                      [~mounted /\ mounted' => PathsUnique]_vars
               PROVE  TreeInv'
    OBVIOUS
  <2>1. CASE UNCHANGED vars
    <3>1. UNCHANGED <<mounted, dir_inodes, dir_contents, inode_to_path, path_to_inode>>
      BY <2>1 DEF vars, tree
    <3> QED BY <3>1, SameTree
  <2>2. CASE ~UNCHANGED vars
    <3>1. RequestNext /\ (~mounted /\ mounted' => PathsUnique)
      BY <2>2 DEF requestVars
    <3> QED BY <3>1, RequestKeepsTree
  <2> QED BY <2>1, <2>2
<1> QED BY <1>1, <1>2, FsInvariance, PTL DEF Spec, MountsUnique

\* What a directory lists is found where it says, in a tree of any depth and
\* through every request of any number of mounts, if the archives that are
\* mounted have no path twice.
THEOREM TreeAlwaysSound == Spec /\ MountsUnique => []TreeSound
<1>1. TreeInv => TreeSound
  BY DEF TreeInv, IsTree, Sound, Tells, TreeSound
<1> QED BY <1>1, TreeInvariance, PTL

\* Every directory is listed once, in the directory that readdir answers for
\* its "..", if the archives that are mounted have no path twice.
THEOREM ParentsAlwaysAgree == Spec /\ MountsUnique => []ParentsAgree
<1>1. FsInv /\ TreeInv => ParentsAgree
  <2> SUFFICES ASSUME FsInv, TreeInv, NEW d \in DOMAIN dir_contents,
                      NEW e \in dir_contents[d], e.kind = "dir"
               PROVE  /\ get_parent_inode(e.ino) = d
                      /\ \A x \in dir_contents[d] : x.kind = "dir" /\ x.ino = e.ino => x = e
    BY DEF ParentsAgree
  <2>1. TreeTypes(dir_inodes, dir_contents, inode_to_path, path_to_inode)
        /\ IsTree(dir_inodes, dir_contents, inode_to_path, path_to_inode)
    BY MapTypes DEF TreeInv
  <2>2. PICK p \in DOMAIN dir_inodes : dir_inodes[p] = d
    BY <2>1 DEF IsTree, Reached
  <2>3. /\ p \in Seq(Names)
        /\ \A x \in dir_contents[d] : x \in Listed /\ x.name \in Names
        /\ \A q, r \in DOMAIN dir_inodes : dir_inodes[q] = dir_inodes[r] => q = r
    <3>1. \A x \in dir_contents[d] : x \in Listed
      BY <2>1 DEF TreeTypes
    <3>2. \A x \in Listed : x.name \in Names
      BY DEF Listed
    <3> QED BY <2>1, <3>1, <3>2 DEF TreeTypes
  <2>4. \A x \in dir_contents[d] : x.kind = "dir" =>
            Append(p, x.name) \in DOMAIN dir_inodes /\ dir_inodes[Append(p, x.name)] = x.ino
    BY <2>1, <2>2 DEF IsTree, Sound, Tells
  <2>5. get_parent_inode(e.ino) = d
    <3> DEFINE q == Append(p, e.name)
    <3>1. q \in DOMAIN dir_inodes /\ dir_inodes[q] = e.ino
      BY <2>4
    <3>2. q # RootPath /\ Parent(q) = p
      BY <2>3, AppendIsChild
    <3> HIDE DEF q
    <3>3. PathOf(e.ino) = q
      BY <2>3, <3>1 DEF PathOf
    <3> QED BY <2>2, <3>2, <3>3 DEF get_parent_inode
  <2>6. ASSUME NEW x \in dir_contents[d], x.kind = "dir", x.ino = e.ino PROVE x = e
    <3>1. Append(p, x.name) = Append(p, e.name)
      BY <2>3, <2>4, <2>6
    <3>2. x.name = e.name
      BY <2>3, <3>1, AppendInjective
    <3>3. x \in Listed /\ e \in Listed
      BY <2>3
    <3> QED BY <2>6, <3>2, <3>3 DEF Listed
  <2> QED BY <2>5, <2>6
<1> QED BY <1>1, FsInvariance, TreeInvariance, PTL

\* No directory's rename puts a file onto the path of another.
LEMMA NoneIsOverrun ==
  ASSUME FsInv, TreeInv, RequestNext, NEW i \in FileIno, IsNamed(i), Overrun(i)
  PROVE  FALSE
<1>1. /\ i \in DOMAIN inode_to_path /\ i \in DOMAIN inode_to_path'
      /\ dir_inodes' # dir_inodes /\ inode_to_path'[i] = inode_to_path[i]
  BY DEF IsNamed, Overrun
<1>2. PICK j \in DOMAIN inode_to_path :
            inode_to_path[j] # inode_to_path[i] /\ inode_to_path'[j] = inode_to_path[i]
  BY DEF Overrun
<1>3. inode_to_path' # inode_to_path
  BY <1>2
<1>4. mounted /\ ~destroy
  <2>1. ~destroy
    <3> SUFFICES ASSUME destroy PROVE FALSE
      OBVIOUS
    <3>1. inode_to_path' = NoMap
      BY DEF destroy, Dropping
    <3> QED BY <1>1, <3>1 DEF NoMap
  <2> QED BY <1>1, <2>1 DEF TreeInv
<1>5. \E d, e : \E name \in Names, to \in Names : RenameDirectory(d, name, e, to)
  <2>1. ASSUME NEW d, NEW e, NEW name \in Names, NEW to \in Names,
               \/ CreateDirectory(d, name) \/ RemoveDirectory(d, name)
               \/ RemoveFile(d, name) \/ NewInode(d, name, "file") \/ NewInode(d, name, "symlink")
               \/ RenameFile(d, name, e, to) \/ RenameDirectory(d, name, e, to)
        PROVE  RenameDirectory(d, name, e, to)
    <3>1. CreateDirectory(d, name) \/ RemoveDirectory(d, name) => inode_to_path' = inode_to_path
      BY DEF CreateDirectory, RemoveDirectory
    <3>2. RemoveFile(d, name) \/ NewInode(d, name, "file") \/ NewInode(d, name, "symlink")
          => dir_inodes' = dir_inodes
      BY DEF RemoveFile, NewInode
    <3>3. RenameFile(d, name, e, to) => dir_inodes' = dir_inodes
      BY DEF RenameFile
    <3> QED BY <1>1, <1>3, <2>1, <3>1, <3>2, <3>3
  <2>2. ~UNCHANGED <<mounted, dir_inodes, dir_contents, inode_to_path, path_to_inode>>
    BY <1>3
  <2> QED BY <1>4, <2>1, <2>2, RequestOnTree
<1>6. PICK d, e : \E name \in Names, to \in Names : RenameDirectory(d, name, e, to)
  BY <1>5
<1>7. PICK name \in Names, to \in Names : RenameDirectory(d, name, e, to)
  BY <1>6
<1> DEFINE old == Append(PathOf(d), name)
           new == Append(PathOf(e), to)
<1>8. /\ old \in Seq(Names) /\ new \in Seq(Names)
      /\ \A q \in DOMAIN path_to_inode : q \in Seq(Names) /\ ~Within(q, new)
      /\ \A k \in DOMAIN inode_to_path : inode_to_path'[k] = Put(inode_to_path[k], old, new)
  BY <1>7, RenamedMaps DEF ValuesMoved
<1> HIDE DEF old, new
<1>9. inode_to_path[i] \in DOMAIN path_to_inode /\ inode_to_path[j] \in DOMAIN path_to_inode
  BY <1>1 DEF TreeInv, IsTree, Apart
<1>10. Put(inode_to_path[j], old, new) = Put(inode_to_path[i], old, new)
  BY <1>1, <1>2, <1>8
<1>11. inode_to_path[j] = inode_to_path[i]
  <2> DEFINE p == inode_to_path[i]
             q == inode_to_path[j]
  <2>1. p \in Seq(Names) /\ q \in Seq(Names) /\ ~Within(p, new) /\ ~Within(q, new)
    BY <1>8, <1>9
  <2> HIDE DEF p, q
  <2> QED BY <1>8, <1>10, <2>1, PutApart DEF p, q
<1> QED BY <1>2, <1>11

\* Without a path that is two things there is no rename of a directory onto a file.
LEMMA NoneOverrunInTree == Spec /\ MountsUnique => NoneOverrun
<1>1. FsInv /\ TreeInv /\ [RequestNext]_requestVars
      => [\A i \in FileIno : IsNamed(i) => ~Overrun(i)]_vars
  BY NoneIsOverrun DEF requestVars
<1> QED BY <1>1, FsInvariance, TreeInvariance, PTL DEF Spec, NoneOverrun

\* What was written and not yet synced is not lost before the mount's last sync,
\* in every mount of archives that have no path twice: every request leaves it,
\* moves it with its file or stores it, however it fails, as a file if
\* get_file_mode gives a file's mode for its path.
THEOREM WritesKeptInTree == Spec /\ MountsUnique => WritesKept
BY NoneOverrunInTree, WritesAlwaysKept

\* A file that can be read, and of which get_file_mode gives a file's mode, reads
\* the same and has such a mode after a request that is not for it, in every
\* mount of archives that have no path twice.
THEOREM OthersLeftAloneInTree == Spec /\ MountsUnique => OthersLeftAlone
BY NoneOverrunInTree, OthersAlwaysLeftAlone

=============================================================================
