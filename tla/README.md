# A TLA+ model of bale

bale is a library, a command-line tool and a FUSE file system for single-file
archives. An archive is a header, data blocks, an entry table, a directory table
and a trailer; a writer maps the file into memory, appends blocks, keeps the
tables in memory and writes them behind the blocks when it syncs. This directory
holds a model of that in TLA+, the instances TLC checks, and theorems about it
that TLAPS checks for every value of the constants.

The reference is the code, paths below are relative to the repository's `src/`
or given as `file:line`. `docs/bale-spec.md` is what the code is compared with,
not what the model is made from.

## The system: components, state, operations

| Component (source) | State | Operations | What makes it correct |
|---|---|---|---|
| Archive format (`format/*`, `entry_kind.rs`) | none | rows, header and trailer to and from bytes, CRC-32C | what is written is what is parsed back; a trailer commits to its tables |
| Paths (`archive_path.rs`) | none | `normalize`, parsing, encoding, safe names | every form of a path has one canonical form; nothing climbs above the root |
| Mapped file, writing (`mmap/mapped_archive_mut.rs`) | the file, the mapping, `len`, `committed_len`, an exclusive lock | `create`, `open`, `reserve`, `extend`, `set_len`, `sync`, `drop` | what is below `len` is not lost by growth; `sync` leaves exactly the content; `drop` keeps what was synced |
| Mapped file, reading (`mmap/mapped_archive.rs`) | a read-only mapping, a shared lock | `open` | it maps one archive, not two |
| Writer (`archive/writer.rs`, `archive/core.rs`) | `trailer`, `write_offset`, `dirty`, `entry_rows`, `dir_entries` | `create_with_options`, `open`, `add_entry`, `add_folder`, `add_symlink`, `delete`, `hard_link`, `unlink`, `rename`, `replace_content`, `sync`, drop | stored contents survive every later operation; IDs are unique and never given out twice; a sync is all or nothing to readers |
| Reader (`archive/reader.rs`) | none after `open` | `open`, `find_entry_with_path` and `find_by_id` (bisections), `file`, `folder`, `symlink`, iteration, the consistency checks | it accepts only the archive of one sync; its search finds what a scan finds; it answers what the writer answers |
| Compaction (`compact.rs`) | a temporary file beside the archive | `compact`, `rename_duplicates` | the new archive is the old one without what was dead; no failure or second process loses either |
| Check, add, extract (`check.rs`, `add.rs`, `extract.rs`) | none | a report, or a loop over the reader's or the writer's operations | the report is of what is there; each entry is extracted under its path; an error half way leaves an archive |
| Mounted file system, state (`fuse/bale_fs_state.rs`, `fuse/inode.rs`) | inode tables, buffered contents, buffered modes and times, directories made since the mount | `load_into_modified`, `create_file`, `create_directory`, `remove_*`, `rename_entry`, `create_symlink`, `sync_modified_to_archive` | what a program wrote is in the archive after a sync; a failed sync can be repeated; an inode's paths are its entry's |
| Mounted file system, requests (`fuse/bale_fs.rs`) | one mutex around the state | 15 request handlers | each handler is atomic; `flush`, `fsync` and `destroy` sync |
| Command line (`bin/bale/*`) | none | argument parsing, printing | not of interest here |

### How they interact

* The writer owns a `MappedArchiveMut`. `Archive<MappedArchiveMut>` has no
  `Drop` of its own: when a writer goes out of scope, and it does so on every
  early return of `add.rs`, `compact.rs` and the mount, the mapped file's `drop`
  decides what is left on disk.
* A store into the mapping is a store into the file (`MAP_SHARED`), so a process
  that is killed leaves every store it made; there is no write-ahead of any kind.
* Writers hold an exclusive and readers a shared `flock`-style lock on the file
  for as long as they have it mapped. So there is one writer at a time and
  readers never run beside it; what interleaves are whole sessions. The lock is on
  the file, not on its name, and a file is opened before its lock is waited for.
  Compaction reads the archive under a shared lock and replaces the name by a
  rename while it holds that lock of the *old* file.
* The mount has a writer open for as long as it lasts. What it creates, removes or
  renames it passes on at once and mostly without looking at the outcome; contents,
  modes and times it keeps in memory until its sync, which deletes and adds
  entries anew. All requests go through one mutex.

### What is hard here

* **Crashes and half-done steps.** `sync` overwrites the only copy of the tables
  in place, row by row, and the trailer last. Growing the file may fail at each
  row, and a kill may come between any two.
* **Overwriting before the sync.** After an `open` or a `sync` the next block is
  written where the tables on disk begin. From then until the next sync the file
  has no tables, and the logical length is first below and then possibly above
  what was committed.
* **Long legal sequences of calls.** Hard links, duplicates (`add_entry` does not
  look whether the path is taken), `delete` of a path whose entry has other
  names, renames of directories, and all of that across sync, drop and reopen.
* **Boundaries.** The last ID, alignment of an already aligned offset, contents
  of no bytes, paths of exactly or more than `path_size`.
* **Several processes** meet only in compaction, and in who waits for a lock on
  a file that has meanwhile been renamed away.
* **Two versions of one tree.** The mount's maps, its buffers and the archive are
  kept in step by hand, in every request; an error from the archive comes after
  the maps have changed.

`PROJECT.json` lists these one by one, each with the line where it bites and the
properties that would catch it.

## The modules

    ArchivePath           paths: normalisation, order, refused names
      BaleFormat          rows, trailer, cells
        MappedFile        the methods of MappedArchiveMut
          ArchiveImage    what an open accepts and a reader sees
            ArchiveReader the reader's searches, lookups and checks
            ArchiveWriter the writer: state, actions, properties, IInv
              ArchiveReading        the writer's queries beside the reader's answers
                                    (extends ArchiveReader too), ReadInv
                MCArchiveWriter       the instances TLC checks
              ArchiveWriterProofs     type correctness (TLAPS)
                ArchiveWriterSafety   IInv and what follows (TLAPS)
                  ArchiveReadingProofs  ReadInv (TLAPS)
                    ArchiveReadingSafety  what follows from it (TLAPS)
                      ArchiveStoreProofs    TailKept, the refinement (TLAPS)
    ArchiveStore          what an archive promises; ArchiveWriter implements it
    ArchiveTools          what compact, rename_duplicates and extract make of an archive
      MCArchiveTools      the instance TLC checks
      ArchiveToolsProofs  its invariant and what follows (TLAPS)
    Compaction            processes, files, names and locks around one archive
      MCCompaction        the instances TLC checks
      CompactionProofs    its invariant and what follows (TLAPS)
    BaleFs                a mounted archive: tree, buffers, syncs
      BaleFsRequests      the requests, read-only mounts, the answers of readdir
        MCBaleFs          the instances TLC checks
        BaleFsProofs      FsInv and what follows (TLAPS)

`ArchiveWriter` is one process inside one file, `Compaction` is several processes
around files whose contents are opaque. What joins them is that the lock of
`Compaction` makes the sessions of `ArchiveWriter` exclusive (`LocksSound`), and
that `Change`, `Sync` and `DropWriter` of `Compaction` do to a file what
`ArchiveStore` says a session does to it. `ArchiveTools` is what `Compaction`'s
`Copy` copies, and `BaleFs` is one session of the writer under a mount: both see an
archive as rows with entries and no longer as cells.

### From bytes to cells

A file is a row of `DiskSize` cells. One cell is the header, one byte of a data
block, one row of a table, or the trailer. The real widths differ, the order and
the count are the code's. So "half a sync" is a prefix of whole rows: a row torn
in the middle is not told apart from a row that is not there, which is right for
every property here because only the trailer's CRC vouches for rows and the
trailer is written last.

A path is a sequence of components and `path_size` counts components. Names are
numbers, which gives paths the order of their bytes, with the separator below
every name byte. What callers pass is a `RawPath`, which may also contain `Skip`
(`.`, `//`, a trailing slash), `Up` (`..`) and names that are refused (`Unsafe`).
`Normalize` is the code's `normalize`, with its fast path for what `IsNormalized`
already and the same check of names on both. Lookups do not normalise, they pad
(`Padded`), and cut what is too long: the model keeps that difference.

A CRC is the data it was computed from: a perfect hash. `ContentIntact` and
`ReaderAccepts` are then about what the code does to the bytes and not about
collisions. A trailer cell likewise carries the tables its metadata CRC covers.

### MappedFile

`cap` is the size of the file and of the mapping, `len` the logical length,
`committed` is `committed_len`. `reserve` rounds up to a whole chunk *beyond* what
is needed (`RoundUp`), and the model keeps that, because it decides where the disk
is found full. A `set_len` that grows fills with zeros from the old length only,
one that shrinks leaves the cells.

The disk is full when a resize would take the file beyond `DiskSize`: `Fits` is a
guard of every operation that succeeds and `ResizeNeeded` of every one that fails,
so a resize may also be refused when there is room (another file took it), and
operations that need no resize never fail. `drop` ignores the errors of its own
truncation; that it can fail is not modelled, nor is a failure of `msync` or
of the shrinking resize in `sync`, of the remapping after a resize that worked,
or a loss of power that takes dirty pages with it.

### ArchiveWriter

`session` says whether some process has the archive open for writing. `entryRows`
is a set, as the code only searches the vector by ID; `dirEntries` is a set of
rows that carry their index `at`, as the code does look for the *first* row with a
path. `trailer`, `writeOffset` and `dirty` are the code's fields.

| Action | Code |
|---|---|
| `Create` | `create_with_options`: one chunk, the header, dirty, no trailer |
| `OpenIntact`, `OpenDamaged`, `OpenRejected` | `open`: the trailer is validated, the metadata CRC is not |
| `AddEntry`, `AddEntryFails` | `add_entry_with_mtime` (and folder, symlink): ID spent, block stored, rows pushed; or ID spent and an error from the block |
| `Delete` | all rows with the path and the entries of these rows |
| `HardLink`, `Unlink` | another row for an entry; the first row with a path, and the entry with its last row |
| `Rename` | the first row with the path and every path below it, in place |
| `ReplaceContent`, `ReplaceContentFails` | a new block and a new row under the old ID; the old block becomes dead |
| `Sync` | `set_len(write_offset)`, sort, tables, trailer, truncate to length |
| `SyncFails` | the same up to cell n, where the file cannot grow: rows sorted, trailer in memory set only if all rows were written, still dirty |
| `SyncCrash` | the same up to cell n, where the process is killed |
| `Drop` | the mapping's `drop`: the file is cut to `max(len, committed)` |
| `Crash` | a kill between two operations: the file as it is, with its preallocated end |

An operation that returns an error before it changed anything is not an action:
it would be a stutter. `OpenRejected` is kept, as a stutter, because with it a
state in which no session can ever open the file again is no deadlock of the
model: that state is real, see the findings.

Over damaged tables (a valid trailer over rows that are not the ones it was
written for, which `OpenDamaged` finds after some crashes) the code parses
arbitrary bytes. The model records that such a session is open and lets it end;
what it does is not followed.

`mode`, times and `EntryKind` changes in `replace_content` are not modelled.

### ArchiveReader and ArchiveReading

A reader changes nothing once it is open, so it has no actions: `ArchiveReader` is
operators on a file, given as its cells and its length. What an `open` accepts is
`ReaderAccepts` of `ArchiveImage`.

`RowsFound` and `EntriesFound` are `slice::binary_search_by`, which promises some
row with the key when there are several, and does not say which; so a search is
the *set* of rows it may return (`Bisection`), a lookup the set of its possible
answers, and "no row" is one of them. That the table is in the order of the key is not
assumed: over a table in any other order the set has whatever a bisection can
come to. `Lookup`, `Access` (`entry`, `file`, `folder`, `symlink`), `FindById`,
`IterEntries` and the checks (`IsSorted`, `FindDuplicates`, `HasOrphanedData`,
`Check`) follow the code, with their refusals.

The writer answers the same questions from its tables in memory, by scans and in
code of its own (`SessionLookup`, `SessionFindById`, `SessionDuplicates`,
`SessionHasOrphans`, `SessionMetadata` in `ArchiveReading`). The properties hold
the two beside each other in the states in which they should agree, that is when
there is nothing to sync (`Clean`).

### ArchiveStore

What a caller may rely on: a session has a private view, `sync` makes that view the
archive in one step, and a reader finds the archive of the last sync that took
effect, or is refused. It never finds a mixture, nor an archive that a sync
replaced. `ArchiveWriter` implements it with `durable` mapped to what
`ReaderAccepts` and `View` make of the file's cells, and `pending` to the view of
the tables in memory.

That a session may spoil the file (`durable' = Unreadable`) is what the code does, and
the abstract specification says so: it is the price of overwriting tables in
place, and finding 1 is that the documentation promises more. A spoiled file can
also come back: when a block of two bytes or more fails after the logical length
was moved back, the drop may cut the file exactly at its old, still whole trailer.
Then readers find the last synced archive again. The abstract specification has a
variable for this, `kept`, what the session can still fall back to; it maps to what
readers would find in the file if it ended at its committed length (`Kept`).

### Compaction

Both `compact` and `rename_duplicates` are the same protocol, with different
temporary names and two different details: only `compact` asks for the size of the
new file before the rename, and only `rename_duplicates` returns early when there
is nothing to do. A process is anywhere in `Place` and does one `Task`:

| Action | Code |
|---|---|
| `OpenToRead`, `LockShared`, `ReadEnds`, `CloseReader` | `MappedArchive::open`: the file, then its shared lock; the checks of `ArchiveReader::open` and the early returns; the drop |
| `CreateTemp`, `CreateTempFails`, `LockTemp` | the guard, `create_new`, the exclusive lock of the new file |
| `Copy`, `CopyFails` | everything between, with `sync` at its end, and any of its errors |
| `Measure`, `RenameOver`, `RenameFails` | `fs::metadata` and `fs::rename` of the temporary *name* |
| `RemoveTemp` | `TempFileGuard::drop`, which removes whatever has the name |
| `CreateArchive`, `OpenToWrite`, `LockExclusive`, `WriteRefused`, `Change`, `Sync`, `DropWriter` | another program's writer |
| `Crash` | a kill: the locks are released, the names stay |

Contents are abstract: an archive is the set of processes whose changes it has,
which tells apart archives that differ and nothing else, or it is `Partial`. The
copy is exact in this model: what compaction drops and renames is the matter of
`ArchiveTools`. So "old or new" becomes "a complete copy of the old", which is
what `ReplaceIsAtomic` says. The kernel's part (names, files that live while they
have a name or are open, locks) is marked external in `PROJECT.json`.

Which processes compact and which write is fixed by `Compactor` and `Writer`; a
process that has become idle is like a new one, so one process stands for any
number of programs run one after another.

### ArchiveTools

One tool at a time is run on one archive: rows in the order of the table, each
with the ID of an entry that may not be there, and entries with a kind and data.
The data of an entry of the first archive is its own ID, so that no entry can be
taken for another. A tool works through a list (`todo`) and builds the new archive
(`out`), or the directory it extracts to (`disk`); each row is a step, as each
can fail, and what was done before stays (`IoError`).

| Action | Code |
|---|---|
| `StartCompact` | the last row of each path (`FinalEntries`), the directories that paths imply (`MissingDirs`), both in the order of their paths |
| `StartRename` | the early return without duplicates, the numbered names (`Renamed`) and their length, the sort by the new path |
| `CopyDir`, `CopyEntry`, `LinkEntry`, `LinkRefused` | an added directory; a row whose entry is copied for the first time; a further row of it, which `hard_link` takes or refuses |
| `Replace` | `sync` and the rename over the old archive |
| `StartExtract`, `ExtractSkip`, `ExtractEntry`, `ExtractRefused`, `ExtractMissing`, `ExtractDone` | `extract` of all entries, or of some paths, into an empty directory |
| `IoError` | any error of reading or writing |

Tools are run one after another, so the archive a tool starts from is one the
model was given or one another tool made.

### BaleFs

One mount after another of one archive. The tree is the code's five maps
(`dir_inodes`, `dir_contents`, `inode_to_path`, `path_to_inode`, and the counters for
inodes); `modified_data` are the buffered contents, `modified_modes` the buffered modes and
`modified_times` the paths with a buffered time. `archive` is
what the writer's session has: per path its rows in the table's order, each with
its entry, which hard links share (`link`).

What an entry *is*, a file, a directory or a symlink, the code reads off the type bits
of its mode, and a sync stores a path again with the mode that `get_file_mode`
finds: a buffered one, else that of the path's first row, else a file's
(`ModeKind`). So the model keeps of each mode its kind, and
nothing else of it. A path whose mode is a directory's, since a removed directory left
its row or its buffered mode behind, is stored as a directory, and cannot be read
as a file any more (finding 5). Of a buffered time only its being there
matters, as it makes a sync store the entry again. The order in which a sync goes
through its maps is a `HashMap`'s, that is any (`Orders`).

Contents in an archive have any length. `load_into_modified` loads a file whole
before a `write` or `setattr` looks at `MaxFileSize`, so a buffer can be
longer than the limit; what the limit does promise is `NoneExtended`.

A request names inodes and names, as the kernel does, and the kernel may know
inodes of files that are gone; so every inode ever given out may occur. A
request that changes nothing is a stutter. `BaleFs` has the operations of the
state, `BaleFsRequests` the handlers around them, which refuse all changes when
the mount is read-only, and the directory that `readdir` reports as `..`.

| Handler | Operation | Code |
|---|---|---|
| `MountAs` | `Mount` | `build_directory_tree` with `ensure_parent_dirs`: an inode for each row of a file, for each directory with a row or on the way to one |
| `mkdir`, `create`, `symlink` | `CreateDirectory`, `CreateFile`, `CreateSymlink` | the checks, the tree, then the archive, which may refuse |
| `rmdir`, `unlink` | `RemoveDirectory`, `RemoveFile` | the tree and the buffer, then `delete` |
| `rename` | `RenameFile`, `RenameDirectory` | `rename_entry`: a file (or symlink) over another or none; a directory with all paths under it |
| `write`, `setattr_size`, `setattr_mode`, `setattr_time` | `Write`, `Truncate`, `SetMode`, `SetTime` | the buffers |
| `flush` (and `fsync`) | `Synced`, `SyncFails` | `sync_modified_to_archive` with success, or with an error: some files rewritten, one deleted and not added, or a mode or time of what is no file, or the archive's own sync; after an error the buffers stay |
| `destroy` | `Synced`, `SyncStops`, `Dropping` | the sync at the end of the mount, with success or with an error that nobody is told, and the end of its state, buffers included |
| `get_parent_inode` | none | what `readdir` answers for `..` |

Whether an add succeeds is left open as long as the path is not too long
(`AddedOrNot`): the disk may be full, the IDs used up. Of a path that is too long,
lookups and `delete` see what it is cut to; which paths are too long, which fill
the `path_size`, and what is left of the former is a constant of the model, as
that depends on bytes. `rmdir` deletes the path with a slash behind it, a path that
no row has unless the slash is cut off (`DeletedDir`).

A mount that is killed, or whose last sync fails, leaves what `ArchiveStore` says
of a session: the archive of its last sync or nothing. An `Unmount` straight after
that sync leaves the first, so the model needs no action of its own for it.

## What the runs check

| Run | Shows |
|---|---|
| `writer_disk` | alignment 2, a chunk of 3, a disk of 9, contents of one or three bytes: padding, blocks, tables compete for space; every growth may fail, a sync may die at every cell. Types; blocks are apart and aligned; stored contents stay intact; a clean session agrees with the file; `bale check` finds no wrong CRC, path or order in whatever can be opened (orphaned data it may report); the writer's own orphan and CRC checks are right; drop keeps a readable file as it is; the inductive invariants, `TailKept` among them; the refinement of `ArchiveStore` |
| `writer_names` | no contents, more paths: a directory with a child, two forms of one path, one path that climbs above the root, one too long, one with a refused name, three rows. IDs unique, never given out twice, every entry row has a name; a bisection finds what a scan finds; reader and writer answer alike under every path and ID |
| `tools` | every archive of up to three rows that a writer can leave (duplicates, hard links, rows without an entry, a directory and a path in it), every sequence of tools, every error. What compact keeps is the last row of each path with its entry, links included; rename_duplicates loses no row unless a numbered name is taken; what is extracted is what its path stands for |
| `compaction` | one process that compacts, beside one that reads, writes and creates. What is locked for reading does not change; the archive's name passes only to a complete copy; every compaction ends; a temporary file that a killed one left is removed by the next |
| `bale_fs` | mounts and remounts, read-only and not, in a tree of two levels, with adds and syncs that may fail at every point. The maps agree; `..` is answered as it is; a buffered content stays readable, through renames and failed syncs, until it is the only row of its path, and is a file there if the path's mode was a file's; no request touches another file; a read-only mount changes nothing |
| `bale_fs_modes` | modes and times of files, symlinks and directories beside the contents, an archive with a file above the limit and a hard link to it. The types, with every buffered mode's kind; the same two properties of contents where modes are buffered or left behind; a file grows to the limit and not beyond |
| `drop_preserves_synced`, `replace_is_atomic`, `sync_is_found`, `rename_keeps_last`, `synced_is_readable`, `attrs_can_be_synced` | each: what a document says and the code does not do, see Findings |

Each property of the passing runs is paired in `PROJECT.json` with a mutant, a
plausible bug in the modelled code, under which TLC finds the property violated.

### Bounds, and why they are enough

* `DiskSize` 9 (6): holds the header, an aligned block behind a gap, entry and
  directory rows and a trailer, with and without chunks to spare, and is too small
  for more: both outcomes of every resize occur, in every operation that has one. It
  is the natural bound on everything that is stored.
* `Chunk` 3: smaller than a sync's tables, so that one sync may resize twice.
* `Alignment` 2 and blocks of one and of three bytes: one shorter than the
  alignment, behind which there is a gap, and one that goes across a boundary, which
  a reader's search for orphans takes for the start of a block. Blocks of one
  byte alone would hide what a failed block can do to the length: with more, TLC
  found the case in which a drop brings a spoiled archive back. The empty contents
  are `writer_names`'.
* `MaxId` 3: two IDs can be given out and the last value is refused. Every
  property of IDs relates two entries.
* `MaxDirRows` 2 (3) is the only artificial bound, a guard of `HardLink`. It is
  needed because a link over a path that does not resolve can be repeated for
  ever. Three rows are an entry with two names beside another entry, and three
  rows in an order in which a bisection takes more than one step.
* One byte value is enough as blocks at different places are told apart by
  being intact or overwritten, by zeros, rows or a trailer; sessions are
  unbounded in number and length.
* No symmetry: names are ordered.
* `ArchiveTools`: three rows are a path that is there twice beside another, or an
  entry with two links beside another entry; four paths, of which one is what
  numbering another gives and one is below a third; names in both orders with
  what they become (`x(1).t` comes before `x.t`, `y` before `y(1)`). IDs have no
  bound: a tool gives them out anew, one for each entry.
* `Compaction`: two processes, as every property relates the actions of two; seven
  inodes are as many as two processes and three names can hold at a time, so that
  creating a file never fails for want of one. With `Compactor` and `Writer` in
  other hands the two violation runs show what goes wrong beyond that.
* `bale_fs`: two inodes of files, as the properties relate one file to another, and
  two directories, so that one can move into the other, or the archive can have
  both names of one after its rename. Four paths: two in the root and one in each
  directory, of which one is too long and is cut to its own directory's path.
  `MaxRows` 3 is where adds begin to fail for certain; two rows of one path are
  reached by making and removing a directory and creating a file. Contents are
  empty or one byte, which is also the limit for a file, so that a write is
  beyond it. Deeper trees have more behaviours than these: two of the properties fail
  in them if an archive has a path twice, and are proved if none has (see "The
  mount" under "What is proved"). Counters of inodes start again with each mount,
  so mounts are unbounded in number. No mode or time is set (`AttrPath` is empty), but
  modes of rows that removed directories left behind do occur.
* `bale_fs_modes`: with modes the tree would be too large, so here are two paths in
  the root only. The mode and time of one of them (`AttrPath`) can be set, as that of a
  file, a symlink or a directory in turn; the other is the file that is not to
  be touched. One archive has files of two bytes, above the limit of one.

### Fairness

The writer has none, and no liveness property: it is a library that does nothing on
its own; no thread, timer or retry in it promises progress, and every operation
is one call that returns.

`ArchiveTools` has none: each tool is one call, and that it comes to an end is a
matter of `Compaction`, where it waits for others.

`BaleFs` has none either: the mount acts on requests only, and no document promises
that somebody syncs.

`Compaction` assumes of every process weak fairness of `Step`: a command that has
been started goes on until it ends. It does not assume that a program makes any
change or sync, or that anybody starts anything; and it leaves out a mount, which may
hold its lock as long as it likes. It assumes strong fairness of the grant of a
shared lock, as the kernel wakes its waiters whenever an exclusive lock is
released. For an exclusive lock there is no such assumption: under a
stream of overlapping readers it may never be granted, and nothing is claimed for
those who wait for it. The one that a compaction waits for is on the file that it
has just created under a name that nobody reads, so weak fairness is enough.

`LeftoversGo` has a premise of its own: from some time on no more compactions are
killed. It is stated of processes that keep trying.

## Findings

1. `drop_preserves_synced`: a writer that adds one entry to a synced archive and
   goes out of scope without a sync leaves a file no reader accepts, although
   the comment on `MappedArchiveMut` says that drop preserves synced content.
2. `replace_is_atomic`: the guard of the temporary file is there before the file
   is, and removes what has its name. Of two compactions, the second fails to
   create the file, removes the first one's, and when started once more creates a
   new one; the first, done, renames that one over the archive, empty as it is.
3. `sync_is_found`: compaction has a shared lock where the documentation demands
   an exclusive one. A writer that opened the archive and waits for compaction's
   lock gets it after the rename, and syncs into a file without a name. An
   exclusive lock alone would not mend this: the writer would have to look again
   whether the name still stands for the file it has locked.
4. `rename_keeps_last`: `rename_duplicates` gives a row a numbered name without a
   look at whether the archive has that name. If it has, the two rows now share it,
   and which of them is the last is not what it was (`compact.rs:285`, against
   `compact.rs:229`).
5. `synced_is_readable`: make a directory and remove it, create a file under its name
   and write to it. `rmdir` left the directory's row in the archive; the sync takes
   the mode of the path's first row, which is a directory's, deletes both rows and
   stores the data as a directory's entry. It reports success and empties the
   buffer, and from then on the file cannot be read.
6. `attrs_can_be_synced`: a mode or time that was set on a directory or a symlink,
   or on a file that was then renamed or removed, makes every later sync of the
   mount fail, for all files, and the sync at the unmount too.

### Seen, and modelled, without a run of their own

In the writer and its file:

* `delete` leaves the other hard links of an entry as rows that name nothing, where
  `docs/bale-spec.md:469` has every row resolve. If such a row is the first with
  its path, a file that is then added under the path cannot be found, by the
  writer or, depending on the bisection, by a reader.
* `add_entry`, and `rename` of a directory for what is below it, let two rows have
  one path (`docs/bale-spec.md:657` says that they are unique). A writer's lookup
  takes the first, a reader's any of them, `compact` the last.
* A session's `find_duplicates` compares neighbours in a vector that only `sync` sorts,
  so before a sync it misses some.
* The gap before a block in a reopened archive holds what is left of the old
  tables, not zeros (`docs/bale-spec.md:244`).
* An `add_entry` or `replace_content` on a clean, reopened archive that fails when
  its block cannot be stored can have moved the logical length and grown the
  file with `dirty` still false. A sync is then a no-op, and the drop leaves a file
  that does not end with its trailer (TLC finds it with an alignment that is longer
  than the tables). This is why `Clean` asks for `mmap.len = mmap.committed`, and
  nothing is claimed of the file in this case.
* After such a failure that left the length alone, the ID it spent makes
  `verify_metadata_crc` of the session report a mismatch in a file that is as it
  should be (`CleanVerifies` says that this is the only case); and in a session
  with changes it can slice beyond the content, a panic. No property is about
  a session with changes.
* A session's lookups, `delete` and `unlink` cut a path that is too long and then act on
  another path. The properties of lookups have the two searches agree, cut paths included;
  they do not say that a path that is too long should find nothing.
* A reader's `has_orphaned_data` takes each boundary for the start of a block, so
  it reports orphans in an archive that has a block longer than the alignment and
  no orphan at all. `OrphansSeen` is the direction that holds.
* An entry whose CRC is 0 is taken for one without a CRC.

In the tools:

* Where a file is above another path, `compact` adds a directory row with the
  file's path, which makes two rows with that path, and makes a later compaction of
  hard links to it refuse (`LinkRefused`).
* `extract` of a path gives its first row, `extract` of everything its last.
* `extract` writes the entry of a directory as a regular file, so
  that the first path below it cannot be extracted, and returns that error.
  Any archive that has been compacted has an entry for each of its directories.
  Symlinks are extracted as regular files too.
* `compact` does not take over the times (`docs/bale-spec.md:451`).

In the mount:

* After the rename of a directory the files under it have new paths in the mount and
  their old ones in the archive. What is not buffered cannot be read, and is under
  the old name again after a remount.
* `rmdir` and the rename of a directory leave its row in the archive, so it is
  back after a remount (a test that is marked as ignored, `tests/fuse_write.rs:115`,
  expects otherwise), and if a file has taken its name meanwhile, the mount has
  both and refuses to remove either. To rename that file away takes the directory
  out of its parent's listing too.
* The rename of a symlink deletes it; a renamed symlink is listed as a file until
  then; the reply of `setattr` calls everything a file.
* A rename whose add fails loses a file that is not buffered. A file that became too
  long under a renamed directory reads, and on its removal deletes, what its path
  is cut to.
* The sync of a mode or time deletes the entry before it adds it again, and its data is in
  no buffer: if the add fails, it is lost.
* `get_dir_mode` looks a directory up with a slash behind its path, which no row has.
* `rename` ignores its flags, `destroy` the error of its sync; `readdir` numbers entries by
  their position, so a removal between two calls makes it skip one.

## What is proved

### The writer

For all names, path sizes, alignments, chunks, ID and disk sizes, paths and
contents that satisfy `PathAssumption`, `FormatAssumption`, `AlignmentAssumption`,
`ChunkAssumption` and `WriterAssumption` (positive sizes, a disk of two cells or more, a chunk that is not
larger than the disk, paths and contents of their types):

| Theorem | States |
|---|---|
| `TypeCorrect` | `Spec => []TypeOK`: among others all offsets stay on the disk and all IDs within `1..MaxId` |
| `Invariance` | `Spec => []IInv` |
| `IdsAreUnique`, `BlocksAreSeparate`, `ContentStaysIntact`, `RowsAreReferenced` | each the invariant of its name, from `IInv` |
| `IdsAreNeverReused` | the action property, from `IInv` |
| `ReadInvariance` | `Spec => []ReadInv` |
| `SearchesAreScans`, `CleanIsReadable`, `ChecksPass`, `NamesAgreeAlways`, `IdsAgreeAlways`, `CleanVerifiesAlways` | `SearchIsScan`, `CleanMeansReadable`, `CheckPasses`, `NamesAgree`, `IdsAgree`, `CleanVerifies`, each from `ReadInv` |
| `OrphansAreSeen` | `Spec => []OrphansSeen`, from `ReadInv` and `OffsetStored` |
| `DropsKeepReadable` | the action property `DropKeepsReadable`, from `ReadInv` |
| `TailIsKept` | `Spec => []TailKept`, from `ReadInv` |
| `StoreIsImplemented` | `Spec => StoreRefined`: the writer implements `ArchiveStore`, from `ReadInv` and `TailKept` |

`ContentIntact` is not inductive. A session's rows come from a trailer found in the
file, so what must be known at `open` is something about files; and a file may
end, after a crash, a drop or another sync, with a trailer that is not the last one
written. `IInv` therefore speaks of *every* trailer cell the file still holds: the
blocks its tables locate are intact, separate and below the tables
(`TrailerSound`), and an open session writes only above all of them
(`TrailersBelow`, as `writeOffset` is where the session's own blocks end). The
argument of every step is then one of two: it stores cells at or above the write
offset only, and what is sound below a limit stays sound when the cells below that
limit stay as they are (a lemma); or it ends the session and cuts the file's end
off, which removes trailers and adds none. The one place where a trailer is added
is the last cell of a sync, over the session's own rows.

What a reader is told needs more than that blocks are intact. `ReadInv` adds, again of
every trailer the file still holds, that its tables are in order and as long as it
says (`AllOrdered`); that in an open session all of them lie within what was
committed (`AllCommitted`), so that an interrupted sync leaves none; that an
entry without data has no offset; and that as long as there is nothing to sync
(`CleanStored`) the tables at the committed end are whole and are the session's,
*however many blocks have failed since*: that a failed block on a clean session
touches nothing below the committed end is the case the invariant is shaped by
(`SessionStored`, its last two conjuncts). From `AllOrdered` a bisection is a scan, and `bale check`
finds no wrong CRC, path or order; with `CleanStored` the reader's tables and the writer's are the same set
of rows, and each kind of lookup gives the same answer of both.

Orphans are looked for in two ways: a session goes from the end of one block to
the next boundary (`OrphansFrom`, a recursive function), a reader to every boundary. That the
session's walk misses none is proved by a form of it without recursion (`OrphanAhead`), which
satisfies the walk's equation (`AheadIsStep`), so that the function exists, and with
which the walk agrees at the last boundary at which it could not (`WalkFinds`). It needs
that blocks are apart and aligned: the boundary after a block is in no other. That the reader sees the same needs
one fact that `ReadInv` has not, `OffsetStored`: in a session with nothing to sync the data
ends where the tables on disk begin, or at the boundary after that, if a block that failed
has moved it. TLC checked it in the states of `writer_disk` first.

The refinement is the theorem that says what a kill can do. Most steps map because
a trailer is only ever written as the last cell of a sync: whatever else a step
does to the file, its committed end holds the old trailer or none, and a block
puts no table row anywhere, so readers find what they found or are refused
(`FoundOrLost`, `RowsNotNew`). A sync writes rows and may die before its trailer.
If a session has already overwritten a row of the old tables, could the new sync
put an equal row back in its place, and so make the old trailer valid again over
tables of two syncs? It starts at the write offset. Below that it puts nothing
back; and above it nothing was missing, which is `TailKept`: while the old trailer is
there, the session has destroyed no row of its tables but below the write offset. That
holds since a block that moves the end of the content moves the write offset with
it, and since a sync fails only where the file is full, by when it has written over
the old trailer itself. So what a killed sync leaves under the old trailer is what the
session could still fall back to (`kept`) or less. The other end is
`SyncMaps`: the rows written are the session's, the blocks they locate are below
what was written, so what readers find is the view in memory, and the sort changed
neither.

### Compaction

For any processes, roles and files (`CompactionAssumption`: roles are of
processes, no file is `None`):

| Theorem | States |
|---|---|
| `CompactionInvariance` | `Spec => []IInv` |
| `ReadersStayUndisturbed` | `Spec => []ReadersUndisturbed`, for any number of compactors, readers and writers |
| `SoleReplaceIsAtomic` | with at most one compactor, `Spec => ReplaceIsAtomic` |

`ReadersUndisturbed` needs that nobody stores into a file others read: a writer
by its lock (`LocksSound`), a compaction since it stores into a file on which it
has an exclusive lock too, and `CreatesNew` since the file was not in use. So it
holds even in the case of finding 2. `ReplaceIsAtomic` needs more: that the name
the rename takes is the file that was copied to (`SourceKept`), and that this
file is nobody else's (`TempsApart`). Both fail with a second compactor and are
inductive without one, hence the premise `SoleCompactor`.

### The tools

For any archive of any number of rows and entries, duplicates, hard links and rows
without an entry included, and any way to number a name (`PathAssumption`,
`ToolsAssumption`: archives, requests and numbered names are of their types):

| Theorem | States |
|---|---|
| `ToolsInvariance` | `Spec => []ToolsInv` |
| `ToolsTypes` | `TypeOK`, a part of it |
| `CompactKeepsLastAlways`, `RenameKeepsAllAlways`, `ExtractIsRight` | the action properties of these names, from `ToolsInv` |

`ToolsInv` follows a tool from row to row. `Rows` is what the tool started from, a function
of the archive, which does not change meanwhile; what is left to do is its rest
(`TodoInv`), and what is done is accounted for (`CopyInv`, `ExtractInv`): each new row is under
its old one's path and names an entry that is a copy of the old one's
(`RowsCopied`), two new rows share an entry if and only if the old ones did
(`LinksCopied`), and each file is the last, or of named entries the first, of the rows done
that have its path (`FilesExtracted`). The link from one row to the
next is `written`: the path it gives for an old ID must still stand for the entry's copy
in the *new* archive, whose first row of a path is what `hard_link` takes. That is
so only where no two of the rows have one path (`Clear`), which is the
premise of what is said of links; without it the code's refusal (`LinkRefused`) and its wrong
binding are both possible. The theorems then need what the rows are: that the sort is
stable and loses nothing, that the last rows of each path have different paths, and that
numbered names differ if they do not collide.

The rows that resolve (`Listed`) and the sort are given by the *rank* of a row, the
number of rows before it, and not by recursion: what is
needed is that ranks are the numbers from one to the number of rows, each once, which is a
fact about cardinalities.

### The mount

For any finite set of paths that has with each path those above it, any limits and
any archives, with contents of any length (`BaleFsAssumption`), over `BaleFsRequests`:

| Theorem | States |
|---|---|
| `FsInvariance` | `Spec => []FsInv` |
| `FsTypes`, `InodesAlwaysSound` | `TypeOK` and `InodesSound`, parts of it |
| `ReadOnlyChangesNothing` | the action property `ReadOnlyKept` |
| `NothingIsExtended` | the action property `NoneExtended` |
| `WritesAlwaysKept`, `OthersAlwaysLeftAlone` | the action properties `WritesKept` and `OthersLeftAlone`, with the premise `NoneOverrun` |
| `TreeAlwaysSound`, `ParentsAlwaysAgree` | `TreeSound` and `ParentsAgree`, with the premise `MountsUnique` |
| `WritesKeptInTree`, `OthersLeftAloneInTree` | `WritesKept` and `OthersLeftAlone`, with the premise `MountsUnique`, which implies `NoneOverrun` |

`InodesSound` says that the two maps of files are each other's inverse up to hard
links and that every buffer is some inode's. It is kept by a rename of a directory
only if no two directories are one inode, and by the making of a file only if the
next inode is not in use (`InodesFresh`); and by a mount only if nothing is
buffered from before (`NothingBuffered`), which is also what makes the end of a
read-only mount change nothing. Together with the types these are `FsInv`.

`NoneExtended` is about the lengths of all contents, in the archive and in the buffers: a
length above the limit that is there after a step was there before. No invariant is
needed but the types; each request is followed through what it adds, deletes, loads, renames
or stores.

What is buffered for a file is kept (`WritesKept`), and a request leaves other files as
they are (`OthersLeftAlone`), by one argument for both. Every request *carries* a
file (`Carried`): its buffer, if there is one, is then under the path its inode then
has; if there is none, the archive answers for its path what it answered before; or
the request was for this file and has written, stored or removed it. For requests
that name one path this rests on what `delete` and the adds do to other paths, which
is nothing unless they are cut to the same or share an entry; for a sync, that each of
its steps does so, also the one it stops at; for the rename of a directory, that two
paths below it stay two.

Both properties are of files whose path has a file's mode (`HasFileMode`), and both must say that it
still has one: a row stored as anything else is not read as a file. The kind of a path is
its first row's or a buffered one, so the carrying lemmas come in pairs, one for
the data and one for the mode (`DeletedKeepsMode`, `RewrittenKeepsMode`): what is
deleted or stored elsewhere leaves the path's rows alone, and what a sync stores
under the path is a file if `ModeKind` said so before the sync, whatever the order. Where
the premise does not hold, `synced_is_readable` shows what the code does.

The last step is where the proof attempt stopped at a fault of the code. Two paths that a
rename moves stay two, but a path it moves may be that of a file that stays. `rename`
refuses a target that exists, so in a sound tree nothing is there; yet not every tree is
sound. TLC finds the steps in an archive with files `a/b`, `a/b/c` and `e/b/c`: write
to `a/b/c` and to `e/b/c`; rename the file `a/b`, which takes the directory `a/b` out of the
listing of `a` too (`bale_fs_state.rs:907`); `rmdir a`, which is now empty; rename
`e` to `a`. Two inodes now have the path `a/b/c`, and one of the two buffers is gone.
`Overrun` names that step and nothing else (a directory is renamed, and a file of it lands
on one that stays), and the theorems are about the behaviours without it.

The fault begins with a path that is two things, which `docs/bale-spec.md` forbids ("Each
live path in the directory table must be unique") but the reader of a mount does not
refuse. `MountsUnique` is that condition: whenever an archive is mounted, no file or symlink
in it has the path of another entry or a path above one (several rows of one
*directory* are allowed). From it alone the tree of the mount follows, for paths of every depth
and any number of mounts. Its inductive invariant (`TreeInv`, of which TLC checked every part on trees of
three levels before it was proved) is `IsTree` of the four maps:

* `Apart`: no path is a file and a directory, and an inode's path leads back to the inode;
* `Closed`: whatever is above a file or a directory is a directory;
* `Shows` and `Sound`: what is in a directory is in its listing, and what is in its
  listing is in it, with the same inode;
* `Reached`: no listing is left of a directory that is gone.

None of these is inductive alone. `rmdir` trusts the listing for a directory to be empty, which by
`Shows` and `Closed` means that nothing is below it; `rename_entry` takes every child of a name
from a listing, which by `Apart` is the one; and a rename refuses a target by
its listing, which means that no path is within the target before the rename, so that
none that moves meets one that stays (`PutApart`). `NoneOverrun` is that last fact, and with it the two
theorems of writes and other files need no premise but `MountsUnique`.

The premise is asked of every mount and not of the first alone, since a mount can itself
make an archive with a path twice: the rows of files below a directory keep their paths when
it is renamed (see "Seen, and modelled"), and new files can be made
there before the next mount. Without the premise the run checks these properties for what
it can reach, where two levels hide most of this.

### How the proofs are laid out

The lemmas on which the theorems rest are stated with `ASSUME ... PROVE`: what each
operator of `MappedFile` returns (`ArchiveWriterProofs`), what each preserves
(`ArchiveWriterSafety`), what each step does to the trailers in the file
(`ArchiveReadingProofs`), what order and matching tables mean for searches
(`ArchiveReadingSafety`), what readers find in two files that agree up to a point
(`ArchiveStoreProofs`), what a mount's numbering, its renames, its syncs and the archive's own operations do to maps
and to other paths (`BaleFsProofs`), and what ranks, sorts and numbered names are
(`ArchiveToolsProofs`). The step of an invariant has a case per action.

### Only model-checked

* What `Normalize` makes of a path that is not normal is checked through the inputs of
  `writer_names`; the proofs use that it leaves stored paths as they are.
* `CompactionEnds` and `LeftoversGo`: liveness is beyond the prover.
* Of the mount, `TreeSound` and `ParentsAgree` *without* the premise `MountsUnique`. They are
  checked for trees of two levels, and are not claimed for deeper ones: where a file and a
  directory share a path, to rename the file away takes the directory out of its
  parent's listing, an `rmdir` of the parent then leaves the directory's entry in
  `dir_inodes`, and with one more level a directory renamed to that path can be mixed up
  with it.

## Not modelled, and why

* Characters of paths, which names are safe, encodings (`archive_path.rs` besides
  `normalize`, padding, comparison and `with_suffix`): pure string functions, covered
  by the repository's property tests.
* Permission bits, the values of times, reserved fields. Of modes their type bits are
  modelled, as kinds; entries of other kinds than files, directories and symlinks are not.
  That the mount's permissions and times reach the archive is modelled as far as they
  can make a sync fail or change what a path is.
* The attributes that `lookup` and `getattr` report, sizes included.
* Power loss and lost pages: the code makes no claim beyond `msync` and the order in
  which the kernel writes pages is arbitrary; with one trailer CRC over all
  metadata the outcome is as for `SyncCrash`, except that data blocks are not
  covered by it.
* `add.rs`: a loop over operations that are modelled; its error returns are `Drop`
  in the model. Copying from and to the host is I/O.
* The reader's statistics, and the wording of the report of `bale check`.
* A session over damaged tables, which parses arbitrary bytes.
* The command line, `error.rs`, the build script and test helpers.
* Of the mount: `readdir` in parts, `statfs`, flags of a rename (which the code
  ignores), the set-up of the mount, signals.

## Plan

Done, most important first: the writer over its file, with `ArchiveStore`; the
protocol of compaction; the mounted file system with its requests; the reader and
what it is told of the writer's files; what the tools copy and extract; the
theorems above.

Left, in this order:

1. **Normalize**, also a recursive function: its laws (what it returns is normal, or
   refused) proved in the manner of `WalkFinds`.
2. **The premise of the mount**: `MountsUnique` with the first archive alone, if renames of
   directories come to change the rows of what is below.
3. **Permissions and times** of the mount as data (only kinds are), with a property that
   what was set is what a remount finds.
4. **Sessions with changes**: what a session's own checks and lookups say before a sync.
