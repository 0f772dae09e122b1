-------------------------- MODULE CompactionProofs --------------------------
(***************************************************************************)
(* Compaction, for any number of processes and files: what a reader has     *)
(* locked stays as it was, and with one compactor at most the rename is     *)
(* atomic.  One lemma for each part of the invariant, one step of it for    *)
(* each action.                                                             *)
(***************************************************************************)
EXTENDS Compaction, TLAPS

(* A new file is one that no name and no process has. *)
LEMMA NewFile ==
    ASSUME NEW name, NEW f, CreatesNew(name, f)
    PROVE  /\ f \in File /\ f \notin InUse
           /\ names[name] = None
           /\ names' = [names EXCEPT ![name] = f]
           /\ content' = [content EXCEPT ![f] = Partial]
BY DEF CreatesNew

(* Every step keeps the types. *)
LEMMA TypeStep ==
    ASSUME TypeOK, PlacesSound, [Next]_vars
    PROVE  TypeOK'
<1> USE CompactionAssumption DEF TypeOK, At, Goes
<1> SUFFICES ASSUME NEW p \in Proc,
                    Begin(p) \/ Step(p) \/ Change(p) \/ Sync(p) \/ Crash(p)
             PROVE  TypeOK'
    BY DEF Next, vars
<1>f1. ~At(p, "idle") => file[p] \in File
    BY DEF PlacesSound, TypeOK
<1>f2. pc[p] \in WithTemp => out[p] \in File
    BY DEF PlacesSound, TypeOK
<1>f3. pc[p] \in Busy => TempOf[task[p]] \in Name /\ TempOf[task[p]] # "archive"
    BY DEF PlacesSound, TempOf, Compacting, Name, Temps
<1>1. CASE OpenToRead(p)
    BY <1>1, <1>f1, <1>f2, <1>f3
    DEF OpenToRead, Compacting, Task, Place, Name, Temps, Image, WithTemp,
            Busy
<1>2. CASE LockShared(p)
    BY <1>2, <1>f1, <1>f2, <1>f3
    DEF LockShared, Compacting, Task, Place, Name, Temps, Image, WithTemp,
            Busy
<1>3. CASE ReadEnds(p)
    BY <1>3, <1>f1, <1>f2, <1>f3
    DEF ReadEnds, Freed, Leaves, Compacting, Task, Place, Name, Temps,
            Image, WithTemp, Busy
<1>4. CASE CloseReader(p)
    BY <1>4, <1>f1, <1>f2, <1>f3
    DEF CloseReader, Freed, Leaves, Compacting, Task, Place, Name, Temps,
            Image, WithTemp, Busy
<1>5. CASE CreateTemp(p)
    BY <1>5, <1>f1, <1>f2, <1>f3, NewFile
    DEF CreateTemp, Compacting, Task, Place, Name, Temps, Image, WithTemp,
            Busy
<1>6. CASE CreateTempFails(p)
    BY <1>6, <1>f1, <1>f2, <1>f3
    DEF CreateTempFails, AfterCreateFails, Compacting, Task, Place, Name,
            Temps, Image, WithTemp, Busy
<1>7. CASE LockTemp(p)
    BY <1>7, <1>f1, <1>f2, <1>f3
    DEF LockTemp, Compacting, Task, Place, Name, Temps, Image, WithTemp,
            Busy
<1>8. CASE Copy(p)
    BY <1>8, <1>f1, <1>f2, <1>f3
    DEF Copy, Compacting, Task, Place, Name, Temps, Image, WithTemp, Busy
<1>9. CASE CopyFails(p)
    BY <1>9, <1>f1, <1>f2, <1>f3
    DEF CopyFails, Compacting, Task, Place, Name, Temps, Image, WithTemp,
            Busy
<1>10. CASE Measure(p)
    BY <1>10, <1>f1, <1>f2, <1>f3
    DEF Measure, Compacting, Task, Place, Name, Temps, Image, WithTemp, Busy
<1>11. CASE RenameOver(p)
    BY <1>11, <1>f1, <1>f2, <1>f3
    DEF RenameOver, Freed, ReadyToRename, Compacting, Task, Place, Name,
            Temps, Image, WithTemp, Busy
<1>12. CASE RenameFails(p)
    BY <1>12, <1>f1, <1>f2, <1>f3
    DEF RenameFails, ReadyToRename, Compacting, Task, Place, Name, Temps,
            Image, WithTemp, Busy
<1>13. CASE RemoveTemp(p)
    BY <1>13, <1>f1, <1>f2, <1>f3
    DEF RemoveTemp, AfterFailure, Freed, Compacting, Task, Place, Name,
            Temps, Image, WithTemp, Busy
<1>14. CASE CreateArchive(p)
    BY <1>14, <1>f1, <1>f2, <1>f3, NewFile
    DEF CreateArchive, Compacting, Task, Place, Name, Temps, Image,
            WithTemp, Busy
<1>15. CASE OpenToWrite(p)
    BY <1>15, <1>f1, <1>f2, <1>f3
    DEF OpenToWrite, Compacting, Task, Place, Name, Temps, Image, WithTemp,
            Busy
<1>16. CASE LockExclusive(p)
    BY <1>16, <1>f1, <1>f2, <1>f3
    DEF LockExclusive, Compacting, Task, Place, Name, Temps, Image,
            WithTemp, Busy
<1>17. CASE WriteRefused(p)
    BY <1>17, <1>f1, <1>f2, <1>f3
    DEF WriteRefused, Freed, Leaves, Compacting, Task, Place, Name, Temps,
            Image, WithTemp, Busy
<1>18. CASE Change(p)
    BY <1>18, <1>f1, <1>f2, <1>f3
    DEF Change, Compacting, Task, Place, Name, Temps, Image, WithTemp, Busy
<1>19. CASE Sync(p)
    BY <1>19, <1>f1, <1>f2, <1>f3
    DEF Sync, Compacting, Task, Place, Name, Temps, Image, WithTemp, Busy
<1>20. CASE DropWriter(p)
    BY <1>20, <1>f1, <1>f2, <1>f3
    DEF DropWriter, Freed, Leaves, Compacting, Task, Place, Name, Temps,
            Image, WithTemp, Busy
<1>21. CASE Crash(p)
    BY <1>21, <1>f1, <1>f2, <1>f3
    DEF Crash, Freed, Leaves, Compacting, Task, Place, Name, Temps, Image,
            WithTemp, Busy
<1> QED BY <1>1, <1>2, <1>3, <1>4, <1>5, <1>6, <1>7, <1>8, <1>9, <1>10,
        <1>11, <1>12, <1>13, <1>14, <1>15, <1>16, <1>17, <1>18, <1>19,
        <1>20, <1>21
    DEF Begin, Step

(* A process has the files and the task that its place requires. *)
LEMMA PlacesStep ==
    ASSUME TypeOK, PlacesSound, [Next]_vars
    PROVE  PlacesSound'
<1> USE CompactionAssumption DEF TypeOK, PlacesSound, At, Goes
<1> SUFFICES ASSUME NEW p \in Proc,
                    Begin(p) \/ Step(p) \/ Change(p) \/ Sync(p) \/ Crash(p)
             PROVE  PlacesSound'
    BY DEF Next, vars
<1>1. CASE OpenToRead(p)
    BY <1>1
    DEF OpenToRead, Compacting, Task, Place, Name, Temps, WithTemp, Busy
<1>2. CASE LockShared(p)
    BY <1>2
    DEF LockShared, Compacting, Task, Place, Name, Temps, WithTemp, Busy
<1>3. CASE ReadEnds(p)
    BY <1>3
    DEF ReadEnds, Freed, Leaves, Compacting, Task, Place, Name, Temps,
            WithTemp, Busy
<1>4. CASE CloseReader(p)
    BY <1>4
    DEF CloseReader, Freed, Leaves, Compacting, Task, Place, Name, Temps,
            WithTemp, Busy
<1>5. CASE CreateTemp(p)
    BY <1>5, NewFile
    DEF CreateTemp, Compacting, Task, Place, Name, Temps, WithTemp, Busy
<1>6. CASE CreateTempFails(p)
    BY <1>6
    DEF CreateTempFails, AfterCreateFails, Compacting, Task, Place, Name,
            Temps, WithTemp, Busy
<1>7. CASE LockTemp(p)
    BY <1>7
    DEF LockTemp, Compacting, Task, Place, Name, Temps, WithTemp, Busy
<1>8. CASE Copy(p)
    BY <1>8
    DEF Copy, Compacting, Task, Place, Name, Temps, WithTemp, Busy
<1>9. CASE CopyFails(p)
    BY <1>9
    DEF CopyFails, Compacting, Task, Place, Name, Temps, WithTemp, Busy
<1>10. CASE Measure(p)
    BY <1>10
    DEF Measure, Compacting, Task, Place, Name, Temps, WithTemp, Busy
<1>11. CASE RenameOver(p)
    BY <1>11
    DEF RenameOver, Freed, ReadyToRename, Compacting, Task, Place, Name,
            Temps, WithTemp, Busy
<1>12. CASE RenameFails(p)
    BY <1>12
    DEF RenameFails, ReadyToRename, Compacting, Task, Place, Name, Temps,
            WithTemp, Busy
<1>13. CASE RemoveTemp(p)
    BY <1>13
    DEF RemoveTemp, AfterFailure, Freed, Compacting, Task, Place, Name,
            Temps, WithTemp, Busy
<1>14. CASE CreateArchive(p)
    BY <1>14, NewFile
    DEF CreateArchive, Compacting, Task, Place, Name, Temps, WithTemp, Busy
<1>15. CASE OpenToWrite(p)
    BY <1>15
    DEF OpenToWrite, Compacting, Task, Place, Name, Temps, WithTemp, Busy
<1>16. CASE LockExclusive(p)
    BY <1>16
    DEF LockExclusive, Compacting, Task, Place, Name, Temps, WithTemp, Busy
<1>17. CASE WriteRefused(p)
    BY <1>17
    DEF WriteRefused, Freed, Leaves, Compacting, Task, Place, Name, Temps,
            WithTemp, Busy
<1>18. CASE Change(p)
    BY <1>18
    DEF Change, Compacting, Task, Place, Name, Temps, WithTemp, Busy
<1>19. CASE Sync(p)
    BY <1>19
    DEF Sync, Compacting, Task, Place, Name, Temps, WithTemp, Busy
<1>20. CASE DropWriter(p)
    BY <1>20
    DEF DropWriter, Freed, Leaves, Compacting, Task, Place, Name, Temps,
            WithTemp, Busy
<1>21. CASE Crash(p)
    BY <1>21
    DEF Crash, Freed, Leaves, Compacting, Task, Place, Name, Temps,
            WithTemp, Busy
<1> QED BY <1>1, <1>2, <1>3, <1>4, <1>5, <1>6, <1>7, <1>8, <1>9, <1>10,
        <1>11, <1>12, <1>13, <1>14, <1>15, <1>16, <1>17, <1>18, <1>19,
        <1>20, <1>21
    DEF Begin, Step

(* Locks are granted only where they exclude nobody who holds one. *)
LEMMA LocksStep ==
    ASSUME TypeOK, PlacesSound, LocksSound, [Next]_vars
    PROVE  LocksSound'
<1> USE CompactionAssumption DEF TypeOK, PlacesSound, LocksSound, At, Goes, HoldsExclusive, HoldsShared, WhileShared
<1> SUFFICES ASSUME NEW p \in Proc,
                    Begin(p) \/ Step(p) \/ Change(p) \/ Sync(p) \/ Crash(p)
             PROVE  LocksSound'
    BY DEF Next, vars
<1>1. CASE OpenToRead(p)
    BY <1>1
    DEF OpenToRead, Place, WithTemp, Busy
<1>2. CASE LockShared(p)
    BY <1>2
    DEF LockShared, CanShare, Place, WithTemp, Busy
<1>3. CASE ReadEnds(p)
    BY <1>3
    DEF ReadEnds, Freed, Leaves, Place, WithTemp, Busy
<1>4. CASE CloseReader(p)
    BY <1>4
    DEF CloseReader, Freed, Leaves, Place, WithTemp, Busy
<1>5. CASE CreateTemp(p)
    BY <1>5, NewFile
    DEF CreateTemp, InUse, Place, WithTemp, Busy
<1>6. CASE CreateTempFails(p)
    BY <1>6
    DEF CreateTempFails, AfterCreateFails, Place, WithTemp, Busy
<1>7. CASE LockTemp(p)
    BY <1>7
    DEF LockTemp, CanOwn, Place, WithTemp, Busy
<1>8. CASE Copy(p)
    BY <1>8
    DEF Copy, Place, WithTemp, Busy
<1>9. CASE CopyFails(p)
    BY <1>9
    DEF CopyFails, Place, WithTemp, Busy
<1>10. CASE Measure(p)
    BY <1>10
    DEF Measure, Place, WithTemp, Busy
<1>11. CASE RenameOver(p)
    BY <1>11
    DEF RenameOver, Freed, ReadyToRename, Place, WithTemp, Busy
<1>12. CASE RenameFails(p)
    BY <1>12
    DEF RenameFails, ReadyToRename, Place, WithTemp, Busy
<1>13. CASE RemoveTemp(p)
    BY <1>13
    DEF RemoveTemp, AfterFailure, Freed, Place, WithTemp, Busy
<1>14. CASE CreateArchive(p)
    BY <1>14, NewFile
    DEF CreateArchive, InUse, Place, WithTemp, Busy
<1>15. CASE OpenToWrite(p)
    BY <1>15
    DEF OpenToWrite, Place, WithTemp, Busy
<1>16. CASE LockExclusive(p)
    BY <1>16
    DEF LockExclusive, CanOwn, Place, WithTemp, Busy
<1>17. CASE WriteRefused(p)
    BY <1>17
    DEF WriteRefused, Freed, Leaves, Place, WithTemp, Busy
<1>18. CASE Change(p)
    BY <1>18
    DEF Change, Place, WithTemp, Busy
<1>19. CASE Sync(p)
    BY <1>19
    DEF Sync, Place, WithTemp, Busy
<1>20. CASE DropWriter(p)
    BY <1>20
    DEF DropWriter, Freed, Leaves, Place, WithTemp, Busy
<1>21. CASE Crash(p)
    BY <1>21
    DEF Crash, Freed, Leaves, Place, WithTemp, Busy
<1> QED BY <1>1, <1>2, <1>3, <1>4, <1>5, <1>6, <1>7, <1>8, <1>9, <1>10,
        <1>11, <1>12, <1>13, <1>14, <1>15, <1>16, <1>17, <1>18, <1>19,
        <1>20, <1>21
    DEF Begin, Step

(* Only the holder of the exclusive lock stores into a file. *)
LEMMA UndisturbedStep ==
    ASSUME TypeOK, PlacesSound, LocksSound, ReadersUndisturbed, [Next]_vars
    PROVE  ReadersUndisturbed'
<1> USE CompactionAssumption DEF TypeOK, PlacesSound, ReadersUndisturbed, At, Goes, WhileShared
<1> SUFFICES ASSUME NEW p \in Proc,
                    Begin(p) \/ Step(p) \/ Change(p) \/ Sync(p) \/ Crash(p)
             PROVE  ReadersUndisturbed'
    BY DEF Next, vars
<1>1. CASE OpenToRead(p)
    BY <1>1
    DEF OpenToRead, InUse, Place, Name, WithTemp, Busy
<1>2. CASE LockShared(p)
    BY <1>2
    DEF LockShared, InUse, Place, Name, WithTemp, Busy
<1>3. CASE ReadEnds(p)
    BY <1>3
    DEF ReadEnds, Freed, Leaves, InUse, Place, Name, WithTemp, Busy
<1>4. CASE CloseReader(p)
    BY <1>4
    DEF CloseReader, Freed, Leaves, InUse, Place, Name, WithTemp, Busy
<1>5. CASE CreateTemp(p)
    BY <1>5, NewFile
    DEF CreateTemp, InUse, Place, Name, WithTemp, Busy
<1>6. CASE CreateTempFails(p)
    BY <1>6
    DEF CreateTempFails, AfterCreateFails, InUse, Place, Name, WithTemp,
            Busy
<1>7. CASE LockTemp(p)
    BY <1>7
    DEF LockTemp, InUse, Place, Name, WithTemp, Busy
<1>8. CASE Copy(p)
  <2> SUFFICES ASSUME NEW q \in Proc, pc'[q] \in WhileShared
               PROVE  content'[file'[q]] = seen'[q]
      OBVIOUS
  <2>1. HoldsExclusive(p, out[p]) /\ out[p] \in File
      BY <1>8 DEF Copy, HoldsExclusive, WithTemp
  <2>2. CASE q = p
      BY <2>1, <2>2, <1>8 DEF Copy, Place
  <2>3. CASE q # p
    <3>1. HoldsShared(q, file[q]) /\ file[q] \in File
        BY <2>3, <1>8 DEF Copy, HoldsShared
    <3>2. file[q] # out[p]
        BY <2>1, <2>3, <3>1 DEF LocksSound
    <3> QED
        BY <2>1, <2>3, <3>1, <3>2, <1>8 DEF Copy
  <2> QED
      BY <2>2, <2>3
<1>9. CASE CopyFails(p)
    BY <1>9
    DEF CopyFails, InUse, Place, Name, WithTemp, Busy
<1>10. CASE Measure(p)
    BY <1>10
    DEF Measure, InUse, Place, Name, WithTemp, Busy
<1>11. CASE RenameOver(p)
    BY <1>11
    DEF RenameOver, Freed, ReadyToRename, InUse, Place, Name, WithTemp, Busy
<1>12. CASE RenameFails(p)
    BY <1>12
    DEF RenameFails, ReadyToRename, InUse, Place, Name, WithTemp, Busy
<1>13. CASE RemoveTemp(p)
    BY <1>13
    DEF RemoveTemp, AfterFailure, Freed, InUse, Place, Name, WithTemp, Busy
<1>14. CASE CreateArchive(p)
    BY <1>14, NewFile
    DEF CreateArchive, InUse, Place, Name, WithTemp, Busy
<1>15. CASE OpenToWrite(p)
    BY <1>15
    DEF OpenToWrite, InUse, Place, Name, WithTemp, Busy
<1>16. CASE LockExclusive(p)
    BY <1>16
    DEF LockExclusive, InUse, Place, Name, WithTemp, Busy
<1>17. CASE WriteRefused(p)
    BY <1>17
    DEF WriteRefused, Freed, Leaves, InUse, Place, Name, WithTemp, Busy
<1>18. CASE Change(p)
  <2> SUFFICES ASSUME NEW q \in Proc, pc'[q] \in WhileShared
               PROVE  content'[file'[q]] = seen'[q]
      OBVIOUS
  <2>1. HoldsExclusive(p, file[p]) /\ file[p] \in File
      BY <1>18 DEF Change, HoldsExclusive, WithTemp
  <2>2. CASE q = p
      BY <2>1, <2>2, <1>18 DEF Change, Place
  <2>3. CASE q # p
    <3>1. HoldsShared(q, file[q]) /\ file[q] \in File
        BY <2>3, <1>18 DEF Change, HoldsShared
    <3>2. file[q] # file[p]
        BY <2>1, <2>3, <3>1 DEF LocksSound
    <3> QED
        BY <2>1, <2>3, <3>1, <3>2, <1>18 DEF Change
  <2> QED
      BY <2>2, <2>3
<1>19. CASE Sync(p)
  <2> SUFFICES ASSUME NEW q \in Proc, pc'[q] \in WhileShared
               PROVE  content'[file'[q]] = seen'[q]
      OBVIOUS
  <2>1. HoldsExclusive(p, file[p]) /\ file[p] \in File
      BY <1>19 DEF Sync, HoldsExclusive, WithTemp
  <2>2. CASE q = p
      BY <2>1, <2>2, <1>19 DEF Sync, Place
  <2>3. CASE q # p
    <3>1. HoldsShared(q, file[q]) /\ file[q] \in File
        BY <2>3, <1>19 DEF Sync, HoldsShared
    <3>2. file[q] # file[p]
        BY <2>1, <2>3, <3>1 DEF LocksSound
    <3> QED
        BY <2>1, <2>3, <3>1, <3>2, <1>19 DEF Sync
  <2> QED
      BY <2>2, <2>3
<1>20. CASE DropWriter(p)
    BY <1>20
    DEF DropWriter, Freed, Leaves, InUse, Place, Name, WithTemp, Busy
<1>21. CASE Crash(p)
    BY <1>21
    DEF Crash, Freed, Leaves, InUse, Place, Name, WithTemp, Busy
<1> QED BY <1>1, <1>2, <1>3, <1>4, <1>5, <1>6, <1>7, <1>8, <1>9, <1>10,
        <1>11, <1>12, <1>13, <1>14, <1>15, <1>16, <1>17, <1>18, <1>19,
        <1>20, <1>21
    DEF Begin, Step

(* A sole compactor's files and names stay apart from everybody else's. *)
LEMMA ApartStep ==
    ASSUME TypeOK, PlacesSound, SoleCompactor, TempsApart, [Next]_vars
    PROVE  TempsApart'
<1> USE CompactionAssumption DEF TypeOK, PlacesSound, SoleCompactor, TempsApart, At, Goes
<1> SUFFICES ASSUME NEW p \in Proc,
                    Begin(p) \/ Step(p) \/ Change(p) \/ Sync(p) \/ Crash(p)
             PROVE  TempsApart'
    BY DEF Next, vars
<1>1. CASE OpenToRead(p)
    BY <1>1
    DEF OpenToRead, InUse, Name, Temps, Place, WithTemp, Busy, Compacting,
            TempOf
<1>2. CASE LockShared(p)
    BY <1>2
    DEF LockShared, InUse, Name, Temps, Place, WithTemp, Busy, Compacting,
            TempOf
<1>3. CASE ReadEnds(p)
    BY <1>3
    DEF ReadEnds, Freed, Leaves, InUse, Name, Temps, Place, WithTemp, Busy,
            Compacting, TempOf
<1>4. CASE CloseReader(p)
    BY <1>4
    DEF CloseReader, Freed, Leaves, InUse, Name, Temps, Place, WithTemp,
            Busy, Compacting, TempOf
<1>5. CASE CreateTemp(p)
    BY <1>5, NewFile
    DEF CreateTemp, InUse, Name, Temps, Place, WithTemp, Busy, Compacting,
            TempOf
<1>6. CASE CreateTempFails(p)
    BY <1>6
    DEF CreateTempFails, AfterCreateFails, InUse, Name, Temps, Place,
            WithTemp, Busy, Compacting, TempOf
<1>7. CASE LockTemp(p)
    BY <1>7
    DEF LockTemp, InUse, Name, Temps, Place, WithTemp, Busy, Compacting,
            TempOf
<1>8. CASE Copy(p)
    BY <1>8
    DEF Copy, InUse, Name, Temps, Place, WithTemp, Busy, Compacting, TempOf
<1>9. CASE CopyFails(p)
    BY <1>9
    DEF CopyFails, InUse, Name, Temps, Place, WithTemp, Busy, Compacting,
            TempOf
<1>10. CASE Measure(p)
    BY <1>10
    DEF Measure, InUse, Name, Temps, Place, WithTemp, Busy, Compacting,
            TempOf
<1>11. CASE RenameOver(p)
    BY <1>11
    DEF RenameOver, Freed, ReadyToRename, InUse, Name, Temps, Place,
            WithTemp, Busy, Compacting, TempOf
<1>12. CASE RenameFails(p)
    BY <1>12
    DEF RenameFails, ReadyToRename, InUse, Name, Temps, Place, WithTemp,
            Busy, Compacting, TempOf
<1>13. CASE RemoveTemp(p)
    BY <1>13
    DEF RemoveTemp, AfterFailure, Freed, InUse, Name, Temps, Place,
            WithTemp, Busy, Compacting, TempOf
<1>14. CASE CreateArchive(p)
    BY <1>14, NewFile
    DEF CreateArchive, InUse, Name, Temps, Place, WithTemp, Busy,
            Compacting, TempOf
<1>15. CASE OpenToWrite(p)
    BY <1>15
    DEF OpenToWrite, InUse, Name, Temps, Place, WithTemp, Busy, Compacting,
            TempOf
<1>16. CASE LockExclusive(p)
    BY <1>16
    DEF LockExclusive, InUse, Name, Temps, Place, WithTemp, Busy,
            Compacting, TempOf
<1>17. CASE WriteRefused(p)
    BY <1>17
    DEF WriteRefused, Freed, Leaves, InUse, Name, Temps, Place, WithTemp,
            Busy, Compacting, TempOf
<1>18. CASE Change(p)
    BY <1>18
    DEF Change, InUse, Name, Temps, Place, WithTemp, Busy, Compacting,
            TempOf
<1>19. CASE Sync(p)
    BY <1>19
    DEF Sync, InUse, Name, Temps, Place, WithTemp, Busy, Compacting, TempOf
<1>20. CASE DropWriter(p)
    BY <1>20
    DEF DropWriter, Freed, Leaves, InUse, Name, Temps, Place, WithTemp,
            Busy, Compacting, TempOf
<1>21. CASE Crash(p)
    BY <1>21
    DEF Crash, Freed, Leaves, InUse, Name, Temps, Place, WithTemp, Busy,
            Compacting, TempOf
<1> QED BY <1>1, <1>2, <1>3, <1>4, <1>5, <1>6, <1>7, <1>8, <1>9, <1>10,
        <1>11, <1>12, <1>13, <1>14, <1>15, <1>16, <1>17, <1>18, <1>19,
        <1>20, <1>21
    DEF Begin, Step

(* A sole compactor keeps the archive it reads, and its temporary file. *)
LEMMA SourceStep ==
    ASSUME TypeOK, PlacesSound, ReadersUndisturbed, SoleCompactor, TempsApart, SourceKept, [Next]_vars
    PROVE  SourceKept'
<1> USE CompactionAssumption DEF TypeOK, PlacesSound, SoleCompactor, TempsApart, SourceKept, At, Goes
<1> SUFFICES ASSUME NEW p \in Proc,
                    Begin(p) \/ Step(p) \/ Change(p) \/ Sync(p) \/ Crash(p)
             PROVE  SourceKept'
    BY DEF Next, vars
<1>1. CASE OpenToRead(p)
    BY <1>1
    DEF OpenToRead, InUse, Name, Temps, Place, WithTemp, Busy, Compacting,
            TempOf
<1>2. CASE LockShared(p)
    BY <1>2
    DEF LockShared, InUse, Name, Temps, Place, WithTemp, Busy, Compacting,
            TempOf
<1>3. CASE ReadEnds(p)
    BY <1>3
    DEF ReadEnds, Freed, Leaves, InUse, Name, Temps, Place, WithTemp, Busy,
            Compacting, TempOf
<1>4. CASE CloseReader(p)
    BY <1>4
    DEF CloseReader, Freed, Leaves, InUse, Name, Temps, Place, WithTemp,
            Busy, Compacting, TempOf
<1>5. CASE CreateTemp(p)
    BY <1>5, NewFile
    DEF CreateTemp, InUse, Name, Temps, Place, WithTemp, Busy, Compacting,
            TempOf
<1>6. CASE CreateTempFails(p)
    BY <1>6
    DEF CreateTempFails, AfterCreateFails, InUse, Name, Temps, Place,
            WithTemp, Busy, Compacting, TempOf
<1>7. CASE LockTemp(p)
    BY <1>7
    DEF LockTemp, InUse, Name, Temps, Place, WithTemp, Busy, Compacting,
            TempOf
<1>8. CASE Copy(p)
    BY <1>8
    DEF Copy, ReadersUndisturbed, WhileShared, InUse, Name, Temps, Place,
            WithTemp, Busy, Compacting, TempOf
<1>9. CASE CopyFails(p)
    BY <1>9
    DEF CopyFails, InUse, Name, Temps, Place, WithTemp, Busy, Compacting,
            TempOf
<1>10. CASE Measure(p)
    BY <1>10
    DEF Measure, InUse, Name, Temps, Place, WithTemp, Busy, Compacting,
            TempOf
<1>11. CASE RenameOver(p)
    BY <1>11
    DEF RenameOver, Freed, ReadyToRename, InUse, Name, Temps, Place,
            WithTemp, Busy, Compacting, TempOf
<1>12. CASE RenameFails(p)
    BY <1>12
    DEF RenameFails, ReadyToRename, InUse, Name, Temps, Place, WithTemp,
            Busy, Compacting, TempOf
<1>13. CASE RemoveTemp(p)
    BY <1>13
    DEF RemoveTemp, AfterFailure, Freed, InUse, Name, Temps, Place,
            WithTemp, Busy, Compacting, TempOf
<1>14. CASE CreateArchive(p)
    BY <1>14, NewFile
    DEF CreateArchive, InUse, Name, Temps, Place, WithTemp, Busy,
            Compacting, TempOf
<1>15. CASE OpenToWrite(p)
    BY <1>15
    DEF OpenToWrite, InUse, Name, Temps, Place, WithTemp, Busy, Compacting,
            TempOf
<1>16. CASE LockExclusive(p)
    BY <1>16
    DEF LockExclusive, InUse, Name, Temps, Place, WithTemp, Busy,
            Compacting, TempOf
<1>17. CASE WriteRefused(p)
    BY <1>17
    DEF WriteRefused, Freed, Leaves, InUse, Name, Temps, Place, WithTemp,
            Busy, Compacting, TempOf
<1>18. CASE Change(p)
    BY <1>18
    DEF Change, InUse, Name, Temps, Place, WithTemp, Busy, Compacting,
            TempOf
<1>19. CASE Sync(p)
    BY <1>19
    DEF Sync, InUse, Name, Temps, Place, WithTemp, Busy, Compacting, TempOf
<1>20. CASE DropWriter(p)
    BY <1>20
    DEF DropWriter, Freed, Leaves, InUse, Name, Temps, Place, WithTemp,
            Busy, Compacting, TempOf
<1>21. CASE Crash(p)
    BY <1>21
    DEF Crash, Freed, Leaves, InUse, Name, Temps, Place, WithTemp, Busy,
            Compacting, TempOf
<1> QED BY <1>1, <1>2, <1>3, <1>4, <1>5, <1>6, <1>7, <1>8, <1>9, <1>10,
        <1>11, <1>12, <1>13, <1>14, <1>15, <1>16, <1>17, <1>18, <1>19,
        <1>20, <1>21
    DEF Begin, Step

LEMMA InvInit ==
    ASSUME Init
    PROVE  IInv
<1> USE CompactionAssumption DEF Init, At
<1>1. TypeOK
    BY DEF TypeOK, Place, Task, Image
<1>2. PlacesSound /\ LocksSound /\ ReadersUndisturbed
    BY DEF PlacesSound, LocksSound, ReadersUndisturbed, Busy, WithTemp,
           HoldsExclusive, WhileShared, Compacting
<1>3. TempsApart
    BY DEF TempsApart, Name, Temps
<1>4. SourceKept
    BY DEF SourceKept, WithTemp, Compacting
<1> QED
    BY <1>1, <1>2, <1>3, <1>4 DEF IInv

LEMMA InvStep ==
    ASSUME IInv, [Next]_vars
    PROVE  IInv'
<1> USE DEF IInv
<1>1. TypeOK'
    BY TypeStep
<1>2. PlacesSound'
    BY PlacesStep
<1>3. LocksSound'
    BY LocksStep
<1>4. ReadersUndisturbed'
    BY UndisturbedStep
<1>5. SoleCompactor => TempsApart'
    BY ApartStep
<1>6. SoleCompactor => SourceKept'
    BY SourceStep
<1> QED
    BY <1>1, <1>2, <1>3, <1>4, <1>5, <1>6 DEF SoleCompactor

(***************************************************************************)
(* The invariant holds of any number of processes that read, write and      *)
(* compact one archive with MappedArchive, MappedArchiveMut and compact.    *)
(***************************************************************************)
THEOREM CompactionInvariance == Spec => []IInv
<1>1. Init => IInv
    BY InvInit
<1>2. IInv /\ [Next]_vars => IInv'
    BY InvStep
<1> QED
    BY <1>1, <1>2, PTL DEF Spec

(***************************************************************************)
(* MappedArchive's shared lock: an archive that is locked for reading stays *)
(* as it was, among any number of writers and compactions.                  *)
(***************************************************************************)
THEOREM ReadersStayUndisturbed == Spec => []ReadersUndisturbed
<1>1. IInv => ReadersUndisturbed
    BY DEF IInv
<1> QED
    BY <1>1, CompactionInvariance, PTL

(* The temporary file of a sole compactor holds what the archive holds. *)
LEMMA RenameKeepsFound ==
    ASSUME IInv, SoleCompactor, NEW p \in Proc, RenameOver(p)
    PROVE  Found' = Found
<1> DEFINE temp == TempOf[task[p]]
<1> USE DEF IInv, At
<1>1. task[p] \in Compacting /\ pc[p] \in {"copied", "measured"}
    BY DEF RenameOver, ReadyToRename, Compacting
<1>2. /\ names["archive"] = file[p]
      /\ names[temp] = out[p]
      /\ content[out[p]] = seen[p]
      /\ content[file[p]] = seen[p]
    BY <1>1 DEF SourceKept, WithTemp, ReadersUndisturbed, WhileShared
<1>3. out[p] \in File /\ file[p] \in File
    BY <1>1 DEF TypeOK, PlacesSound, WithTemp
<1>4. "archive" \in Name /\ temp \in Name /\ temp # "archive"
    BY <1>1 DEF TempOf, Compacting, Name, Temps
<1>5. names'["archive"] = out[p]
    BY <1>2, <1>4 DEF RenameOver, TypeOK
<1>6. content'[out[p]] = content[out[p]]
    BY <1>3, <1>4, <1>5 DEF RenameOver, Freed, InUse
<1> QED
    BY <1>2, <1>3, <1>5, <1>6, CompactionAssumption DEF Found

(***************************************************************************)
(* compact's atomic replace: with one compactor at most, beside any number  *)
(* of readers and writers and with any number of them killed, the archive's *)
(* name passes only to a file that holds what readers found before.         *)
(***************************************************************************)
THEOREM SoleReplaceIsAtomic ==
    ASSUME SoleCompactor
    PROVE  Spec => ReplaceIsAtomic
<1> DEFINE Passes == names["archive"] # None /\ names'["archive"] # names["archive"]
<1>1. IInv /\ [Next]_vars => [Passes => Found' = Found]_vars
  <2> SUFFICES ASSUME IInv, Next, Passes
               PROVE  Found' = Found
      BY DEF vars
  <2>1. PICK p \in Proc : Begin(p) \/ Step(p) \/ Change(p) \/ Sync(p) \/ Crash(p)
      BY DEF Next
  <2>2. "archive" \in Name /\ names \in [Name -> File \cup {None}]
      BY DEF IInv, TypeOK, Name
  <2>3. CASE RenameOver(p)
      BY <2>3, RenameKeepsFound
  <2>4. CASE CreateTemp(p) \/ RemoveTemp(p)
    <3>1. TempOf[task[p]] # "archive"
        BY <2>4 DEF CreateTemp, RemoveTemp, IInv, PlacesSound, At, Busy, TempOf,
                    Compacting
    <3> QED
        BY <2>2, <2>4, <3>1, NewFile DEF CreateTemp, RemoveTemp
  <2>5. CASE CreateArchive(p)
      BY <2>5, NewFile DEF CreateArchive
  <2> QED
      BY <2>1, <2>3, <2>4, <2>5
      DEF Begin, Step, OpenToRead, LockShared, ReadEnds, CloseReader,
          CreateTempFails, LockTemp, Copy, CopyFails, Measure, RenameFails,
          OpenToWrite, LockExclusive, WriteRefused, Change, Sync, DropWriter,
          Crash
<1> QED
    BY <1>1, CompactionInvariance, PTL DEF Spec, ReplaceIsAtomic

=============================================================================
