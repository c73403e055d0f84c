---- MODULE ArtifactFile_proofs ----
(***************************************************************************)
(* Theorems about ArtifactFile, for any number of callers, any contents    *)
(* and any number of failed system calls, crashes and power losses.        *)
(***************************************************************************)
EXTENDS ArtifactFile, TLAPS

\* Type correctness: every variable keeps its type.
THEOREM TypeCorrect == Spec => []TypeOK
<1>1. Init => TypeOK
  BY DEF Init, TypeOK, Pcs, Running, Dir, Dirs, Names, Inodes
<1>2. TypeOK /\ [Next]_vars => TypeOK'
  <2> SUFFICES ASSUME TypeOK, [Next]_vars PROVE TypeOK'
    OBVIOUS
  <2> USE DEF TypeOK, Goto, Return, Finish, Succeed, Fail, Same, Rest, Change, dirVars, Dir, Dirs
  <2>b. Writers \subseteq Names /\ Absent \in Names
    BY DEF Names, Inodes
  <2>1. CASE PowerLoss
    <3>1. path' \in Names /\ temp' \in SUBSET Writers /\ backup' \in [Writers -> Names] /\ disk' \in SUBSET Dirs
      BY <2>1 DEF PowerLoss
    <3>2. data' \in [Inodes -> {"empty", "written", "synced"}]
      BY <2>1 DEF PowerLoss
    <3>3. pc' \in [Writers -> Pcs] /\ crashes' \in Nat
      BY <2>1 DEF PowerLoss, Pcs
    <3> QED BY <2>1, <3>1, <3>2, <3>3 DEF PowerLoss
  <2>2. CASE \E w \in Writers : WriteFile(w) \/ Crash(w)
    <3> PICK w \in Writers : WriteFile(w) \/ Crash(w)
      BY <2>2
    <3>1. CASE Crash(w)
      BY <3>1 DEF Crash, Pcs
    <3>2. CASE Begin(w)
      BY <3>2 DEF Begin, Pcs, Running
    <3>3. CASE CheckLstat(w)
      BY <3>3 DEF CheckLstat, Pcs, Running, NotFound, Differs
    <3>4. CASE ReadLstat(w)
      BY <3>4 DEF ReadLstat, Pcs, Running
    <3>5. CASE ReadOpen(w)
      BY <3>5 DEF ReadOpen, Pcs, Running, Differs
    <3>6. CASE CreateTemp(w)
      BY <3>6, <2>b DEF CreateTemp, Pcs, Running
    <3>7. CASE WriteTemp(w)
      BY <3>7 DEF WriteTemp, Pcs, Running
    <3>8. CASE SyncTemp(w)
      BY <3>8 DEF SyncTemp, Pcs, Running
    <3>9. CASE Cleanup(w)
      BY <3>9, <2>b DEF Cleanup, Pcs, Running
    <3>10. CASE Link(w)
      BY <3>10, <2>b DEF Link, Pcs, Running
    <3>11. CASE Unstage(w)
      BY <3>11, <2>b DEF Unstage, Pcs, Running
    <3>12. CASE SyncNew(w)
      BY <3>12 DEF SyncNew, Pcs, Running
    <3>13. CASE RollNew(w)
      BY <3>13, <2>b DEF RollNew, Pcs, Running
    <3>14. CASE Stat(w)
      BY <3>14 DEF Stat, Pcs, Running
    <3>15. CASE RenameNew(w)
      BY <3>15, <2>b DEF RenameNew, Pcs, Running
    <3>16. CASE Backup(w)
      BY <3>16, <2>b DEF Backup, Pcs, Running
    <3>17. CASE Replace(w)
      BY <3>17, <2>b DEF Replace, Pcs, Running
    <3>18. CASE SyncReplace(w)
      BY <3>18 DEF SyncReplace, Pcs, Running
    <3>19. CASE Unbackup(w)
      BY <3>19, <2>b DEF Unbackup, Pcs, Running
    <3>20. CASE Unreplace(w)
      BY <3>20, <2>b DEF Unreplace, Pcs, Running
    <3>21. CASE Restore(w)
      BY <3>21, <2>b DEF Restore, Pcs, Running
    <3> QED
      BY <3>1, <3>2, <3>3, <3>4, <3>5, <3>6, <3>7, <3>8, <3>9, <3>10, <3>11,
         <3>12, <3>13, <3>14, <3>15, <3>16, <3>17, <3>18, <3>19, <3>20, <3>21
      DEF WriteFile
  <2>3. CASE UNCHANGED vars
    BY <2>3 DEF vars
  <2> QED BY <2>1, <2>2, <2>3 DEF Next
<1> QED BY <1>1, <1>2, PTL DEF Spec

----------------------------------------------------------------------------
(***************************************************************************)
(* A published file is complete.  The invariant: the inode of a call that  *)
(* has not linked or renamed it yet has no published name, on the disk or  *)
(* off it, so writing to it tears nothing; and a call gets to the link or  *)
(* the rename only with its inode synced.                                  *)
(***************************************************************************)
Early == {"idle", "check", "compare", "read", "create", "write", "sync", "link"}
Staged == {"link", "stat", "renameNew", "backup", "replace"}

Complete ==
    /\ Dir \in disk
    /\ \A d \in disk : \A n \in Published(d) : data[n] = "synced"
    /\ \A w \in Writers : pc[w] \in Early => \A d \in disk : w \notin Published(d)
    /\ \A w \in Writers : pc[w] \in Staged => data[w] = "synced"

\* A change that publishes no inode but w, which is synced, keeps Complete.
LEMMA ChangeKeepsComplete ==
    ASSUME TypeOK, Complete, NEW w \in Writers, NEW p, NEW t, NEW b,
           Change(p, t, b), UNCHANGED data,
           \A n \in Published([path |-> p, temp |-> t, backup |-> b]) :
               n \in Published(Dir) \/ (n = w /\ data[w] = "synced"),
           \A x \in Writers : pc'[x] \in Early => pc[x] \in Early,
           w \in Published([path |-> p, temp |-> t, backup |-> b]) => pc'[w] \notin Early \/ w \in Published(Dir),
           \A x \in Writers : pc'[x] \in Staged => data[x] = "synced"
    PROVE  Complete'
<1> DEFINE e == [path |-> p, temp |-> t, backup |-> b]
<1>1. Dir' = e /\ disk' = disk \cup {e}
  BY DEF Change, Dir
<1>2. \A d \in disk' : \A n \in Published(d) : data'[n] = "synced"
  BY <1>1 DEF Complete
<1>3. \A x \in Writers : pc'[x] \in Early => \A d \in disk' : x \notin Published(d)
  BY <1>1 DEF Complete
<1>4. \A d : Published(d)' = Published(d)
  BY DEF Published
<1> QED BY <1>1, <1>2, <1>3, <1>4 DEF Complete

LEMMA CompleteInit == Init => Complete
<1> SUFFICES ASSUME Init PROVE Complete
  OBVIOUS
<1>1. Published(Dir) \subseteq {Old}
  BY InodeAssumption DEF Init, Published, Dir, Inodes
<1> QED BY <1>1, InodeAssumption DEF Init, Complete, Early, Staged, Inodes, Published

LEMMA CompleteStep == TypeOK /\ Complete /\ [Next]_vars => Complete'
<1> SUFFICES ASSUME TypeOK, Complete, [Next]_vars PROVE Complete'
  OBVIOUS
<1> USE DEF Goto, Return, Finish, Succeed, Fail, Same, Rest, dirVars
<1>1. CASE PowerLoss
  BY <1>1 DEF PowerLoss, Complete, Dir, Published, Early, Staged, Running, TypeOK, Dirs
<1>2. CASE \E w \in Writers : WriteFile(w) \/ Crash(w)
  <2> PICK w \in Writers : WriteFile(w) \/ Crash(w)
    BY <1>2
  <2> DEFINE Quiet == UNCHANGED <<path, temp, backup, disk, data>>
  <2>a. ASSUME Quiet,
               \A x \in Writers : pc'[x] \in Early => pc[x] \in Early,
               \A x \in Writers : pc'[x] \in Staged => data[x] = "synced"
        PROVE  Complete'
    BY <2>a DEF Complete, Dir, Published
  <2>0. w \in Inodes /\ pc \in [Writers -> Pcs] /\ data \in [Inodes -> {"empty", "written", "synced"}]
    BY DEF Inodes, TypeOK
  <2> USE <2>0 DEF Early, Staged
  <2>1. CASE Crash(w)
    BY <2>1, <2>a DEF Crash, Complete
  <2>2. CASE Begin(w)
    BY <2>2, <2>a DEF Begin, Complete
  <2>3. CASE CheckLstat(w)
    BY <2>3, <2>a DEF CheckLstat, NotFound, Differs, Complete
  <2>4. CASE ReadLstat(w)
    BY <2>4, <2>a DEF ReadLstat, Complete
  <2>5. CASE ReadOpen(w)
    BY <2>5, <2>a DEF ReadOpen, Differs, Complete
  <2>7. CASE WriteTemp(w)
    <3>1. \A d \in disk : w \notin Published(d)
      BY <2>7 DEF WriteTemp, Complete
    <3>2. \A n \in Inodes : n # w => data'[n] = data[n]
      BY <2>7 DEF WriteTemp
    <3>3. UNCHANGED <<path, temp, backup, disk>>
      BY <2>7 DEF WriteTemp
    <3>4. \A d \in disk : \A n \in Published(d) : n \in Inodes /\ n # w
      BY <3>1 DEF Published
    <3>5. \A x \in Writers : x \in Inodes
      BY DEF Inodes
    <3>6. \A x \in Writers : pc'[x] \in Staged => data'[x] = "synced"
      BY <2>7, <3>2, <3>5 DEF WriteTemp, Complete
    <3>7. \A x \in Writers : pc'[x] \in Early => pc[x] \in Early
      BY <2>7 DEF WriteTemp
    <3> QED BY <3>2, <3>3, <3>4, <3>6, <3>7 DEF Complete, Dir, Published
  <2>8. CASE SyncTemp(w)
    <3>1. \A n \in Inodes : data[n] = "synced" => data'[n] = "synced"
      BY <2>8 DEF SyncTemp
    <3>2. \A d \in disk : \A n \in Published(d) : n \in Inodes
      BY DEF Published
    <3>3. UNCHANGED <<path, temp, backup, disk>>
      BY <2>8 DEF SyncTemp
    <3>4. \A x \in Writers : x \in Inodes
      BY DEF Inodes
    <3>5. \A x \in Writers : pc'[x] \in Staged => data'[x] = "synced"
      BY <2>8, <3>1, <3>4 DEF SyncTemp, Complete
    <3>6. \A x \in Writers : pc'[x] \in Early => pc[x] \in Early
      BY <2>8 DEF SyncTemp
    <3> QED BY <3>1, <3>2, <3>3, <3>5, <3>6 DEF Complete, Dir, Published
  <2>6. CASE CreateTemp(w)
    BY <2>6, <2>a, ChangeKeepsComplete DEF CreateTemp, Complete, Published, Dir
  <2>9. CASE Cleanup(w)
    BY <2>9, <2>a, ChangeKeepsComplete DEF Cleanup, Complete, Published, Dir
  <2>10. CASE Link(w)
    BY <2>10, <2>a, ChangeKeepsComplete DEF Link, Complete, Published, Dir
  <2>11. CASE Unstage(w)
    BY <2>11, <2>a, ChangeKeepsComplete DEF Unstage, Complete, Published, Dir
  <2>12. CASE SyncNew(w)
    BY <2>12, <2>a DEF SyncNew, Complete, Published, Dir
  <2>13. CASE RollNew(w)
    BY <2>13, <2>a, ChangeKeepsComplete, InodeAssumption DEF RollNew, Complete, Published, Dir
  <2>14. CASE Stat(w)
    BY <2>14, <2>a DEF Stat, Complete
  <2>15. CASE RenameNew(w)
    BY <2>15, <2>a, ChangeKeepsComplete DEF RenameNew, Complete, Published, Dir
  <2>16. CASE Backup(w)
    <3>1. CASE Change(Absent, temp, [backup EXCEPT ![w] = path])
      <4>1. \A n \in Published([path |-> Absent, temp |-> temp, backup |-> [backup EXCEPT ![w] = path]]) : n \in Published(Dir)
        BY InodeAssumption DEF Published, Dir, TypeOK
      <4>2. UNCHANGED data
        BY <2>16 DEF Backup
      <4>3. \A x \in Writers : pc'[x] \in Early => pc[x] \in Early
        BY <2>16 DEF Backup
      <4>4. \A x \in Writers : pc'[x] \in Staged => data[x] = "synced"
        BY <2>16 DEF Backup, Complete
      <4> QED BY <3>1, <4>1, <4>2, <4>3, <4>4, ChangeKeepsComplete
    <3>2. CASE Quiet
      BY <2>16, <2>a, <3>2 DEF Backup, Complete
    <3> QED BY <2>16, <3>1, <3>2 DEF Backup
  <2>17. CASE Replace(w)
    BY <2>17, <2>a, ChangeKeepsComplete DEF Replace, Complete, Published, Dir
  <2>18. CASE SyncReplace(w)
    BY <2>18, <2>a DEF SyncReplace, Complete, Published, Dir
  <2>19. CASE Unbackup(w)
    <3>1. CASE Change(path, temp, [backup EXCEPT ![w] = Absent])
      <4>1. \A n \in Published([path |-> path, temp |-> temp, backup |-> [backup EXCEPT ![w] = Absent]]) : n \in Published(Dir)
        BY InodeAssumption DEF Published, Dir, TypeOK
      <4>2. UNCHANGED data
        BY <2>19 DEF Unbackup
      <4>3. \A x \in Writers : pc'[x] \in Early => pc[x] \in Early
        BY <2>19 DEF Unbackup
      <4>4. \A x \in Writers : pc'[x] \in Staged => data[x] = "synced"
        BY <2>19 DEF Unbackup, Complete
      <4> QED BY <3>1, <4>1, <4>2, <4>3, <4>4, ChangeKeepsComplete
    <3>2. CASE Quiet
      BY <2>19, <2>a, <3>2 DEF Unbackup, Complete
    <3> QED BY <2>19, <3>1, <3>2 DEF Unbackup
  <2>20. CASE Unreplace(w)
    BY <2>20, <2>a, ChangeKeepsComplete, InodeAssumption DEF Unreplace, Complete, Published, Dir
  <2>21. CASE Restore(w)
    <3>1. CASE Change(backup[w], temp, [backup EXCEPT ![w] = Absent])
      <4>1. \A n \in Published([path |-> backup[w], temp |-> temp, backup |-> [backup EXCEPT ![w] = Absent]]) : n \in Published(Dir)
        BY InodeAssumption DEF Published, Dir, TypeOK
      <4>2. UNCHANGED data
        BY <2>21 DEF Restore
      <4>3. \A x \in Writers : pc'[x] \in Early => pc[x] \in Early
        BY <2>21 DEF Restore
      <4>4. \A x \in Writers : pc'[x] \in Staged => data[x] = "synced"
        BY <2>21 DEF Restore, Complete
      <4> QED BY <3>1, <4>1, <4>2, <4>3, <4>4, ChangeKeepsComplete
    <3>2. CASE Quiet
      BY <2>21, <2>a, <3>2 DEF Restore, Complete
    <3> QED BY <2>21, <3>1, <3>2 DEF Restore
  <2> QED
    BY <2>1, <2>2, <2>3, <2>4, <2>5, <2>6, <2>7, <2>8, <2>9, <2>10, <2>11,
       <2>12, <2>13, <2>14, <2>15, <2>16, <2>17, <2>18, <2>19, <2>20, <2>21
    DEF WriteFile
<1>3. CASE UNCHANGED vars
  BY <1>3 DEF vars, dirVars, Complete, Dir, Published
<1> QED BY <1>1, <1>2, <1>3 DEF Next

LEMMA CompleteCorrect == Spec => []Complete
  BY CompleteInit, CompleteStep, TypeCorrect, PTL DEF Spec

\* A file found at the path, or kept at a backup, is complete: no crash, power
\* loss or failed system call exposes a torn artifact.
THEOREM PublishedCorrect == Spec => []PublishedIsComplete
<1>1. Complete => PublishedIsComplete
  BY DEF Complete, PublishedIsComplete
<1> QED BY <1>1, CompleteCorrect, PTL

----------------------------------------------------------------------------
(***************************************************************************)
(* While no system call fails, the artifact survives.  The invariant: a    *)
(* call that still holds a backup it will remove either sees a file at the *)
(* path, or another call has moved that file to its own backup and has not *)
(* put the next one there yet, or died before it could.                    *)
(***************************************************************************)
Rollbacks == {"rollNew", "restore", "unreplace"}
Keeper(y) == pc[y] \in {"replace", "dead"} /\ backup[y] # Absent

Covered ==
    /\ \A w \in Writers : pc[w] \notin Rollbacks
    /\ \A w \in Writers : pc[w] = "replace" => backup[w] # Absent
    /\ \A w \in Writers :
          pc[w] \in {"syncReplace", "unbackup"} /\ path = Absent => \E y \in Writers : Keeper(y)

LEMMA CoveredStep ==
    ASSUME TypeOK, Covered, [Next]_vars, faults' = 0
    PROVE  Covered'
<1> USE DEF Goto, Return, Finish, Succeed, Same, Rest, dirVars, Rollbacks
<1>0. ~Fail /\ pc \in [Writers -> Pcs] /\ backup \in [Writers -> Names]
  BY DEF Fail, TypeOK
<1>1. CASE PowerLoss
  BY <1>1, <1>0 DEF PowerLoss, Covered, Running
<1>2. CASE \E w \in Writers : WriteFile(w) \/ Crash(w)
  <2> PICK w \in Writers : WriteFile(w) \/ Crash(w)
    BY <1>2
  <2> USE <1>0
  \* Steps that move neither the path nor a backup, and enter no pc of Covered.
  <2>a. ASSUME UNCHANGED <<path, backup, faults>>,
               pc[w] # "replace",
               \E s \in Pcs \ (Rollbacks \cup {"replace", "syncReplace"}) :
                   pc' = [pc EXCEPT ![w] = s] /\ (s = "unbackup" => pc[w] = "syncReplace"),
               pc[w] # "dead"
        PROVE  Covered'
    <3>1. \A y \in Writers : Keeper(y) => Keeper(y)'
      BY <2>a DEF Keeper
    <3>2. \A x \in Writers : pc'[x] \in {"syncReplace", "unbackup"} => pc[x] \in {"syncReplace", "unbackup"}
      BY <2>a
    <3>3. \A x \in Writers : pc'[x] \notin Rollbacks /\ (pc'[x] = "replace" => pc[x] = "replace")
      BY <2>a DEF Covered
    <3> QED BY <2>a, <3>1, <3>2, <3>3 DEF Covered
  \* Steps that put a file at the path.
  <2>b. ASSUME path' = w, UNCHANGED <<backup, faults>>,
               \E s \in Pcs \ (Rollbacks \cup {"replace"}) : pc' = [pc EXCEPT ![w] = s]
        PROVE  Covered'
    BY <2>b, InodeAssumption DEF Covered, Inodes
  <2> USE DEF Pcs, Running
  <2>1. CASE Crash(w)
    <3>1. UNCHANGED <<path, backup, faults>> /\ pc' = [pc EXCEPT ![w] = "dead"]
      BY <2>1 DEF Crash
    <3>2. \A y \in Writers : Keeper(y) => Keeper(y)'
      BY <3>1 DEF Keeper
    <3> QED BY <3>1, <3>2 DEF Covered
  <2>2. CASE Begin(w)
    <3>1. pc[w] = "idle" /\ pc' = [pc EXCEPT ![w] = "check"] /\ UNCHANGED <<path, backup, faults>>
      BY <2>2 DEF Begin
    <3>2. "check" \in Pcs \ (Rollbacks \cup {"replace", "syncReplace"}) /\ "check" # "unbackup"
      OBVIOUS
    <3>3. pc[w] # "replace" /\ pc[w] # "dead"
      BY <3>1
    <3> HIDE DEF Pcs, Rollbacks, Running
    <3> QED BY <3>1, <3>2, <3>3, <2>a
  <2>3. CASE CheckLstat(w)
    BY <2>3, <2>a DEF CheckLstat, NotFound, Differs
  <2>4. CASE ReadLstat(w)
    BY <2>4, <2>a DEF ReadLstat
  <2>5. CASE ReadOpen(w)
    BY <2>5, <2>a DEF ReadOpen, Differs
  <2>6. CASE CreateTemp(w)
    BY <2>6, <2>a DEF CreateTemp, Change
  <2>7. CASE WriteTemp(w)
    BY <2>7, <2>a DEF WriteTemp
  <2>8. CASE SyncTemp(w)
    BY <2>8, <2>a DEF SyncTemp
  <2>9. CASE Cleanup(w)
    <3>1. /\ pc[w] = "cleanup" /\ pc' = [pc EXCEPT ![w] = "done"]
          /\ UNCHANGED <<path, backup, faults>>
      BY <2>9 DEF Cleanup, Change
    <3>2. "done" \in Pcs \ (Rollbacks \cup {"replace", "syncReplace"}) /\ "done" # "unbackup"
      OBVIOUS
    <3>3. pc[w] # "replace" /\ pc[w] # "dead"
      BY <3>1
    <3> HIDE DEF Pcs, Rollbacks, Running
    <3> QED BY <3>1, <3>2, <3>3, <2>a
  <2>10. CASE Link(w)
    BY <2>10, <2>a, <2>b DEF Link, Change
  <2>11. CASE Unstage(w)
    BY <2>11, <2>a DEF Unstage, Change
  <2>12. CASE SyncNew(w)
    BY <2>12, <2>a DEF SyncNew
  <2>13. CASE RollNew(w) \/ Unreplace(w) \/ Restore(w)
    BY <2>13 DEF RollNew, Unreplace, Restore, Covered
  <2>14. CASE Stat(w)
    BY <2>14, <2>a DEF Stat
  <2>15. CASE RenameNew(w)
    BY <2>15, <2>b DEF RenameNew, Change
  <2>16. CASE Backup(w)
    <3>1. CASE path = Absent
      BY <2>16, <3>1, <2>a DEF Backup, Change
    <3>2. CASE path # Absent
      <4>1. /\ path' = Absent /\ backup' = [backup EXCEPT ![w] = path]
            /\ pc' = [pc EXCEPT ![w] = "replace"] /\ UNCHANGED faults
        BY <2>16, <3>2 DEF Backup, Change
      <4>2. Keeper(w)'
        BY <4>1, <3>2 DEF Keeper
      <4>3. \A x \in Writers : pc'[x] = "replace" => backup'[x] # Absent
        BY <4>1, <3>2 DEF Covered
      <4>4. \A x \in Writers : pc'[x] \notin Rollbacks
        BY <4>1 DEF Covered
      <4> QED BY <4>1, <4>2, <4>3, <4>4 DEF Covered
    <3> QED BY <3>1, <3>2
  <2>17. CASE Replace(w)
    BY <2>17, <2>b DEF Replace, Change
  <2>18. CASE SyncReplace(w)
    BY <2>18, <2>a DEF SyncReplace
  <2>19. CASE Unbackup(w)
    <3>1. /\ UNCHANGED <<path, faults>> /\ backup' = [backup EXCEPT ![w] = Absent]
          /\ pc[w] = "unbackup" /\ pc' = [pc EXCEPT ![w] = "done"]
      BY <2>19 DEF Unbackup, Change
    <3>2. \A y \in Writers : Keeper(y) => Keeper(y)'
      BY <3>1 DEF Keeper
    <3> QED BY <3>1, <3>2 DEF Covered
  <2> QED
    BY <2>1, <2>2, <2>3, <2>4, <2>5, <2>6, <2>7, <2>8, <2>9, <2>10, <2>11, <2>12,
       <2>13, <2>14, <2>15, <2>16, <2>17, <2>18, <2>19
    DEF WriteFile
<1>3. CASE UNCHANGED vars
  BY <1>3 DEF vars, Covered, Keeper
<1> QED BY <1>1, <1>2, <1>3 DEF Next

LEMMA SurvivalStep ==
    ASSUME TypeOK, Complete, Covered, [Next]_vars, faults' = 0, OnDisk
    PROVE  OnDisk'
<1> USE DEF Succeed, Same, Rest, dirVars
<1>0. ~Fail /\ Dir \in disk /\ backup \in [Writers -> Names]
  BY DEF Fail, Complete, TypeOK
<1>1. \A d : Reachable(d)' = Reachable(d)
  BY DEF Reachable
<1>2. ASSUME disk' \subseteq disk PROVE OnDisk'
  BY <1>1, <1>2 DEF OnDisk
<1>3. ASSUME NEW p, NEW t, NEW b, Change(p, t, b),
             p # Absent \/ \E w \in Writers : b[w] # Absent
      PROVE  OnDisk'
  BY <1>1, <1>3 DEF OnDisk, Change, Reachable
<1>4. CASE PowerLoss
  BY <1>2, <1>4 DEF PowerLoss
<1>5. CASE \E w \in Writers : WriteFile(w) \/ Crash(w)
  <2> PICK w \in Writers : WriteFile(w) \/ Crash(w)
    BY <1>5
  <2> USE <1>0
  <2>0. path # Absent \/ \E x \in Writers : backup[x] # Absent
    BY DEF OnDisk, Reachable, Dir
  <2>1. CASE \/ Crash(w) \/ Begin(w) \/ CheckLstat(w) \/ ReadLstat(w) \/ ReadOpen(w)
             \/ WriteTemp(w) \/ SyncTemp(w) \/ Stat(w) \/ SyncNew(w) \/ SyncReplace(w)
    BY <2>1, <1>2
    DEF Crash, Begin, CheckLstat, ReadLstat, ReadOpen, WriteTemp, SyncTemp, Stat,
        SyncNew, SyncReplace
  <2>2. CASE CreateTemp(w) \/ Cleanup(w) \/ Unstage(w)
    <3>1. \A t : Change(path, t, backup) => OnDisk'
      BY <2>0, <1>3
    <3>2. disk' \subseteq disk \/ \E t : Change(path, t, backup)
      BY <2>2 DEF CreateTemp, Cleanup, Unstage
    <3> QED BY <3>1, <3>2, <1>2
  <2>3. CASE Link(w) \/ RenameNew(w) \/ Replace(w)
    <3>1. w # Absent
      BY InodeAssumption DEF Inodes
    <3> QED BY <2>3, <3>1, <1>2, <1>3 DEF Link, RenameNew, Replace
  <2>4. CASE Backup(w)
    <3>1. path # Absent => [backup EXCEPT ![w] = path][w] # Absent
      OBVIOUS
    <3> QED BY <2>4, <3>1, <1>2, <1>3 DEF Backup
  <2>5. CASE Unbackup(w)
    <3>1. pc[w] = "unbackup" /\ Change(path, temp, [backup EXCEPT ![w] = Absent])
      BY <2>5 DEF Unbackup
    <3>2. path = Absent => \E y \in Writers : [backup EXCEPT ![w] = Absent][y] # Absent
      BY <3>1 DEF Covered, Keeper
    <3>3. [backup EXCEPT ![w] = Absent] = [backup EXCEPT ![w] = Absent]
          /\ (path # Absent \/ \E y \in Writers : [backup EXCEPT ![w] = Absent][y] # Absent)
      BY <3>2
    <3>4. \A b : Change(path, temp, b) /\ (path # Absent \/ \E y \in Writers : b[y] # Absent) => OnDisk'
      BY <1>3
    <3> QED BY <3>1, <3>3, <3>4
  <2>6. CASE RollNew(w) \/ Unreplace(w) \/ Restore(w)
    BY <2>6 DEF RollNew, Unreplace, Restore, Covered, Rollbacks
  <2> QED BY <2>1, <2>2, <2>3, <2>4, <2>5, <2>6 DEF WriteFile
<1>6. CASE UNCHANGED vars
  BY <1>2, <1>6 DEF vars
<1> QED BY <1>4, <1>5, <1>6 DEF Next

----------------------------------------------------------------------------
(***************************************************************************)
(* What a step of call w leaves alone: everything another call owns.       *)
(***************************************************************************)
Local(w) ==
    /\ \A x \in Writers : x # w =>
          /\ pc'[x] = pc[x] /\ res'[x] = res[x] /\ seen'[x] = seen[x]
          /\ backup'[x] = backup[x] /\ (x \in temp' <=> x \in temp)
    /\ pc[w] \in Running \/ (pc[w] = "idle" /\ (turns => \A x \in Writers : pc[x] \notin Running))
    /\ UNCHANGED <<req, turns>>
    /\ faults' \in {faults, faults + 1}
    /\ pc'[w] # "idle"

LEMMA StepIsLocal ==
    ASSUME TypeOK, NEW w \in Writers, WriteFile(w) \/ Crash(w)
    PROVE  Local(w)
<1> USE DEF TypeOK, Local, Goto, Return, Finish, Succeed, Fail, Same, Rest, Change, dirVars
<1>1. CASE Crash(w)
  BY <1>1 DEF Crash
<1>2. CASE Begin(w)
  BY <1>2 DEF Begin
<1> USE DEF Running
<1>3. CASE CheckLstat(w) \/ ReadLstat(w) \/ ReadOpen(w)
  BY <1>3 DEF CheckLstat, ReadLstat, ReadOpen, NotFound, Differs
<1>4. CASE CreateTemp(w) \/ WriteTemp(w) \/ SyncTemp(w) \/ Cleanup(w)
  BY <1>4 DEF CreateTemp, WriteTemp, SyncTemp, Cleanup
<1>5. CASE Link(w) \/ Unstage(w) \/ SyncNew(w) \/ RollNew(w)
  BY <1>5 DEF Link, Unstage, SyncNew, RollNew
<1>6. CASE Stat(w) \/ RenameNew(w) \/ Backup(w)
  BY <1>6 DEF Stat, RenameNew, Backup
<1>7. CASE Replace(w) \/ SyncReplace(w) \/ Unbackup(w)
  BY <1>7 DEF Replace, SyncReplace, Unbackup
<1>8. CASE Unreplace(w) \/ Restore(w)
  BY <1>8 DEF Unreplace, Restore
<1> QED BY <1>1, <1>2, <1>3, <1>4, <1>5, <1>6, <1>7, <1>8 DEF WriteFile

\* Callers that take turns run one at a time.
Alone == turns => \A x, y \in Writers : pc[x] \in Running /\ pc[y] \in Running => x = y

LEMMA AloneCorrect == Spec => []Alone
<1>1. Init => Alone
  BY DEF Init, Alone, Running
<1>2. TypeOK /\ Alone /\ [Next]_vars => Alone'
  <2> SUFFICES ASSUME TypeOK, Alone, [Next]_vars PROVE Alone'
    OBVIOUS
  <2>1. CASE PowerLoss
    BY <2>1 DEF PowerLoss, Alone, Running, TypeOK
  <2>2. ASSUME NEW w \in Writers, WriteFile(w) \/ Crash(w) PROVE Alone'
    <3>1. Local(w)
      BY <2>2, StepIsLocal
    <3> HIDE DEF Running
    <3> QED BY <3>1 DEF Local, Alone
  <2>3. CASE UNCHANGED vars
    BY <2>3 DEF vars, Alone
  <2> QED BY <2>1, <2>2, <2>3 DEF Next
<1> QED BY <1>1, <1>2, TypeCorrect, PTL DEF Spec

\* Where the versions are while the one running call publishes: what the call
\* took from the path is at its backup, and until a new link is synced the
\* disk may still hold the directory without it.
Placed(w) ==
    /\ pc[w] \in {"unstage", "syncNew", "rollNew"} =>
          path = w /\ \E d \in disk : d.path = Absent /\ d.backup = backup
    /\ pc[w] \in {"replace", "restore"} => path = Absent /\ backup[w] # Absent
    /\ pc[w] \in {"syncReplace", "unbackup", "unreplace"} => path = w /\ backup[w] # Absent
    /\ pc[w] = "unbackup" => \A d \in disk : d.path = w
    /\ pc[w] = "renameNew" => path = Absent
    /\ pc[w] = "backup" => path # Absent
InTurn == turns => \A w \in Writers : Placed(w)

LEMMA InTurnStep ==
    ASSUME TypeOK, Dir \in disk, Alone, InTurn, [Next]_vars
    PROVE  InTurn'
<1>1. CASE PowerLoss
  BY <1>1 DEF PowerLoss, InTurn, Placed, Running, TypeOK
<1>2. ASSUME NEW w \in Writers, WriteFile(w) \/ Crash(w) PROVE InTurn'
  <2> SUFFICES ASSUME turns, turns' PROVE \A x \in Writers : Placed(x)'
    BY <1>2, StepIsLocal DEF InTurn, Local
  <2>0. Local(w) /\ Placed(w) /\ w # Absent /\ backup \in [Writers -> Names]
        /\ pc \in [Writers -> Pcs] /\ Absent # Old
    BY <1>2, StepIsLocal, InodeAssumption DEF InTurn, TypeOK, Inodes
  <2>a. ASSUME NEW x \in Writers, x # w PROVE Placed(x)'
    <3>1. pc'[x] \notin Running
      <4> HIDE DEF Running
      <4> QED BY <2>0, <2>a DEF Alone, Local
    <3> QED BY <3>1 DEF Placed, Running
  <2>b. Placed(w)'
    <3> USE <2>0 DEF Placed, Goto, Return, Finish, Same, Rest, Change, dirVars, Dir
    <3>1. CASE Crash(w)
      BY <3>1 DEF Crash
    <3>2. CASE Begin(w)
      BY <3>2 DEF Begin
    <3>3. CASE CheckLstat(w) \/ ReadLstat(w) \/ ReadOpen(w)
      BY <3>3 DEF CheckLstat, ReadLstat, ReadOpen, NotFound, Differs
    <3>4. CASE CreateTemp(w) \/ WriteTemp(w) \/ SyncTemp(w) \/ Cleanup(w)
      BY <3>4 DEF CreateTemp, WriteTemp, SyncTemp, Cleanup
    <3>5. CASE Link(w)
      BY <3>5 DEF Link
    <3>6. CASE Unstage(w)
      BY <3>6 DEF Unstage
    <3>7. CASE SyncNew(w) \/ RollNew(w) \/ Stat(w)
      BY <3>7 DEF SyncNew, RollNew, Stat
    <3>8. CASE RenameNew(w)
      BY <3>8 DEF RenameNew
    <3>9. CASE Backup(w)
      BY <3>9 DEF Backup
    <3>10. CASE Replace(w)
      BY <3>10 DEF Replace
    <3>11. CASE SyncReplace(w)
      BY <3>11 DEF SyncReplace
    <3>12. CASE Unbackup(w) \/ Unreplace(w) \/ Restore(w)
      BY <3>12 DEF Unbackup, Unreplace, Restore
    <3> QED
      BY <1>2, <3>1, <3>2, <3>3, <3>4, <3>5, <3>6, <3>7, <3>8, <3>9, <3>10, <3>11, <3>12
      DEF WriteFile
  <2> QED BY <2>a, <2>b
<1>3. CASE UNCHANGED vars
  BY <1>3 DEF vars, dirVars, InTurn, Placed
<1> QED BY <1>1, <1>2, <1>3 DEF Next

LEMMA InTurnCorrect == Spec => []InTurn
<1>1. Init => InTurn
  BY DEF Init, InTurn, Placed
<1>2. Complete => Dir \in disk
  BY DEF Complete
<1> QED BY <1>1, <1>2, InTurnStep, TypeCorrect, CompleteCorrect, AloneCorrect, PTL DEF Spec

\* While callers take turns, success is reported only with the new content at
\* the path in every directory that a power loss may leave behind.
THEOREM DurableInTurns == Spec => TurnsAreDurable
<1>1. TypeOK /\ InTurn /\ [Next]_vars => [turns => ReturnsDurable]_vars
  <2> SUFFICES ASSUME TypeOK, InTurn, Next, turns,
                      NEW x \in Writers, res'[x] = "ok", res[x] # "ok"
               PROVE  \A d \in disk' : d.path = x
    BY DEF ReturnsDurable
  <2>1. CASE PowerLoss
    BY <2>1 DEF PowerLoss
  <2>2. ASSUME NEW w \in Writers, WriteFile(w) \/ Crash(w) PROVE \A d \in disk' : d.path = x
    <3>1. x = w
      BY <2>2, StepIsLocal DEF Local
    <3>2. CASE SyncNew(w)
      BY <3>1, <3>2 DEF SyncNew, InTurn, Placed, dirVars, Dir, Goto
    <3>3. CASE Unbackup(w)
      BY <3>1, <3>3 DEF Unbackup, InTurn, Placed, Change, Goto
    <3>4. CASE ~SyncNew(w) /\ ~Unbackup(w)
      <4> USE <3>4, <3>1, <2>2 DEF TypeOK, Goto, Return, Finish
      <4>1. CASE Crash(w) \/ Begin(w) \/ CheckLstat(w) \/ ReadLstat(w) \/ ReadOpen(w)
        BY <4>1 DEF Crash, Begin, CheckLstat, ReadLstat, ReadOpen, NotFound, Differs
      <4>2. CASE CreateTemp(w) \/ WriteTemp(w) \/ SyncTemp(w) \/ Cleanup(w)
        BY <4>2 DEF CreateTemp, WriteTemp, SyncTemp, Cleanup
      <4>3. CASE Link(w) \/ Unstage(w) \/ RollNew(w) \/ Stat(w) \/ RenameNew(w)
        BY <4>3 DEF Link, Unstage, RollNew, Stat, RenameNew
      <4>4. CASE Backup(w) \/ Replace(w) \/ SyncReplace(w) \/ Unreplace(w) \/ Restore(w)
        BY <4>4 DEF Backup, Replace, SyncReplace, Unreplace, Restore
      <4> QED BY <4>1, <4>2, <4>3, <4>4 DEF WriteFile
    <3> QED BY <3>2, <3>3, <3>4
  <2> QED BY <2>1, <2>2 DEF Next
<1> QED BY <1>1, TypeCorrect, InTurnCorrect, PTL DEF Spec, TurnsAreDurable

----------------------------------------------------------------------------
(***************************************************************************)
(* The artifact survives: Covered is invariant until a system call fails,  *)
(* and while callers take turns Placed tells where the version is.         *)
(***************************************************************************)
LEMMA SurvivalInTurns ==
    ASSUME TypeOK, Dir \in disk, InTurn, turns, [Next]_vars, OnDisk
    PROVE  OnDisk'
<1> USE DEF Succeed, Same, Rest, dirVars
<1>0. Dir \in disk /\ backup \in [Writers -> Names]
  BY DEF TypeOK
<1>1. \A d : Reachable(d)' = Reachable(d)
  BY DEF Reachable
<1>2. ASSUME disk' \subseteq disk PROVE OnDisk'
  BY <1>1, <1>2 DEF OnDisk
<1>3. ASSUME NEW p, NEW t, NEW b, Change(p, t, b),
             p # Absent \/ \E w \in Writers : b[w] # Absent
      PROVE  OnDisk'
  BY <1>1, <1>3 DEF OnDisk, Change, Reachable
<1>4. CASE PowerLoss
  BY <1>2, <1>4 DEF PowerLoss
<1>5. ASSUME NEW w \in Writers, WriteFile(w) \/ Crash(w) PROVE OnDisk'
  <2>0. path # Absent \/ \E x \in Writers : backup[x] # Absent
    BY <1>0 DEF OnDisk, Reachable, Dir
  <2>1. CASE \/ Crash(w) \/ Begin(w) \/ CheckLstat(w) \/ ReadLstat(w) \/ ReadOpen(w)
             \/ WriteTemp(w) \/ SyncTemp(w) \/ Stat(w) \/ SyncNew(w) \/ SyncReplace(w)
    BY <1>0, <2>1, <1>2
    DEF Crash, Begin, CheckLstat, ReadLstat, ReadOpen, WriteTemp, SyncTemp, Stat,
        SyncNew, SyncReplace
  <2>2. CASE CreateTemp(w) \/ Cleanup(w) \/ Unstage(w)
    <3>1. \A t : Change(path, t, backup) => OnDisk'
      BY <2>0, <1>3
    <3>2. disk' \subseteq disk \/ \E t : Change(path, t, backup)
      BY <2>2 DEF CreateTemp, Cleanup, Unstage
    <3> QED BY <3>1, <3>2, <1>2
  <2>3. CASE Link(w) \/ RenameNew(w) \/ Replace(w)
    <3>1. w # Absent
      BY InodeAssumption DEF Inodes
    <3> QED BY <2>3, <3>1, <1>2, <1>3 DEF Link, RenameNew, Replace
  <2>4. CASE Backup(w)
    <3>1. path # Absent => [backup EXCEPT ![w] = path][w] # Absent
      BY <1>0
    <3> QED BY <2>4, <3>1, <1>2, <1>3 DEF Backup
  \* The version that takes the place of the backup is still at the path.
  <2>5. CASE Unbackup(w)
    <3>1. path # Absent
      BY <2>5, InodeAssumption DEF Unbackup, InTurn, Placed, Inodes
    <3> DEFINE b == [backup EXCEPT ![w] = Absent]
    <3>2. Change(path, temp, b) => OnDisk'
      <4> HIDE DEF b
      <4> QED BY <3>1, <1>3
    <3> QED BY <2>5, <3>2, <1>2 DEF Unbackup
  \* The link is taken back to a directory that the disk still held.
  <2>6. CASE RollNew(w)
    <3>1. pc[w] = "rollNew" /\ (Change(Absent, temp, backup) \/ disk' = disk)
      BY <2>6 DEF RollNew
    <3>2. PICK d \in disk : d.path = Absent /\ d.backup = backup
      BY <3>1 DEF InTurn, Placed
    <3>3. \E x \in Writers : backup[x] # Absent
      BY <3>2 DEF OnDisk, Reachable
    <3> QED BY <3>1, <3>3, <1>2, <1>3
  <2>7. CASE Unreplace(w)
    <3>1. pc[w] = "unreplace" /\ (Change(Absent, temp, backup) \/ disk' = disk)
      BY <2>7 DEF Unreplace
    <3>2. backup[w] # Absent
      BY <3>1 DEF InTurn, Placed
    <3> QED BY <3>1, <3>2, <1>2, <1>3
  <2>8. CASE Restore(w)
    <3> DEFINE b == [backup EXCEPT ![w] = Absent]
    <3>1. pc[w] = "restore" /\ (Change(backup[w], temp, b) \/ disk' = disk)
      BY <2>8 DEF Restore
    <3>2. backup[w] # Absent
      BY <3>1 DEF InTurn, Placed
    <3>3. Change(backup[w], temp, b) => OnDisk'
      <4> HIDE DEF b
      <4> QED BY <3>2, <1>3
    <3> QED BY <3>1, <3>3, <1>2
  <2> QED BY <1>5, <2>1, <2>2, <2>3, <2>4, <2>5, <2>6, <2>7, <2>8 DEF WriteFile
<1>6. CASE UNCHANGED vars
  BY <1>2, <1>6 DEF vars
<1> QED BY <1>4, <1>5, <1>6 DEF Next

\* Until a system call fails no interleaving of any number of calls, and while
\* callers take turns no number of failed system calls, with any crashes and
\* power losses, leaves the artifact without a version to recover.
THEOREM Survival == Spec => ArtifactSurvives
<1> DEFINE CoveredYet == faults = 0 => Covered
<1>1. Init => CoveredYet
  BY DEF Init, Covered, Rollbacks
<1>2. TypeOK /\ [Next]_vars /\ faults' = 0 => faults = 0
  <2> SUFFICES ASSUME TypeOK, [Next]_vars, faults' = 0 PROVE faults = 0
    OBVIOUS
  <2>1. CASE PowerLoss
    BY <2>1 DEF PowerLoss
  <2>2. ASSUME NEW w \in Writers, WriteFile(w) \/ Crash(w) PROVE faults = 0
    BY <2>2, StepIsLocal DEF Local, TypeOK
  <2> QED BY <2>1, <2>2 DEF Next, vars
<1>3. TypeOK /\ CoveredYet /\ [Next]_vars => CoveredYet'
  BY <1>2, CoveredStep
<1>4. TypeOK /\ Complete /\ InTurn /\ CoveredYet /\ [Next]_vars
        => [(turns \/ faults' = 0) /\ OnDisk => OnDisk']_vars
  <2> SUFFICES ASSUME TypeOK, Complete, InTurn, CoveredYet, [Next]_vars,
                      turns \/ faults' = 0, OnDisk
               PROVE  OnDisk'
    OBVIOUS
  <2>1. CASE turns
    BY <2>1, SurvivalInTurns DEF Complete
  <2>2. CASE faults' = 0
    BY <2>2, <1>2, SurvivalStep
  <2> QED BY <2>1, <2>2
<1> QED
  BY <1>1, <1>3, <1>4, TypeCorrect, CompleteCorrect, InTurnCorrect, PTL
  DEF Spec, ArtifactSurvives

----------------------------------------------------------------------------
(***************************************************************************)
(* Nothing is left behind.  Without a fault or a crash no call rolls back, *)
(* and a stage or a backup has its name only at the steps that use it.     *)
(***************************************************************************)
TidyCall(w) ==
    /\ pc[w] \notin Rollbacks \cup {"dead"}
    /\ pc[w] \in {"idle", "done", "syncNew", "syncReplace", "unbackup"} => w \notin temp
    /\ pc[w] \notin {"replace", "syncReplace", "unbackup"} => backup[w] = Absent
Tidy == faults = 0 /\ crashes = 0 => \A w \in Writers : TidyCall(w)

LEMMA TidyStep == TypeOK /\ Tidy /\ [Next]_vars => Tidy'
<1> SUFFICES ASSUME TypeOK, Tidy, [Next]_vars, faults' = 0, crashes' = 0
             PROVE  \A x \in Writers : TidyCall(x)'
  BY DEF Tidy
<1>1. CASE PowerLoss
  BY <1>1 DEF PowerLoss, TypeOK
<1>2. ASSUME NEW w \in Writers, WriteFile(w) \/ Crash(w) PROVE \A x \in Writers : TidyCall(x)'
  <2>1. Local(w) /\ UNCHANGED <<faults, crashes>> /\ ~Fail /\ ~Crash(w)
    <3>1. ~Fail /\ ~Crash(w)
      BY DEF Fail, Crash, TypeOK
    <3>2. faults' = faults
      BY <1>2, StepIsLocal DEF Local, TypeOK
    <3>3. crashes' = crashes
      BY <1>2, <3>1 DEF WriteFile, Begin, CheckLstat, ReadLstat, ReadOpen, CreateTemp, WriteTemp,
         SyncTemp, Cleanup, Link, Unstage, SyncNew, RollNew, Stat, RenameNew, Backup, Replace,
         SyncReplace, Unbackup, Unreplace, Restore, Rest
    <3> QED BY <1>2, <3>1, <3>2, <3>3, StepIsLocal
  <2>2. TidyCall(w) /\ WriteFile(w)
    BY <1>2, <2>1 DEF Tidy
  <2>a. ASSUME NEW x \in Writers, x # w PROVE TidyCall(x)'
    BY <2>1, <2>a DEF Tidy, TidyCall, Local
  <2>b. TidyCall(w)'
    <3> USE <2>1, <2>2 DEF TidyCall, Rollbacks, TypeOK, Goto, Return, Finish, Same, Rest, Change, dirVars
    <3>1. CASE Begin(w) \/ CheckLstat(w) \/ ReadLstat(w) \/ ReadOpen(w)
      BY <3>1 DEF Begin, CheckLstat, ReadLstat, ReadOpen, NotFound, Differs, Relinking
    <3>2. CASE CreateTemp(w) \/ WriteTemp(w) \/ SyncTemp(w) \/ Cleanup(w)
      BY <3>2 DEF CreateTemp, WriteTemp, SyncTemp, Cleanup
    <3>3. CASE Link(w) \/ Unstage(w) \/ SyncNew(w) \/ RollNew(w)
      BY <3>3 DEF Link, Unstage, SyncNew, RollNew
    <3>4. CASE Stat(w) \/ RenameNew(w)
      BY <3>4 DEF Stat, RenameNew
    <3>5. CASE Backup(w)
      BY <3>5 DEF Backup
    <3>6. CASE Replace(w) \/ SyncReplace(w)
      BY <3>6 DEF Replace, SyncReplace
    <3>7. CASE Unbackup(w)
      BY <3>7 DEF Unbackup
    <3>8. CASE Unreplace(w) \/ Restore(w)
      BY <3>8 DEF Unreplace, Restore
    <3> QED BY <3>1, <3>2, <3>3, <3>4, <3>5, <3>6, <3>7, <3>8 DEF WriteFile
  <2> QED BY <2>a, <2>b
<1>3. CASE UNCHANGED vars
  BY <1>3 DEF vars, dirVars, Tidy, TidyCall
<1> QED BY <1>1, <1>2, <1>3 DEF Next

\* A call that returned without a fault or a crash leaves neither a stage nor
\* a backup beside the artifact, however many calls overlap with it.
THEOREM LitterCorrect == Spec => []NoLitter
<1>1. Init => Tidy
  BY DEF Init, Tidy, TidyCall, Rollbacks
<1>2. Tidy => NoLitter
  BY DEF Tidy, TidyCall, NoLitter
<1> QED BY <1>1, <1>2, TidyStep, TypeCorrect, PTL DEF Spec

----------------------------------------------------------------------------
(***************************************************************************)
(* The path tells who succeeded.  While no system call fails and nobody    *)
(* died, a file at the path belongs to a call that is about to succeed or  *)
(* has; the path is vacant only between the two renames of a Force call,   *)
(* or when nothing was published; and when no call is between its change   *)
(* of the directory and the sync, the disk holds what the path shows.      *)
(***************************************************************************)
Changing == {"unstage", "syncNew", "replace", "syncReplace"}
Publishing == Changing \cup {"unbackup"}

Results ==
    /\ \A w \in Writers : pc[w] \in Running \ {"cleanup"} => res[w] = "none"
    /\ \A w \in Writers : pc[w] = "idle" => res[w] = "none"

Telling ==
    /\ \A w \in Writers : pc[w] \notin Rollbacks
    /\ \A w \in Writers : path = w => pc[w] \in Publishing \ {"replace"} \/ res[w] = "ok"
    /\ path = Old => \A x \in Writers : pc[x] \notin Publishing /\ res[x] # "ok"
    /\ path = Absent =>
          \/ \E y \in Writers : pc[y] = "replace"
          \/ \A x \in Writers : pc[x] \notin Publishing /\ res[x] # "ok"
    /\ (\A x \in Writers : pc[x] \notin Changing) => \A d \in disk : d.path = path
Reported == faults = 0 /\ (\A x \in Writers : pc[x] # "dead") => Telling

LEMMA ResultsStep == TypeOK /\ Results /\ [Next]_vars => Results'
<1> SUFFICES ASSUME TypeOK, Results, [Next]_vars PROVE Results'
  OBVIOUS
<1>1. CASE PowerLoss
  BY <1>1 DEF PowerLoss, Results, TypeOK, Running
<1>2. ASSUME NEW w \in Writers, WriteFile(w) \/ Crash(w) PROVE Results'
  <2>0. Local(w)
    BY <1>2, StepIsLocal
  <2>1. pc'[w] \in Running \ {"cleanup"} => res'[w] = "none"
    <3> USE <2>0 DEF Results, TypeOK, Goto, Return, Finish, Running
    <3>1. CASE Crash(w) \/ Begin(w) \/ CheckLstat(w) \/ ReadLstat(w) \/ ReadOpen(w)
      BY <3>1 DEF Crash, Begin, CheckLstat, ReadLstat, ReadOpen, NotFound, Differs
    <3>2. CASE CreateTemp(w) \/ WriteTemp(w) \/ SyncTemp(w) \/ Cleanup(w)
      BY <3>2 DEF CreateTemp, WriteTemp, SyncTemp, Cleanup
    <3>3. CASE Link(w) \/ Unstage(w) \/ SyncNew(w) \/ RollNew(w) \/ Stat(w) \/ RenameNew(w)
      BY <3>3 DEF Link, Unstage, SyncNew, RollNew, Stat, RenameNew
    <3>4. CASE Backup(w) \/ Replace(w) \/ SyncReplace(w) \/ Unbackup(w) \/ Unreplace(w) \/ Restore(w)
      BY <3>4 DEF Backup, Replace, SyncReplace, Unbackup, Unreplace, Restore
    <3> QED BY <1>2, <3>1, <3>2, <3>3, <3>4 DEF WriteFile
  <2> HIDE DEF Running
  <2> QED BY <2>0, <2>1 DEF Local, Results
<1>3. CASE UNCHANGED vars
  BY <1>3 DEF vars, Results
<1> QED BY <1>1, <1>2, <1>3 DEF Next

LEMMA ReportedStep ==
    ASSUME TypeOK, Dir \in disk, Results, Reported, [Next]_vars
    PROVE  Reported'
<1> SUFFICES ASSUME faults' = 0, \A x \in Writers : pc'[x] # "dead" PROVE Telling'
  BY DEF Reported
<1> USE DEF Changing, Publishing
<1>1. CASE PowerLoss
  <2>1. \A x \in Writers : pc'[x] = pc[x] /\ pc[x] \notin Running
    BY <1>1 DEF PowerLoss, TypeOK
  <2>2. Telling
    BY <1>1, <2>1 DEF PowerLoss, Reported
  <2>3. PICK d \in disk : path' = d.path /\ disk' = {d}
    BY <1>1 DEF PowerLoss
  <2>4. d.path = path
    BY <2>1, <2>2 DEF Telling, Running
  <2> QED BY <1>1, <2>1, <2>2, <2>3, <2>4 DEF PowerLoss, Telling
<1>2. ASSUME NEW w \in Writers, WriteFile(w) \/ Crash(w) PROVE Telling'
  <2>1. Local(w) /\ UNCHANGED faults /\ ~Fail /\ ~Crash(w) /\ WriteFile(w)
    <3>1. ~Fail
      BY DEF Fail, TypeOK
    <3>2. ~Crash(w)
      BY DEF Crash, TypeOK
    <3> QED BY <1>2, <3>1, <3>2, StepIsLocal DEF Local, TypeOK
  <2>2. Telling
    BY <2>1 DEF Local, Reported, Running
  <2>3. w \in Writers /\ Absent # Old /\ \A x \in Writers : x \notin {Absent, Old}
    BY InodeAssumption DEF Inodes
  <2>4. pc[w] \in Running \ {"cleanup"} => res[w] = "none"
    BY DEF Results
  <2> USE <2>1, <2>2, <2>3 DEF Local, Telling, Rollbacks
  \* Steps that leave the path and the disk alone, outside of publishing.
  <2>a. ASSUME path' = path, \A d \in disk' : d \in disk \/ d.path = path,
               pc[w] \notin Publishing, pc'[w] \notin Publishing \cup Rollbacks,
               res'[w] = "ok" => res[w] = "ok", res[w] = "ok" => res'[w] = "ok"
        PROVE  Telling'
    BY <2>a
  \* Steps that put the call's own file at the path.
  <2>b. ASSUME path' = w, pc'[w] \in Changing \ {"replace"}
        PROVE  Telling'
    <3>1. \A x \in Writers : path' = x => x = w
      BY <2>b
    <3> QED BY <2>b, <3>1
  \* Steps that sync the directory.
  <2>c. ASSUME path' = path, disk' = {Dir}, pc[w] \in Changing \ {"replace"},
               pc'[w] = "unbackup" \/ res'[w] = "ok", pc'[w] \notin Rollbacks
        PROVE  Telling'
    BY <2>c DEF Dir
  <2> USE <2>4 DEF TypeOK, Goto, Return, Finish, Same, Rest, Change, dirVars, Running
  <2>11. CASE Begin(w) \/ CheckLstat(w) \/ ReadLstat(w) \/ ReadOpen(w)
    BY <2>11, <2>a DEF Begin, CheckLstat, ReadLstat, ReadOpen, NotFound, Differs
  <2>12. CASE CreateTemp(w) \/ WriteTemp(w) \/ SyncTemp(w) \/ Cleanup(w) \/ Stat(w)
    BY <2>12, <2>a DEF CreateTemp, WriteTemp, SyncTemp, Cleanup, Stat
  <2>13. CASE Link(w)
    BY <2>13, <2>a, <2>b DEF Link
  <2>14. CASE Unstage(w)
    BY <2>14 DEF Unstage
  <2>15. CASE SyncNew(w)
    BY <2>15, <2>c DEF SyncNew
  <2>16. CASE RollNew(w) \/ Unreplace(w) \/ Restore(w)
    BY <2>16 DEF RollNew, Unreplace, Restore
  <2>17. CASE RenameNew(w)
    BY <2>17, <2>b DEF RenameNew
  <2>18. CASE Backup(w)
    <3>1. CASE path = Absent
      BY <2>18, <2>a, <3>1 DEF Backup
    <3>2. CASE path # Absent
      <4>1. /\ path' = Absent /\ pc' = [pc EXCEPT ![w] = "replace"]
            /\ pc[w] = "backup" /\ UNCHANGED res
        BY <2>18, <3>2 DEF Backup
      <4> QED BY <4>1
    <3> QED BY <3>1, <3>2
  <2>19. CASE Replace(w)
    BY <2>19, <2>b DEF Replace
  <2>20. CASE SyncReplace(w)
    BY <2>20, <2>c DEF SyncReplace
  <2>21. CASE Unbackup(w)
    BY <2>21 DEF Unbackup
  <2> QED
    BY <2>11, <2>12, <2>13, <2>14, <2>15, <2>16, <2>17, <2>18, <2>19, <2>20, <2>21 DEF WriteFile
<1>3. CASE UNCHANGED vars
  BY <1>3 DEF vars, dirVars, Reported, Telling
<1> QED BY <1>1, <1>2, <1>3 DEF Next

\* When every call has returned and no system call failed, the path holds the
\* content of a call that succeeded, or what was there before if none did: no
\* success is lost, whatever overlapped and whenever the power failed between.
THEOREM ResultsCorrect == Spec => []LastWriteIsReported
<1>1. Init => Results /\ Reported
  <2> SUFFICES ASSUME Init PROVE Results /\ Telling
    BY DEF Reported
  <2>1. \A w \in Writers : pc[w] = "idle" /\ res[w] = "none" /\ path # w
    BY InodeAssumption DEF Init, Inodes
  <2>2. \A d \in disk : d.path = path
    BY DEF Init, Dir
  <2> QED BY <2>1, <2>2 DEF Results, Telling, Rollbacks, Changing, Publishing, Running
<1>2. TypeOK /\ Reported => LastWriteIsReported
  BY DEF TypeOK, Names, Inodes, Reported, Telling, LastWriteIsReported, Changing, Publishing
<1>3. Complete => Dir \in disk
  BY DEF Complete
<1> QED
  BY <1>1, <1>2, <1>3, ResultsStep, ReportedStep, TypeCorrect, CompleteCorrect, PTL DEF Spec

----------------------------------------------------------------------------
(***************************************************************************)
(* Callers who take turns see ArtifactRegister.  Only a Force call gets to *)
(* the replacement, and a call that reads has found a file; up to one      *)
(* fault and no crash a call that rolls back meets no second fault, so no  *)
(* backup outlives the call that made it.                                  *)
(***************************************************************************)
Replacing == {"replace", "restore", "syncReplace", "unbackup", "unreplace"}

Asked == \A w \in Writers :
    /\ pc[w] = "read" => seen[w] # Absent
    /\ pc[w] \in Replacing \cup {"stat", "renameNew", "backup"} => req[w].force

SettledCall(w) ==
    /\ pc[w] # "dead"
    /\ pc[w] \in Rollbacks => faults = 1
    /\ pc[w] \notin Replacing => backup[w] = Absent
Settled == turns /\ faults <= 1 /\ crashes = 0 => \A w \in Writers : SettledCall(w)

LEMMA AskedStep == TypeOK /\ Asked /\ [Next]_vars => Asked'
<1> SUFFICES ASSUME TypeOK, Asked, [Next]_vars PROVE Asked'
  OBVIOUS
<1> USE DEF Replacing
<1>1. CASE PowerLoss
  BY <1>1 DEF PowerLoss, Asked, TypeOK, Running
<1>2. ASSUME NEW w \in Writers, WriteFile(w) \/ Crash(w) PROVE Asked'
  <2>0. Local(w)
    BY <1>2, StepIsLocal
  <2>1. /\ pc'[w] = "read" => seen'[w] # Absent
        /\ pc'[w] \in Replacing \cup {"stat", "renameNew", "backup"} => req[w].force
    <3> USE DEF Asked, TypeOK, Goto, Return, Finish, Rest
    <3>1. CASE Crash(w) \/ Begin(w) \/ CheckLstat(w) \/ ReadLstat(w) \/ ReadOpen(w)
      BY <3>1 DEF Crash, Begin, CheckLstat, ReadLstat, ReadOpen, NotFound, Differs
    <3>2. CASE CreateTemp(w) \/ WriteTemp(w) \/ SyncTemp(w) \/ Cleanup(w)
      BY <3>2 DEF CreateTemp, WriteTemp, SyncTemp, Cleanup
    <3>3. CASE Link(w) \/ Unstage(w) \/ SyncNew(w) \/ RollNew(w) \/ Stat(w) \/ RenameNew(w)
      BY <3>3 DEF Link, Unstage, SyncNew, RollNew, Stat, RenameNew
    <3>4. CASE Backup(w) \/ Replace(w) \/ SyncReplace(w) \/ Unbackup(w) \/ Unreplace(w) \/ Restore(w)
      BY <3>4 DEF Backup, Replace, SyncReplace, Unbackup, Unreplace, Restore
    <3> QED BY <1>2, <3>1, <3>2, <3>3, <3>4 DEF WriteFile
  <2> QED BY <2>0, <2>1 DEF Local, Asked
<1>3. CASE UNCHANGED vars
  BY <1>3 DEF vars, Asked
<1> QED BY <1>1, <1>2, <1>3 DEF Next

LEMMA CountsGrow ==
    ASSUME TypeOK, [Next]_vars
    PROVE  /\ faults' >= faults /\ crashes' >= crashes /\ turns' = turns
           /\ crashes' = 0 => ~PowerLoss /\ \A w \in Writers : ~Crash(w)
<1>0. faults \in Nat /\ crashes \in Nat
  BY DEF TypeOK
<1>1. CASE PowerLoss
  BY <1>0, <1>1 DEF PowerLoss
<1>2. ASSUME NEW w \in Writers, WriteFile(w)
      PROVE  faults' >= faults /\ crashes' = crashes /\ turns' = turns
  <2>1. crashes' = crashes
    BY <1>2 DEF WriteFile, Begin, CheckLstat, ReadLstat, ReadOpen, CreateTemp, WriteTemp,
       SyncTemp, Cleanup, Link, Unstage, SyncNew, RollNew, Stat, RenameNew, Backup, Replace,
       SyncReplace, Unbackup, Unreplace, Restore, Rest
  <2> QED BY <1>0, <1>2, <2>1, StepIsLocal DEF Local
<1>3. ASSUME NEW w \in Writers, Crash(w)
      PROVE  faults' >= faults /\ crashes' >= crashes /\ turns' = turns
  BY <1>0, <1>3 DEF Crash
<1>4. crashes' = 0 => ~PowerLoss /\ \A w \in Writers : ~Crash(w)
  BY <1>0 DEF PowerLoss, Crash
<1>5. CASE UNCHANGED vars
  BY <1>0, <1>4, <1>5 DEF vars
<1> QED BY <1>0, <1>1, <1>2, <1>3, <1>4, <1>5 DEF Next

LEMMA SettledStep == TypeOK /\ TypeOK' /\ InTurn /\ Settled /\ [Next]_vars => Settled'
<1> SUFFICES ASSUME TypeOK, TypeOK', InTurn, Settled, [Next]_vars, turns', faults' <= 1, crashes' = 0
             PROVE  \A x \in Writers : SettledCall(x)'
  BY DEF Settled
<1>0. /\ turns /\ faults <= 1 /\ crashes = 0 /\ ~PowerLoss
      /\ faults \in Nat /\ faults' \in Nat /\ \A w \in Writers : ~Crash(w) /\ SettledCall(w)
  <2>1. faults \in Nat /\ faults' \in Nat /\ crashes \in Nat /\ crashes' \in Nat
    BY DEF TypeOK
  <2>2. faults' >= faults /\ crashes' >= crashes /\ turns' = turns
        /\ ~PowerLoss /\ \A w \in Writers : ~Crash(w)
    BY CountsGrow
  <2>3. turns
    BY <2>2
  <2>4. faults <= 1 /\ crashes = 0
    BY <2>1, <2>2
  <2> QED BY <2>1, <2>2, <2>3, <2>4 DEF Settled
<1>1. ASSUME NEW w \in Writers, WriteFile(w) PROVE \A x \in Writers : SettledCall(x)'
  <2>0. Local(w) /\ SettledCall(w) /\ pc \in [Writers -> Pcs] /\ backup \in [Writers -> Names]
    BY <1>0, <1>1, StepIsLocal DEF TypeOK
  <2>a. ASSUME NEW x \in Writers, x # w PROVE SettledCall(x)'
    BY <1>0, <2>0, <2>a DEF Local, SettledCall
  <2>b. SettledCall(w)'
    <3> USE <1>0, <2>0 DEF SettledCall, Rollbacks, Replacing, Goto, Return, Finish, Same, Rest,
            Change, dirVars, Succeed, Fail
    <3>1. CASE Begin(w) \/ CheckLstat(w) \/ ReadLstat(w) \/ ReadOpen(w)
      BY <3>1 DEF Begin, CheckLstat, ReadLstat, ReadOpen, NotFound, Differs
    <3>2. CASE CreateTemp(w) \/ WriteTemp(w) \/ SyncTemp(w) \/ Cleanup(w)
      BY <3>2 DEF CreateTemp, WriteTemp, SyncTemp, Cleanup
    <3>3. CASE Link(w) \/ Unstage(w) \/ SyncNew(w) \/ RollNew(w)
      BY <3>3 DEF Link, Unstage, SyncNew, RollNew
    <3>4. CASE Stat(w) \/ RenameNew(w) \/ Backup(w)
      BY <3>4 DEF Stat, RenameNew, Backup
    <3>5. CASE Replace(w) \/ SyncReplace(w) \/ Unbackup(w)
      BY <3>5 DEF Replace, SyncReplace, Unbackup
    <3>6. CASE Unreplace(w)
      BY <3>6, InodeAssumption DEF Unreplace, InTurn, Placed, Inodes
    <3>7. CASE Restore(w)
      BY <3>7 DEF Restore
    <3> QED BY <1>1, <3>1, <3>2, <3>3, <3>4, <3>5, <3>6, <3>7 DEF WriteFile
  <2> QED BY <2>a, <2>b
<1>2. CASE UNCHANGED vars
  BY <1>0, <1>2 DEF vars, dirVars, SettledCall
<1> QED BY <1>0, <1>1, <1>2 DEF Next

\* What the mapped register holds: what the one uncommitted call has at its
\* backup, or else what is at the path.
LEMMA ValueOfUncommitted ==
    ASSUME NEW w \in Writers, Uncommitted(w), \A x \in Writers : Uncommitted(x) => x = w
    PROVE  value = Hold(backup[w])
<1>1. (CHOOSE x \in Writers : Uncommitted(x)) = w
  OBVIOUS
<1> QED BY <1>1 DEF value

LEMMA ValueOfUncommittedNext ==
    ASSUME NEW w \in Writers, Uncommitted(w)', \A x \in Writers : Uncommitted(x)' => x = w
    PROVE  value' = Hold(backup[w])'
<1>1. (CHOOSE x \in Writers : Uncommitted(x)') = w
  OBVIOUS
<1> QED BY <1>1 DEF value

LEMMA HoldsContent ==
    ASSUME TypeOK, NEW n \in Names
    PROVE  /\ Hold(n) \in Contents \cup {Absent}
           /\ Hold(n) = Absent <=> n = Absent
           /\ n # Absent => Hold(n) = Content(n) /\ Content(n) \in Contents
BY ContentAssumption, RequestAssumption DEF TypeOK, Hold, Content, Names, Inodes

LEMMA AtomicInit == Init => Register!Init
<1> SUFFICES ASSUME Init PROVE Register!Init
  OBVIOUS
<1>1. \A w \in Writers : ~Uncommitted(w)
  BY DEF Init, Uncommitted
<1>2. value = Hold(path)
  BY <1>1 DEF value
<1>3. Hold(path) \in Contents \cup {Absent}
  BY ContentAssumption DEF Init, Hold, Content
<1> QED BY <1>2, <1>3 DEF Init, Register!Init

LEMMA AtomicStep ==
    ASSUME TypeOK, TypeOK', Alone, Alone', InTurn, Results, Asked, Settled, Settled',
           turns, faults' <= 1, crashes' = 0, [Next]_vars
    PROVE  [Register!Next]_(Register!vars)
<1>1. CASE UNCHANGED vars
  BY <1>1 DEF vars, dirVars, Register!vars, value, Hold, Content, Uncommitted
<1>2. ASSUME NEW w \in Writers, WriteFile(w) PROVE [Register!Next]_(Register!vars)
  <2>0. /\ Local(w) /\ turns' /\ \A x \in Writers : SettledCall(x) /\ SettledCall(x)'
        /\ w # Absent /\ w \in Names /\ Absent \in Names
    <3>1. Local(w) /\ turns' = turns
      BY <1>2, StepIsLocal DEF Local
    <3>2. faults <= 1 /\ crashes = 0
      <4>1. faults \in Nat /\ faults' \in Nat /\ crashes \in Nat /\ crashes' \in Nat
        BY DEF TypeOK
      <4>2. faults' >= faults /\ crashes' >= crashes
        BY CountsGrow
      <4> QED BY <4>1, <4>2
    <3> QED BY <3>1, <3>2, InodeAssumption DEF Settled, Names, Inodes
  <2>1. \A x \in Writers : x # w => ~Uncommitted(x) /\ ~Uncommitted(x)' /\ pc'[x] = pc[x]
    <3>1. \A x \in Writers : x # w => pc[x] \notin Running /\ pc'[x] = pc[x]
      BY <2>0 DEF Alone, Local
    <3> QED BY <3>1 DEF Uncommitted, Running
  <2>2. Uncommitted(w) => value = Hold(backup[w])
    BY <2>1, ValueOfUncommitted
  <2>3. Uncommitted(w)' => value' = Hold(backup'[w])
    <3>1. Hold(backup[w])' = Hold(backup'[w])
      BY <2>0 DEF Local, Hold, Content
    <3> QED BY <2>1, <3>1, ValueOfUncommittedNext
  <2>4. ~Uncommitted(w) => value = Hold(path)
    BY <2>1 DEF value
  <2>5. ~Uncommitted(w)' => value' = Hold(path')
    <3>1. Hold(path)' = Hold(path')
      BY <2>0 DEF Local, Hold, Content
    <3>2. ~Uncommitted(w)' => value' = Hold(path)'
      BY <2>1 DEF value
    <3> QED BY <3>1, <3>2
  <2>6. /\ req' = req /\ res \in [Writers -> {"none", "ok", "reused", "collision", "error"}]
        /\ pc \in [Writers -> Pcs] /\ backup \in [Writers -> Names]
        /\ pc[w] \in Running \ {"cleanup"} => res[w] = "none"
        /\ path \in Names /\ backup[w] \in Names /\ backup'[w] \in Names
    BY <2>0 DEF Local, TypeOK, Results
  <2>7. SettledCall(w) /\ SettledCall(w)' /\ Placed(w)
    BY <2>0 DEF InTurn
  \* A step the register does not see, and the ways a call returns.
  <2>a. ASSUME value' = value, UNCHANGED res PROVE [Register!Next]_(Register!vars)
    BY <2>6, <2>a DEF Register!vars
  <2>b. ASSUME value' = value, res' = [res EXCEPT ![w] = "error"], res[w] = "none"
        PROVE  [Register!Next]_(Register!vars)
    <3>1. Register!Refuse(w)
      BY <2>b DEF Register!Refuse, Register!Answer
    <3> QED BY <2>6, <3>1 DEF Register!Next
  <2>c. ASSUME value' = req[w].data, req[w].force \/ value = Absent,
               res' = [res EXCEPT ![w] = "ok"], res[w] = "none"
        PROVE  [Register!Next]_(Register!vars)
    <3>1. Register!Store(w)
      BY <2>c DEF Register!Store, Register!Answer
    <3> QED BY <2>6, <3>1 DEF Register!Next
  <2>d. ASSUME value' = value, value = req[w].data,
               res' = [res EXCEPT ![w] = "reused"], res[w] = "none"
        PROVE  [Register!Next]_(Register!vars)
    <3>1. Register!Reuse(w)
      BY <2>d DEF Register!Reuse, Register!Answer
    <3> QED BY <2>6, <3>1 DEF Register!Next
  <2>e. ASSUME value' = value, value \notin {Absent, req[w].data}, ~req[w].force,
               res' = [res EXCEPT ![w] = "collision"], res[w] = "none"
        PROVE  [Register!Next]_(Register!vars)
    <3>1. Register!Collide(w)
      BY <2>e DEF Register!Collide, Register!Answer
    <3> QED BY <2>6, <3>1 DEF Register!Next
  \* Before it publishes and after it returned a call leaves the path alone.
  <2>q. ASSUME path' = path, ~Uncommitted(w), ~Uncommitted(w)' PROVE value' = value
    BY <2>4, <2>5, <2>q
  \* Within its replacement a call leaves its backup alone.
  <2>r. ASSUME backup'[w] = backup[w], Uncommitted(w), Uncommitted(w)' PROVE value' = value
    BY <2>2, <2>3, <2>r
  <2>h. value = Hold(path) /\ path # Absent => value = Content(path) /\ value # Absent
    BY <2>6, HoldsContent DEF Hold
  <2> USE <2>6 DEF Goto, Return, Finish
  <2>11. CASE CheckLstat(w)
    <3>1. pc[w] = "check" /\ path' = path /\ res[w] = "none"
      BY <2>11 DEF CheckLstat, Same, dirVars, Running
    <3>2. pc'[w] \in {"create", "compare", "cleanup", "done"}
      BY <2>11 DEF CheckLstat, NotFound, Differs
    <3>3. value' = value /\ value = Hold(path)
      BY <3>1, <3>2, <2>4, <2>q DEF Uncommitted
    <3>4. \/ UNCHANGED res \/ res' = [res EXCEPT ![w] = "error"]
          \/ /\ res' = [res EXCEPT ![w] = "collision"] /\ ~req[w].force /\ path # Absent
             /\ Content(path) # req[w].data
      BY <2>11 DEF CheckLstat, NotFound, Differs
    <3> QED BY <3>1, <3>3, <3>4, <2>a, <2>b, <2>e, <2>h
  <2>12. CASE ReadLstat(w)
    <3>1. pc[w] = "compare" /\ path' = path /\ res[w] = "none"
      BY <2>12 DEF ReadLstat, Same, dirVars, Running
    <3>2. pc'[w] \in {"read", "cleanup", "done"}
      BY <2>12 DEF ReadLstat
    <3>3. value' = value
      BY <3>1, <3>2, <2>q DEF Uncommitted
    <3>4. UNCHANGED res \/ res' = [res EXCEPT ![w] = "error"]
      BY <2>12 DEF ReadLstat
    <3> QED BY <3>1, <3>3, <3>4, <2>a, <2>b
  <2>13. CASE ReadOpen(w)
    <3>1. pc[w] = "read" /\ path' = path /\ res[w] = "none" /\ seen[w] # Absent
      BY <2>13 DEF ReadOpen, Same, dirVars, Running, Asked
    <3>2. pc'[w] \in {"create", "cleanup", "done"}
      BY <2>13 DEF ReadOpen, Differs
    <3>3. value' = value /\ value = Hold(path)
      BY <3>1, <3>2, <2>4, <2>q DEF Uncommitted
    <3>4. \/ UNCHANGED res \/ res' = [res EXCEPT ![w] = "error"]
          \/ /\ res' = [res EXCEPT ![w] = "reused"] /\ path # Absent /\ Content(path) = req[w].data
          \/ /\ res' = [res EXCEPT ![w] = "collision"] /\ ~req[w].force /\ path # Absent
             /\ Content(path) # req[w].data
      BY <2>13, <3>1 DEF ReadOpen, Differs
    <3> QED BY <3>1, <3>3, <3>4, <2>a, <2>b, <2>d, <2>e, <2>h
  <2>14. CASE Begin(w) \/ CreateTemp(w) \/ WriteTemp(w) \/ SyncTemp(w) \/ Cleanup(w) \/ Stat(w)
    <3>1. /\ path' = path
          /\ pc[w] \in {"idle", "create", "write", "sync", "cleanup", "stat"}
      BY <2>14 DEF Begin, CreateTemp, WriteTemp, SyncTemp, Cleanup, Stat, Same, dirVars, Change
    <3>2. pc'[w] \in {"check", "write", "sync", "stat", "link", "cleanup", "done", "renameNew", "backup"}
      BY <2>14 DEF Begin, CreateTemp, WriteTemp, SyncTemp, Cleanup, Stat
    <3>3. value' = value
      BY <3>1, <3>2, <2>q DEF Uncommitted
    <3>4. UNCHANGED res \/ (pc[w] # "cleanup" /\ pc[w] # "idle" /\ res' = [res EXCEPT ![w] = "error"])
      BY <2>14 DEF Begin, CreateTemp, WriteTemp, SyncTemp, Cleanup, Stat
    <3>5. pc[w] # "cleanup" /\ pc[w] # "idle" => res[w] = "none"
      BY <3>1 DEF Running
    <3> QED BY <3>3, <3>4, <3>5, <2>a, <2>b
  <2>15. CASE Link(w)
    <3>1. pc[w] = "link" /\ backup' = backup /\ backup[w] = Absent
      BY <2>15, <2>7 DEF Link, Same, dirVars, Change, SettledCall, Replacing
    <3>2. UNCHANGED res
      BY <2>15 DEF Link
    <3>3. value = Hold(path)
      BY <3>1, <2>4 DEF Uncommitted
    <3>4. CASE pc'[w] = "unstage" /\ path = Absent
      BY <3>1, <3>2, <3>3, <3>4, <2>3, <2>a DEF Uncommitted
    <3>5. CASE pc'[w] = "check" /\ path' = path
      BY <3>1, <3>2, <3>5, <2>q, <2>a DEF Uncommitted
    <3> QED BY <2>15, <3>4, <3>5 DEF Link, Same, dirVars
  <2>16. CASE Unstage(w)
    <3>1. /\ pc[w] = "unstage" /\ backup' = backup /\ UNCHANGED res
          /\ pc'[w] \in {"syncNew", "rollNew"}
      BY <2>16 DEF Unstage, Same, dirVars, Change
    <3> QED BY <3>1, <2>r, <2>a DEF Uncommitted
  <2>17. CASE SyncNew(w)
    <3>1. /\ pc[w] = "syncNew" /\ backup' = backup /\ path' = path
          /\ backup[w] = Absent /\ path = w /\ res[w] = "none"
      BY <2>17, <2>7 DEF SyncNew, dirVars, SettledCall, Replacing, Placed, Running
    <3>2. value = Absent
      BY <3>1, <2>2 DEF Uncommitted, Hold
    <3>3. CASE pc'[w] = "done" /\ res' = [res EXCEPT ![w] = "ok"]
      <4>1. value' = Hold(w)
        BY <3>1, <3>3, <2>5 DEF Uncommitted
      <4>2. Hold(w) = req[w].data
        BY <2>0, InodeAssumption DEF Hold, Content
      <4> QED BY <3>1, <3>2, <3>3, <4>1, <4>2, <2>c
    <3>4. CASE pc'[w] = "rollNew" /\ UNCHANGED res
      BY <3>1, <3>4, <2>r, <2>a DEF Uncommitted
    <3> QED BY <2>17, <3>3, <3>4 DEF SyncNew
  \* Its second fault would be the one too many for a call that rolls back.
  <2>f. pc[w] \in Rollbacks => ~Fail
    <3>1. faults \in Nat /\ faults' <= 1
      BY DEF TypeOK
    <3> QED BY <2>7, <3>1 DEF SettledCall, Fail
  <2>18. CASE RollNew(w)
    <3>1. pc[w] = "rollNew" /\ backup[w] = Absent /\ res[w] = "none"
      BY <2>18, <2>7 DEF RollNew, SettledCall, Replacing, Running
    <3>2. path' = Absent /\ res' = [res EXCEPT ![w] = "error"] /\ pc'[w] \in {"cleanup", "done"}
      BY <2>18, <2>f, <3>1 DEF RollNew, Rollbacks, Change
    <3>3. value = Absent /\ value' = Absent
      BY <3>1, <3>2, <2>2, <2>5 DEF Uncommitted, Hold
    <3> QED BY <3>1, <3>2, <3>3, <2>b
  <2>19. CASE RenameNew(w)
    <3>1. pc[w] = "renameNew" /\ backup' = backup /\ backup[w] = Absent /\ path = Absent /\ res[w] = "none"
      BY <2>19, <2>7 DEF RenameNew, Same, dirVars, Change, SettledCall, Replacing, Placed, Running
    <3>2. CASE pc'[w] = "syncNew" /\ UNCHANGED res
      BY <3>1, <3>2, <2>3, <2>4, <2>a DEF Uncommitted
    <3>3. CASE pc'[w] \in {"cleanup", "done"} /\ path' = path /\ res' = [res EXCEPT ![w] = "error"]
      BY <3>1, <3>3, <2>q, <2>b DEF Uncommitted
    <3> QED BY <2>19, <3>2, <3>3 DEF RenameNew, Same, dirVars
  <2>20. CASE Backup(w)
    <3>1. pc[w] = "backup" /\ res[w] = "none"
      BY <2>20 DEF Backup, Running
    <3>2. CASE pc'[w] = "replace" /\ UNCHANGED res /\ backup'[w] = path
      BY <3>1, <3>2, <2>3, <2>4, <2>a DEF Uncommitted
    <3>3. CASE pc'[w] \in {"cleanup", "done"} /\ path' = path /\ res' = [res EXCEPT ![w] = "error"]
      BY <3>1, <3>3, <2>q, <2>b DEF Uncommitted
    <3> QED BY <2>20, <3>2, <3>3 DEF Backup, Same, dirVars, Change
  <2>21. CASE Replace(w) \/ SyncReplace(w)
    <3>1. /\ pc[w] \in {"replace", "syncReplace"} /\ backup' = backup /\ UNCHANGED res
          /\ pc'[w] \in {"syncReplace", "restore", "unbackup", "unreplace"}
      BY <2>21 DEF Replace, SyncReplace, Same, dirVars, Change
    <3> QED BY <3>1, <2>r, <2>a DEF Uncommitted
  <2>22. CASE Unbackup(w)
    <3>1. pc[w] = "unbackup" /\ path = w /\ path' = path /\ res[w] = "none" /\ req[w].force
      BY <2>22, <2>7 DEF Unbackup, Same, dirVars, Change, Placed, Running, Asked, Replacing
    <3>2. CASE pc'[w] = "done" /\ res' = [res EXCEPT ![w] = "ok"]
      <4>1. value' = Hold(w)
        BY <3>1, <3>2, <2>5 DEF Uncommitted
      <4>2. Hold(w) = req[w].data
        BY <2>0, InodeAssumption DEF Hold, Content
      <4> QED BY <3>1, <3>2, <4>1, <4>2, <2>c
    <3>3. CASE pc'[w] = "unreplace" /\ UNCHANGED res /\ backup' = backup
      BY <3>1, <3>3, <2>r, <2>a DEF Uncommitted
    <3> QED BY <2>22, <3>2, <3>3 DEF Unbackup, Same, dirVars
  <2>23. CASE Unreplace(w)
    <3>1. pc[w] = "unreplace" /\ path # Absent
      BY <2>23, <2>7, <2>0 DEF Unreplace, Placed
    <3>2. pc'[w] = "restore" /\ UNCHANGED res /\ backup' = backup
      BY <2>23, <2>f, <3>1 DEF Unreplace, Rollbacks, Change
    <3> QED BY <3>1, <3>2, <2>r, <2>a DEF Uncommitted
  <2>24. CASE Restore(w)
    <3>1. pc[w] = "restore" /\ res[w] = "none"
      BY <2>24 DEF Restore, Running
    <3>2. /\ path' = backup[w] /\ res' = [res EXCEPT ![w] = "error"]
          /\ pc'[w] \in {"cleanup", "done"}
      BY <2>24, <2>f, <3>1 DEF Restore, Rollbacks, Change
    <3>3. value' = value
      BY <3>1, <3>2, <2>2, <2>5 DEF Uncommitted
    <3> QED BY <3>1, <3>2, <3>3, <2>b
  <2> QED
    BY <1>2, <2>11, <2>12, <2>13, <2>14, <2>15, <2>16, <2>17, <2>18, <2>19, <2>20, <2>21,
       <2>22, <2>23, <2>24
    DEF WriteFile
<1> QED
  <2>1. ~PowerLoss /\ \A w \in Writers : ~Crash(w)
    BY CountsGrow
  <2> QED BY <1>1, <1>2, <2>1 DEF Next

LEMMA SettledCorrect == Spec => [](Results /\ Asked /\ Settled)
<1>1. Init => Results /\ Asked /\ Settled
  <2> SUFFICES ASSUME Init PROVE Results /\ Asked /\ \A w \in Writers : SettledCall(w)
    BY DEF Settled
  <2> QED BY DEF Init, Results, Asked, SettledCall, Running, Replacing, Rollbacks
<1> QED
  BY <1>1, ResultsStep, AskedStep, SettledStep, TypeCorrect, InTurnCorrect, PTL DEF Spec

\* Callers that take turns see an atomic register, for any number of calls and
\* any requests: up to one failing system call every call either stores its
\* content at once and says so, or leaves the artifact as it was.
THEOREM AtomicInTurns == Spec => TurnsAreAtomic
<1>1. /\ TypeOK /\ TypeOK' /\ Alone /\ Alone' /\ InTurn /\ Results /\ Asked /\ Settled /\ Settled'
      /\ [Next]_vars
      => [turns /\ faults' <= 1 /\ crashes' = 0 => [Register!Next]_(Register!vars)]_vars
  BY AtomicStep
<1> QED
  BY <1>1, AtomicInit, TypeCorrect, AloneCorrect, InTurnCorrect, SettledCorrect, PTL
  DEF Spec, TurnsAreAtomic
====
