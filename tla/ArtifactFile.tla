---- MODULE ArtifactFile ----
(***************************************************************************)
(* internal/artifactio: WriteFile and the ReadFile it calls, for one       *)
(* artifact path written by several processes.  Every system call is one   *)
(* action, so calls interleave between any two of them.                    *)
(*                                                                         *)
(* The directory is modelled by inodes: the file that call w creates is    *)
(* the inode w, the file found at the start is the inode Old.  A name      *)
(* (the path, w's stage file, w's backup) refers to an inode or is Absent. *)
(***************************************************************************)
EXTENDS Naturals, FiniteSets

CONSTANTS
    Writers,      \* the WriteFile calls; each is made at most once
    Contents,     \* the contents a call may write
    Size,         \* the number of bytes of each content
    Requests,     \* the requests a call may make: [data, force]
    Old,          \* the inode at the path at the start, if there is one
    OldContent,   \* its content
    Absent,       \* a name that refers to no inode
    MaxFaults,    \* bound: how many system calls may fail
    MaxCrashes    \* bound: how many process crashes and power losses occur

Inodes == Writers \cup {Old}
Names == Inodes \cup {Absent}

ASSUME InodeAssumption == Old \notin Writers /\ Absent \notin Inodes
ASSUME ContentAssumption ==
    OldContent \in Contents /\ Absent \notin Contents /\ Size \in [Contents -> Nat]
ASSUME RequestAssumption == Requests \subseteq [data : Contents, force : BOOLEAN]
ASSUME BoundAssumption == MaxFaults \in Nat /\ MaxCrashes \in Nat

VARIABLES
    pc,       \* the next system call of each WriteFile call
    req,      \* its arguments
    seen,     \* the inode its ReadFile found with Lstat
    res,      \* what it returned
    path,     \* the inode at the artifact path
    temp,     \* the calls whose stage file has its name
    backup,   \* the inode at each call's backup name
    disk,     \* the directories a power loss may leave behind
    data,     \* how much of each inode is written: "empty", "written", "synced"
    turns,    \* do the callers take turns?
    faults,   \* system calls that have failed
    crashes   \* crashes and power losses so far

dirVars == <<path, temp, backup>>
vars == <<pc, req, seen, res, dirVars, disk, data, turns, faults, crashes>>

Dirs == [path : Names, temp : SUBSET Writers, backup : [Writers -> Names]]

Running == {"check", "compare", "read", "create", "write", "sync", "link",
            "unstage", "syncNew", "rollNew", "stat", "renameNew", "backup",
            "replace", "restore", "syncReplace", "unbackup", "unreplace",
            "cleanup"}
Pcs == Running \cup {"idle", "done", "dead"}

Dir == [path |-> path, temp |-> temp, backup |-> backup]

Content(i) == IF i = Old THEN OldContent ELSE req[i].data

Init ==
    /\ pc = [w \in Writers |-> "idle"]
    /\ req \in [Writers -> Requests]
    /\ seen = [w \in Writers |-> Absent]
    /\ res = [w \in Writers |-> "none"]
    /\ path \in {Old, Absent}
    /\ temp = {}
    /\ backup = [w \in Writers |-> Absent]
    /\ disk = {Dir}
    /\ data = [i \in Inodes |-> IF i = Old THEN "synced" ELSE "empty"]
    /\ turns \in BOOLEAN
    /\ faults = 0
    /\ crashes = 0

(***************************************************************************)
(* A system call succeeds, or fails within the bound.  A change of the     *)
(* directory may or may not reach the disk until syncDirectory returns.    *)
(***************************************************************************)
Succeed == UNCHANGED faults
Fail == faults < MaxFaults /\ faults' = faults + 1

Change(p, t, b) ==
    /\ path' = p /\ temp' = t /\ backup' = b
    /\ disk' = disk \cup {[path |-> p, temp |-> t, backup |-> b]}

Goto(w, step) == pc' = [pc EXCEPT ![w] = step] /\ UNCHANGED res

Finish(w, r) == pc' = [pc EXCEPT ![w] = "done"] /\ res' = [res EXCEPT ![w] = r]

\* A variant with a bug: the stage file is not removed.
ReturnKeepsStage(w, r) == Finish(w, r)
\* The deferred removal of the stage file runs if one was created.
Return(w, r) ==
    /\ pc' = [pc EXCEPT ![w] = IF w \in temp THEN "cleanup" ELSE "done"]
    /\ res' = [res EXCEPT ![w] = r]

Same == UNCHANGED <<dirVars, disk>>
Rest == UNCHANGED <<req, seen, data, turns, crashes>>

\* Callers that take turns begin only when no other call is running.
Begin(w) ==
    /\ pc[w] = "idle"
    /\ turns => \A x \in Writers : pc[x] \notin Running
    /\ Goto(w, "check")
    /\ Succeed /\ Same /\ Rest

(***************************************************************************)
(* checkFileCollision.  It is called before the stage file exists and,     *)
(* when the link failed, again while it exists.                            *)
(***************************************************************************)
Relinking(w) == w \in temp

NotFound(w) == IF Relinking(w) THEN Return(w, "error") ELSE Goto(w, "create")

Differs(w) == IF req[w].force THEN Goto(w, "create") ELSE Return(w, "collision")

CheckLstat(w) ==
    /\ pc[w] = "check"
    /\ \/ path = Absent /\ NotFound(w) /\ Succeed
       \/ /\ path # Absent
          /\ IF Size[Content(path)] = Size[req[w].data]
             THEN Goto(w, "compare") ELSE Differs(w)
          /\ Succeed
       \/ Fail /\ Return(w, "error")
    /\ Same /\ Rest

\* ReadFile's own Lstat, bounded by the size of the incoming content.
ReadLstat(w) ==
    /\ pc[w] = "compare"
    /\ \/ /\ path # Absent
          /\ Size[Content(path)] <= Size[req[w].data]
          /\ seen' = [seen EXCEPT ![w] = path]
          /\ Goto(w, "read")
          /\ Succeed
       \/ /\ \/ Succeed /\ path = Absent
             \/ Succeed /\ path # Absent /\ Size[Content(path)] > Size[req[w].data]
             \/ Fail
          /\ Return(w, "error")
          /\ UNCHANGED seen
    /\ Same /\ UNCHANGED <<req, data, turns, crashes>>

\* ReadFile opens the path, refuses another inode, and compares the digest.
ReadOpen(w) ==
    /\ pc[w] = "read"
    /\ \/ /\ path = seen[w]
          /\ IF Content(seen[w]) = req[w].data THEN Return(w, "reused") ELSE Differs(w)
          /\ Succeed
       \/ path # seen[w] /\ Return(w, "error") /\ Succeed
       \/ Fail /\ Return(w, "error")
    /\ Same /\ Rest

(***************************************************************************)
(* The stage file.                                                         *)
(***************************************************************************)
CreateTemp(w) ==
    /\ pc[w] = "create"
    /\ \/ /\ Change(path, temp \cup {w}, backup)
          /\ Goto(w, "write")
          /\ Succeed
       \/ Fail /\ Finish(w, "error") /\ Same
    /\ Rest

WriteTemp(w) ==
    /\ pc[w] = "write"
    /\ \/ data' = [data EXCEPT ![w] = "written"] /\ Goto(w, "sync") /\ Succeed
       \/ Fail /\ Return(w, "error") /\ UNCHANGED data
    /\ Same /\ UNCHANGED <<req, seen, turns, crashes>>

\* A variant with a bug: the stage is not synced.
SyncTempSkipped(w) ==
    /\ pc[w] = "sync"
    /\ Goto(w, IF req[w].force THEN "stat" ELSE "link")
    /\ Succeed /\ Same /\ Rest
\* tmp.Sync and tmp.Close
SyncTemp(w) ==
    /\ pc[w] = "sync"
    /\ \/ /\ data' = [data EXCEPT ![w] = "synced"]
          /\ Goto(w, IF req[w].force THEN "stat" ELSE "link")
          /\ Succeed
       \/ Fail /\ Return(w, "error") /\ UNCHANGED data
    /\ Same /\ UNCHANGED <<req, seen, turns, crashes>>

Cleanup(w) ==
    /\ pc[w] = "cleanup"
    /\ \/ Change(path, temp \ {w}, backup) /\ Succeed
       \/ Fail /\ Same
    /\ Goto(w, "done")
    /\ Rest

(***************************************************************************)
(* Publishing without Force: link the stage file to the path.              *)
(***************************************************************************)
Link(w) ==
    /\ pc[w] = "link"
    /\ \/ /\ path = Absent
          /\ Change(w, temp, backup)
          /\ Goto(w, "unstage")
          /\ Succeed
       \/ /\ \/ path # Absent /\ Succeed
             \/ Fail
          /\ Goto(w, "check")
          /\ Same
    /\ Rest

Unstage(w) ==
    /\ pc[w] = "unstage"
    /\ \/ Change(path, temp \ {w}, backup) /\ Goto(w, "syncNew") /\ Succeed
       \/ Fail /\ Goto(w, "rollNew") /\ Same
    /\ Rest

\* Variants with a bug: the directory is not synced; the link stays although
\* it could not be synced.
SyncNewSkipped(w) ==
    /\ pc[w] = "syncNew"
    /\ Finish(w, "ok")
    /\ Succeed /\ Same /\ Rest
SyncNewWithoutRollback(w) ==
    /\ pc[w] = "syncNew"
    /\ \/ disk' = {Dir} /\ Finish(w, "ok") /\ Succeed
       \/ Fail /\ Finish(w, "error") /\ UNCHANGED disk
    /\ UNCHANGED dirVars /\ Rest
\* syncDirectory, after a link or after the rename of a first version
SyncNew(w) ==
    /\ pc[w] = "syncNew"
    /\ \/ disk' = {Dir} /\ Finish(w, "ok") /\ Succeed
       \/ Fail /\ Goto(w, "rollNew") /\ UNCHANGED disk
    /\ UNCHANGED dirVars /\ Rest

\* os.Remove(path): whatever the path refers to by now.
RollNew(w) ==
    /\ pc[w] = "rollNew"
    /\ \/ Change(Absent, temp, backup) /\ Succeed
       \/ Fail /\ Same
    /\ Return(w, "error")
    /\ Rest

(***************************************************************************)
(* Publishing with Force: replaceFileWithRollback.                         *)
(***************************************************************************)
Stat(w) ==
    /\ pc[w] = "stat"
    /\ \/ Goto(w, IF path = Absent THEN "renameNew" ELSE "backup") /\ Succeed
       \/ Fail /\ Return(w, "error")
    /\ Same /\ Rest

RenameNew(w) ==
    /\ pc[w] = "renameNew"
    /\ \/ /\ Change(w, temp \ {w}, backup)
          /\ Goto(w, "syncNew")
          /\ Succeed
       \/ Fail /\ Return(w, "error") /\ Same
    /\ Rest

\* A variant with a bug: the old version is removed first.
BackupByRemoval(w) ==
    /\ pc[w] = "backup"
    /\ Change(Absent, temp, backup)
    /\ Goto(w, "replace")
    /\ Succeed /\ Rest
\* os.Rename(path, backup)
Backup(w) ==
    /\ pc[w] = "backup"
    /\ \/ /\ path # Absent
          /\ Change(Absent, temp, [backup EXCEPT ![w] = path])
          /\ Goto(w, "replace")
          /\ Succeed
       \/ /\ \/ path = Absent /\ Succeed
             \/ Fail
          /\ Return(w, "error")
          /\ Same
    /\ Rest

Replace(w) ==
    /\ pc[w] = "replace"
    /\ \/ /\ Change(w, temp \ {w}, backup)
          /\ Goto(w, "syncReplace")
          /\ Succeed
       \/ Fail /\ Goto(w, "restore") /\ Same
    /\ Rest

SyncReplace(w) ==
    /\ pc[w] = "syncReplace"
    /\ \/ disk' = {Dir} /\ Goto(w, "unbackup") /\ Succeed
       \/ Fail /\ Goto(w, "unreplace") /\ UNCHANGED disk
    /\ UNCHANGED dirVars /\ Rest

\* A variant with a bug: success is reported as an error.
UnbackupReportsError(w) ==
    /\ pc[w] = "unbackup"
    /\ Change(path, temp, [backup EXCEPT ![w] = Absent])
    /\ Finish(w, "error")
    /\ Succeed /\ Rest
\* os.Remove(backup)
Unbackup(w) ==
    /\ pc[w] = "unbackup"
    /\ \/ Change(path, temp, [backup EXCEPT ![w] = Absent]) /\ Finish(w, "ok") /\ Succeed
       \/ Fail /\ Goto(w, "unreplace") /\ Same
    /\ Rest

\* rollbackFileReplacement removes the path, then renames the backup to it.
Unreplace(w) ==
    /\ pc[w] = "unreplace"
    /\ \/ /\ path # Absent
          /\ Change(Absent, temp, backup)
          /\ Goto(w, "restore")
          /\ Succeed
       \/ /\ \/ path = Absent /\ Succeed
             \/ Fail
          /\ Return(w, "error")
          /\ Same
    /\ Rest

Restore(w) ==
    /\ pc[w] = "restore"
    /\ \/ Change(backup[w], temp, [backup EXCEPT ![w] = Absent]) /\ Succeed
       \/ Fail /\ Same
    /\ Return(w, "error")
    /\ Rest

(***************************************************************************)
(* A process dies between two system calls; a power loss ends them all,    *)
(* keeps a directory that may have reached the disk, and tears the files   *)
(* that were not synced.                                                   *)
(***************************************************************************)
Crash(w) ==
    /\ pc[w] \in Running
    /\ crashes < MaxCrashes
    /\ crashes' = crashes + 1
    /\ pc' = [pc EXCEPT ![w] = "dead"]
    /\ UNCHANGED <<req, seen, res, dirVars, disk, data, turns, faults>>

PowerLoss ==
    /\ crashes < MaxCrashes
    /\ crashes' = crashes + 1
    /\ pc' = [w \in Writers |-> IF pc[w] \in Running THEN "dead" ELSE pc[w]]
    /\ \E d \in disk :
          /\ path' = d.path /\ temp' = d.temp /\ backup' = d.backup
          /\ disk' = {d}
    /\ data' = [i \in Inodes |-> IF data[i] = "synced" THEN "synced" ELSE "empty"]
    /\ UNCHANGED <<req, seen, res, turns, faults>>

WriteFile(w) ==
    \/ Begin(w) \/ CheckLstat(w) \/ ReadLstat(w) \/ ReadOpen(w)
    \/ CreateTemp(w) \/ WriteTemp(w) \/ SyncTemp(w) \/ Cleanup(w)
    \/ Link(w) \/ Unstage(w) \/ SyncNew(w) \/ RollNew(w)
    \/ Stat(w) \/ RenameNew(w) \/ Backup(w) \/ Replace(w) \/ SyncReplace(w)
    \/ Unbackup(w) \/ Unreplace(w) \/ Restore(w)

Next == PowerLoss \/ \E w \in Writers : WriteFile(w) \/ Crash(w)

Spec == Init /\ [][Next]_vars

----------------------------------------------------------------------------
(***************************************************************************)
(* Properties.                                                             *)
(***************************************************************************)
TypeOK ==
    /\ pc \in [Writers -> Pcs]
    /\ req \in [Writers -> Requests]
    /\ seen \in [Writers -> Names]
    /\ res \in [Writers -> {"none", "ok", "reused", "collision", "error"}]
    /\ path \in Names
    /\ temp \in SUBSET Writers
    /\ backup \in [Writers -> Names]
    /\ disk \in SUBSET Dirs
    /\ data \in [Inodes -> {"empty", "written", "synced"}]
    /\ turns \in BOOLEAN
    /\ faults \in Nat
    /\ crashes \in Nat

\* What the path and the backups refer to, now or after a power loss, is a
\* file written and synced to the end: neither a reader nor a restart finds a
\* torn artifact (the stage file is complete before it is linked or renamed).
Published(d) == {n \in Inodes : n = d.path \/ \E w \in Writers : n = d.backup[w]}
PublishedIsComplete ==
    \A d \in disk \cup {Dir} : \A n \in Published(d) : data[n] = "synced"

\* Once a version of the artifact is safely on the disk, at the path or at a
\* backup, no step of any call and no crash or power loss leaves a directory
\* without one: the backup is removed only while a newer version is there.
\* Calls that overlap are promised it until a system call fails, and callers
\* that take turns whatever fails.
Reachable(d) == d.path # Absent \/ \E w \in Writers : d.backup[w] # Absent
OnDisk == \A d \in disk : Reachable(d)
ArtifactSurvives == [][(turns \/ faults' = 0) /\ OnDisk => OnDisk']_vars

\* A call that returned without a fault or a crash leaves no stage and no
\* backup beside the artifact, whatever the other calls did meanwhile.
NoLitter ==
    faults = 0 /\ crashes = 0 =>
        \A w \in Writers : pc[w] = "done" =>
            w \notin temp /\ backup[w] = Absent

\* When every call has returned and no system call failed, the path holds the
\* content of a call that succeeded, or the old file that no successful Force
\* call replaced.
LastWriteIsReported ==
    faults = 0 /\ (\A w \in Writers : pc[w] \in {"idle", "done"}) =>
        \/ \E w \in Writers : res[w] = "ok" /\ path = w
        \/ path \in {Old, Absent} /\ \A w \in Writers : res[w] # "ok"

\* A call without Force never takes another file from the path whose content
\* differs from its own (WriteFile: "differing content requires Force").
DifferingContentRequiresForce ==
    [][\A w \in Writers :
          ~req[w].force /\ pc'[w] \notin {pc[w], "dead"} /\ path' # path =>
              path \in {Absent, w} \/ Content(path) = req[w].data]_vars

\* No step of a WriteFile call makes an artifact disappear from its path
\* (WriteFile "atomically writes relative under root").
PathNeverVanishes ==
    [][faults' = 0 /\ crashes' = 0 /\ path # Absent => path' # Absent]_vars

\* A call that returns success has its content at the path on the disk: a
\* power loss right after the return does not take it back.  It is promised to
\* callers who take turns, whatever fails.
ReturnsDurable ==
    \A w \in Writers : res'[w] = "ok" /\ res[w] # "ok" => \A d \in disk' : d.path = w
TurnsAreDurable == [][turns => ReturnsDurable]_vars

----------------------------------------------------------------------------
(***************************************************************************)
(* The abstract register that callers who take turns see: a call replaces  *)
(* the content at once when it succeeds and leaves it alone otherwise.     *)
(***************************************************************************)
Uncommitted(w) ==
    pc[w] \in {"unstage", "syncNew", "rollNew", "replace", "restore",
               "syncReplace", "unbackup", "unreplace"}

Hold(n) == IF n = Absent THEN Absent ELSE Content(n)

value ==
    IF \E w \in Writers : Uncommitted(w)
    THEN Hold(backup[CHOOSE w \in Writers : Uncommitted(w)])
    ELSE Hold(path)

Register == INSTANCE ArtifactRegister
    WITH Callers <- Writers, Vacant <- Absent, request <- req, reply <- res

\* Callers who take turns see the atomic register (WriteFile "atomically
\* writes").  A second failing system call may defeat a rollback and a crash
\* may cut one short, so it is promised up to one fault and no crash.
TurnsAreAtomic ==
    /\ Register!Init
    /\ [][turns /\ faults' <= 1 /\ crashes' = 0
              => [Register!Next]_(Register!vars)]_vars
====
