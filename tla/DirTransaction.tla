---- MODULE DirTransaction ----
(***************************************************************************)
(* internal/artifactio: DirTransaction.  A transaction stages a tree       *)
(* beside its destination and publishes it with one rename.  Several       *)
(* processes publish to one destination; every system call that touches    *)
(* the destination is one action.                                          *)
(*                                                                         *)
(* Directories are inodes, as files are in ArtifactFile: the stage of      *)
(* transaction t is the directory t, the one found at the start is Old.    *)
(***************************************************************************)
EXTENDS Naturals, FiniteSets, Sequences, FiniteSetsExt, Functions

CONSTANTS
    Transactions,  \* the transactions; each is begun at most once
    Files,         \* file names, as numbers in the order WalkDir visits them
    Data,          \* file contents
    Plans,         \* the sequences of [name, data] a caller may stage
    Old,           \* the directory at the destination at the start
    OldTree,       \* the files it holds
    Absent,        \* a name that refers to no directory
    MaxFaults,     \* bound: how many system calls may fail
    MaxCrashes     \* bound: how many processes may die

Dirs == Transactions \cup {Old}
Names == Dirs \cup {Absent}

\* A tree maps the files it has to their contents.
Trees == UNION {[S -> Data] : S \in SUBSET Files}
EmptyTree == [f \in {} |-> f]

ASSUME DirAssumption == Old \notin Transactions /\ Absent \notin Dirs \cup Trees
ASSUME FileAssumption == Files \subseteq Nat /\ OldTree \in Trees
ASSUME PlanAssumption == Plans \subseteq Seq([name : Files, data : Data])
ASSUME BoundAssumption == MaxFaults \in Nat /\ MaxCrashes \in Nat

VARIABLES
    pc,         \* the next step of each transaction
    plan,       \* what its caller stages: [files, force]
    staged,     \* how many files of the plan are staged
    tree,       \* the files of each directory
    target,     \* the directory at the destination
    stage,      \* the transactions whose stage directory has its private name
    backup,     \* the directory at each transaction's backup name
    listed,     \* equalTrees: the names of the destination still to be read
    entries,    \* equalTrees: what was read of the destination
    doomed,     \* os.RemoveAll: the directory each transaction has opened
    published,  \* the transactions whose tree was published and synced
    res,        \* what Commit or Rollback returned
    arrival,    \* history: which of the trees that reached the destination it is
    arrivals,   \* history: how many have reached it
    turns,      \* do the transactions take turns?
    faults,     \* system calls that have failed
    crashes     \* processes that have died

fsVars == <<tree, target, stage, backup>>
walkVars == <<listed, entries>>
history == <<arrival, arrivals>>
vars == <<pc, plan, staged, fsVars, walkVars, doomed, published, res, history, turns, faults,
          crashes>>

Running == {"staging", "lstat", "renameNew", "syncNew", "removeNew", "list",
            "read", "backup", "replace", "restore", "sync", "removeTarget",
            "reinstate", "removeBackup", "discard"}
Results == {"none", "ok", "reused", "collision", "error", "rolledback"}

\* The tree of a whole plan; its first content for a file is the one staged.
PlanTree(files) ==
    [f \in {files[i].name : i \in DOMAIN files} |->
        files[Min({i \in DOMAIN files : files[i].name = f})].data]

Init ==
    /\ pc = [t \in Transactions |-> "idle"]
    /\ plan \in [Transactions -> [files : Plans, force : BOOLEAN]]
    /\ staged = [t \in Transactions |-> 0]
    /\ tree = [d \in Dirs |-> IF d = Old THEN OldTree ELSE EmptyTree]
    /\ target \in {Old, Absent}
    /\ stage = {}
    /\ backup = [t \in Transactions |-> Absent]
    /\ listed = [t \in Transactions |-> {}]
    /\ entries = [t \in Transactions |-> EmptyTree]
    /\ doomed = [t \in Transactions |-> Absent]
    /\ published = {}
    /\ res = [t \in Transactions |-> "none"]
    /\ arrival = [t \in Transactions |-> 0] /\ arrivals = 0
    /\ turns \in BOOLEAN
    /\ faults = 0
    /\ crashes = 0

Succeed == UNCHANGED faults
Fail == faults < MaxFaults /\ faults' = faults + 1
Goto(t, step) == pc' = [pc EXCEPT ![t] = step] /\ UNCHANGED res
Return(t, r) == pc' = [pc EXCEPT ![t] = "done"] /\ res' = [res EXCEPT ![t] = r]
\* A variant with a bug: the stage is not removed.
DiscardKeepsStage(t, r) == Return(t, r)
\* Remove the stage, then return r.
Discard(t, r) == pc' = [pc EXCEPT ![t] = "discard"] /\ res' = [res EXCEPT ![t] = r]
Rest == UNCHANGED <<plan, staged, walkVars, doomed, published, turns, crashes>>

(***************************************************************************)
(* BeginDir, Stage and Rollback.  The stage is private to the transaction. *)
(* Transactions that take turns begin only when no other one is running.   *)
(***************************************************************************)
BeginDir(t) ==
    /\ pc[t] = "idle"
    /\ turns => \A x \in Transactions : pc[x] \notin Running
    /\ \/ stage' = stage \cup {t} /\ Goto(t, "staging") /\ Succeed
       \/ Fail /\ Return(t, "error") /\ UNCHANGED stage
    /\ UNCHANGED <<tree, target, backup>> /\ Rest

\* A variant with a bug: a later file replaces an earlier one of its name.
StageOverwrites(t) ==
    /\ pc[t] = "staging"
    /\ staged[t] < Len(plan[t].files)
    /\ LET file == plan[t].files[staged[t] + 1] IN
          tree' = [tree EXCEPT ![t] =
             [f \in DOMAIN @ \cup {file.name} |-> IF f = file.name THEN file.data ELSE @[f]]]
    /\ staged' = [staged EXCEPT ![t] = @ + 1]
    /\ UNCHANGED <<pc, res, plan, target, stage, backup, walkVars, doomed, published, turns, crashes>>
    /\ Succeed
\* The caller stages its next file; WriteFile reuses an identical file and
\* refuses a different one, upon which the caller rolls back.
Stage(t) ==
    /\ pc[t] = "staging"
    /\ staged[t] < Len(plan[t].files)
    /\ LET file == plan[t].files[staged[t] + 1]
           taken == file.name \in DOMAIN tree[t] /\ tree[t][file.name] # file.data
       IN \/ /\ ~taken
             /\ tree' = [tree EXCEPT ![t] =
                   [f \in DOMAIN @ \cup {file.name} |-> IF f = file.name THEN file.data ELSE @[f]]]
             /\ staged' = [staged EXCEPT ![t] = @ + 1]
             /\ UNCHANGED <<pc, res>>
             /\ Succeed
          \/ /\ \/ taken /\ Succeed
                \/ Fail
             /\ Discard(t, "rolledback")
             /\ UNCHANGED <<tree, staged>>
    /\ UNCHANGED <<plan, target, stage, backup, walkVars, doomed, published, turns, crashes>>

\* The caller gives up before Commit (an overlay or a manifest failed).
Rollback(t) ==
    /\ pc[t] = "staging"
    /\ Discard(t, "rolledback")
    /\ Succeed /\ UNCHANGED fsVars /\ Rest

\* os.RemoveAll(stage).  Its failure is returned only for a reused tree and
\* by Rollback.
RemoveStage(t) ==
    /\ pc[t] = "discard"
    /\ \/ stage' = stage \ {t} /\ Return(t, res[t]) /\ Succeed
       \/ /\ Fail
          /\ Return(t, IF res[t] = "reused" THEN "error" ELSE res[t])
          /\ UNCHANGED stage
    /\ UNCHANGED <<tree, target, backup>> /\ Rest

(***************************************************************************)
(* Commit to a vacant destination.                                         *)
(***************************************************************************)
Commit(t) ==
    /\ pc[t] = "staging"
    /\ staged[t] = Len(plan[t].files)
    /\ Goto(t, "lstat")
    /\ Succeed /\ UNCHANGED fsVars /\ Rest

\* os.Lstat(target)
Lstat(t) ==
    /\ pc[t] = "lstat"
    /\ \/ Goto(t, IF target = Absent THEN "renameNew" ELSE "list") /\ Succeed
       \/ Fail /\ Discard(t, "error")
    /\ UNCHANGED fsVars /\ Rest

\* os.Rename refuses a directory that exists, an empty one too.
RenameNew(t) ==
    /\ pc[t] = "renameNew"
    /\ \/ /\ target = Absent
          /\ target' = t
          /\ stage' = stage \ {t}
          /\ Goto(t, "syncNew")
          /\ Succeed
       \/ /\ \/ target # Absent /\ Succeed
             \/ Fail
          /\ Discard(t, "error")
          /\ UNCHANGED <<target, stage>>
    /\ UNCHANGED <<tree, backup>> /\ Rest

SyncNew(t) ==
    /\ pc[t] = "syncNew"
    /\ \/ published' = published \cup {t} /\ Return(t, "ok") /\ Succeed
       \/ Fail /\ Goto(t, "removeNew") /\ UNCHANGED published
    /\ UNCHANGED <<plan, staged, fsVars, walkVars, doomed, turns, crashes>>

(***************************************************************************)
(* os.RemoveAll opens the directory that has the name, removes its files   *)
(* one at a time, then whatever empty directory has the name by now; a     *)
(* failure leaves what is not removed yet.                                 *)
(***************************************************************************)
Named(t) == IF pc[t] = "removeBackup" THEN backup[t] ELSE target
Victim(t) == IF doomed[t] = Absent THEN Named(t) ELSE doomed[t]
Cleared(d) == IF d = Absent THEN TRUE ELSE tree[d] = EmptyTree

RemoveFile(t) ==
    /\ pc[t] \in {"removeNew", "removeTarget", "removeBackup"}
    /\ ~Cleared(Victim(t))
    /\ tree' = [tree EXCEPT ![Victim(t)] = Restrict(@, DOMAIN @ \ {Min(DOMAIN @)})]
    /\ doomed' = [doomed EXCEPT ![t] = Victim(t)]
    /\ Succeed
    /\ UNCHANGED <<pc, plan, staged, target, stage, backup, walkVars, published, res, turns, crashes>>

\* The rollback of a destination that could not be synced.
RemoveTarget(t) ==
    /\ pc[t] \in {"removeNew", "removeTarget"}
    /\ \/ /\ Cleared(Victim(t)) /\ Cleared(target)
          /\ target' = Absent
          /\ IF pc[t] = "removeNew" THEN Return(t, "error") ELSE Goto(t, "reinstate")
          /\ Succeed
       \/ /\ \/ Succeed /\ Cleared(Victim(t)) /\ ~Cleared(target)
             \/ Fail
          /\ Return(t, "error")
          /\ UNCHANGED target
    /\ UNCHANGED <<tree, stage, backup>> /\ Rest

(***************************************************************************)
(* equalTrees lists the destination, then reads its files by path one at a *)
(* time: each read sees the directory that is there at that moment.        *)
(***************************************************************************)
ListTarget(t) ==
    /\ pc[t] = "list"
    /\ \/ /\ target # Absent
          /\ listed' = [listed EXCEPT ![t] = DOMAIN tree[target]]
          /\ Goto(t, "read")
          /\ Succeed
       \/ /\ \/ target = Absent /\ Succeed
             \/ Fail
          /\ Discard(t, "error")
          /\ UNCHANGED listed
    /\ UNCHANGED <<plan, staged, fsVars, entries, doomed, published, turns, crashes>>

FilesAt(d) == IF d = Absent THEN EmptyTree ELSE tree[d]

ReadEntry(t) ==
    /\ pc[t] = "read"
    /\ listed[t] # {}
    /\ LET f == Min(listed[t]) IN
       \/ /\ f \in DOMAIN FilesAt(target)
          /\ entries' = [entries EXCEPT ![t] =
                [g \in DOMAIN @ \cup {f} |-> IF g = f THEN FilesAt(target)[f] ELSE @[g]]]
          /\ listed' = [listed EXCEPT ![t] = @ \ {f}]
          /\ UNCHANGED <<pc, res>>
          /\ Succeed
       \/ /\ \/ Succeed /\ f \notin DOMAIN FilesAt(target)
             \/ Fail
          /\ Discard(t, "error")
          /\ UNCHANGED walkVars
    /\ UNCHANGED <<plan, staged, fsVars, doomed, published, turns, crashes>>

\* A variant with a bug: Force is not required.
CompareIgnoresForce(t) ==
    /\ pc[t] = "read"
    /\ listed[t] = {}
    /\ IF entries[t] = tree[t] THEN Discard(t, "reused") ELSE Goto(t, "backup")
    /\ Succeed /\ UNCHANGED fsVars /\ Rest
\* The trees are equal, or Force decides.
Compare(t) ==
    /\ pc[t] = "read"
    /\ listed[t] = {}
    /\ CASE entries[t] = tree[t] -> Discard(t, "reused")
         [] entries[t] # tree[t] /\ ~plan[t].force -> Discard(t, "collision")
         [] OTHER -> Goto(t, "backup")
    /\ Succeed /\ UNCHANGED fsVars /\ Rest

(***************************************************************************)
(* Commit with Force over a differing destination.                         *)
(***************************************************************************)
\* A variant with a bug: the old tree is removed first.
BackupByRemoval(t) ==
    /\ pc[t] = "backup"
    /\ target' = Absent
    /\ Goto(t, "replace")
    /\ Succeed /\ UNCHANGED <<tree, stage, backup>> /\ Rest
\* os.Rename(target, backup)
Backup(t) ==
    /\ pc[t] = "backup"
    /\ \/ /\ target # Absent
          /\ backup' = [backup EXCEPT ![t] = target]
          /\ target' = Absent
          /\ Goto(t, "replace")
          /\ Succeed
       \/ /\ \/ target = Absent /\ Succeed
             \/ Fail
          /\ Discard(t, "error")
          /\ UNCHANGED <<target, backup>>
    /\ UNCHANGED <<tree, stage>> /\ Rest

Replace(t) ==
    /\ pc[t] = "replace"
    /\ \/ /\ target = Absent
          /\ target' = t
          /\ stage' = stage \ {t}
          /\ Goto(t, "sync")
          /\ Succeed
       \/ /\ \/ target # Absent /\ Succeed
             \/ Fail
          /\ Goto(t, "restore")
          /\ UNCHANGED <<target, stage>>
    /\ UNCHANGED <<tree, backup>> /\ Rest

\* A variant with a bug: the backup is not put back.
RestoreSkipped(t) ==
    /\ pc[t] \in {"restore", "reinstate"}
    /\ IF pc[t] = "restore" THEN Discard(t, "error") ELSE Return(t, "error")
    /\ Succeed /\ UNCHANGED fsVars /\ Rest
\* The failed staged rename is undone, and the stage removed; after a failed
\* sync the removed destination is restored, and there is no stage left.
Restore(t) ==
    /\ pc[t] \in {"restore", "reinstate"}
    /\ \/ /\ target = Absent
          /\ target' = backup[t]
          /\ backup' = [backup EXCEPT ![t] = Absent]
          /\ Succeed
       \/ /\ \/ target # Absent /\ Succeed
             \/ Fail
          /\ UNCHANGED <<target, backup>>
    /\ IF pc[t] = "restore" THEN Discard(t, "error") ELSE Return(t, "error")
    /\ UNCHANGED <<tree, stage>> /\ Rest

Sync(t) ==
    /\ pc[t] = "sync"
    /\ \/ published' = published \cup {t} /\ Goto(t, "removeBackup") /\ Succeed
       \/ Fail /\ Goto(t, "removeTarget") /\ UNCHANGED published
    /\ UNCHANGED <<plan, staged, fsVars, walkVars, doomed, turns, crashes>>

\* A backup that cannot be removed is an error although the tree is published.
RemoveBackup(t) ==
    /\ pc[t] = "removeBackup"
    /\ \/ /\ Cleared(backup[t])
          /\ backup' = [backup EXCEPT ![t] = Absent]
          /\ Return(t, "ok")
          /\ Succeed
       \/ Fail /\ Return(t, "error") /\ UNCHANGED backup
    /\ UNCHANGED <<tree, target, stage>> /\ Rest

Crash(t) ==
    /\ pc[t] \in Running
    /\ crashes < MaxCrashes
    /\ crashes' = crashes + 1
    /\ pc' = [pc EXCEPT ![t] = "dead"]
    /\ UNCHANGED <<plan, staged, fsVars, walkVars, doomed, published, res, turns, faults>>

Step(t) ==
    \/ BeginDir(t) \/ Stage(t) \/ Rollback(t) \/ RemoveStage(t)
    \/ Commit(t) \/ Lstat(t) \/ RenameNew(t) \/ SyncNew(t)
    \/ RemoveFile(t) \/ RemoveTarget(t)
    \/ ListTarget(t) \/ ReadEntry(t) \/ Compare(t)
    \/ Backup(t) \/ Replace(t) \/ Restore(t) \/ Sync(t) \/ RemoveBackup(t)
    \/ Crash(t)

\* The tree of t reaches the destination.
Arrive(t) ==
    /\ arrivals' = arrivals + 1
    /\ arrival' = [arrival EXCEPT ![t] = arrivals + 1]

Next ==
    \E t \in Transactions :
        /\ Step(t)
        /\ IF pc'[t] \in {"syncNew", "sync"} /\ pc[t] # pc'[t] THEN Arrive(t) ELSE UNCHANGED history

Spec == Init /\ [][Next]_vars

----------------------------------------------------------------------------
(***************************************************************************)
(* Properties.                                                             *)
(***************************************************************************)
TypeOK ==
    /\ pc \in [Transactions -> Running \cup {"idle", "done", "dead"}]
    /\ plan \in [Transactions -> [files : Plans, force : BOOLEAN]]
    /\ staged \in [Transactions -> Nat]
    /\ tree \in [Dirs -> Trees]
    /\ target \in Names
    /\ stage \subseteq Transactions
    /\ backup \in [Transactions -> Names]
    /\ listed \in [Transactions -> SUBSET Files]
    /\ entries \in [Transactions -> Trees]
    /\ doomed \in [Transactions -> Names]
    /\ published \subseteq Transactions
    /\ res \in [Transactions -> Results]
    /\ arrival \in [Transactions -> Nat] /\ arrivals \in Nat
    /\ turns \in BOOLEAN
    /\ faults \in Nat /\ crashes \in Nat

Proposed(t) == PlanTree(plan[t].files)
Whole(d) == tree[d] = IF d = Old THEN OldTree ELSE Proposed(d)

\* The destination is never a partly staged or partly replaced tree, nor is a
\* backup before a newer tree is published, however transactions interleave and
\* wherever a process dies, as long as no system call fails (DirTransaction
\* "publishes it with one rename").
TreesAreWhole ==
    faults = 0 =>
        /\ target # Absent => Whole(target)
        /\ \A t \in Transactions : backup[t] # Absent /\ t \notin published => Whole(backup[t])

\* Once a whole tree is published it stays, at the destination or at a
\* backup, until a newer one is published (Commit: "a differing destination
\* ... is backed up until the staged rename succeeds").  Transactions that
\* overlap are promised it until a system call fails, and those that take
\* turns whatever fails.
Kept == \E d \in published \cup {Old} :
           Whole(d) /\ d \in {target} \cup {backup[t] : t \in Transactions}
PublishedTreeSurvives == [][(turns \/ faults' = 0) /\ Kept => Kept']_vars

\* A transaction that returned without a fault leaves no stage, and none that
\* succeeded leaves a backup.
NoLitter ==
    faults = 0 =>
        \A t \in Transactions : pc[t] = "done" =>
            t \notin stage /\ (res[t] # "error" => backup[t] = Absent)

\* Commit reports reuse only of a tree that some transaction published or
\* that was there at the start ("An identical destination is reused").
ReuseIsIdentical ==
    \A t \in Transactions : res[t] = "reused" =>
        \/ Proposed(t) = OldTree
        \/ \E x \in Transactions \ {t} : Proposed(t) = Proposed(x)

\* A transaction without Force never touches the tree of another at the
\* destination, neither its name nor its files, whatever fails: it writes only
\* to a vacant destination and takes away only what it put there.  When
\* transactions overlap one step is beyond this promise, the removal by name of
\* a destination whose directory could not be synced (artifactio.go:411).
NoForceLeavesOthers ==
    [][\A t \in Transactions :
          Step(t) /\ ~plan[t].force /\ (turns \/ pc[t] # "removeNew") =>
              target \in {Absent, t} \/ (target' = target /\ tree'[target] = tree[target])]_vars

----------------------------------------------------------------------------
(***************************************************************************)
(* The register that callers who take turns see.  A published tree is      *)
(* stored even when the removal of the backup makes Commit return an error.*)
(***************************************************************************)
Hold(d) == IF d = Absent THEN Absent ELSE tree[d]

Uncommitted(t) ==
    pc[t] \in {"syncNew", "removeNew", "replace", "restore", "sync",
               "removeTarget", "reinstate"}

value ==
    IF \E t \in Transactions : Uncommitted(t)
    THEN Hold(backup[CHOOSE t \in Transactions : Uncommitted(t)])
    ELSE Hold(target)

request == [t \in Transactions |-> [data |-> Proposed(t), force |-> plan[t].force]]

reply ==
    [t \in Transactions |->
        CASE t \in published -> "ok"
          [] t \notin published /\ pc[t] # "done" -> "none"
          [] t \notin published /\ pc[t] = "done" /\ res[t] = "rolledback" -> "error"
          [] OTHER -> res[t]]

Register == INSTANCE ArtifactRegister
    WITH Callers <- Transactions, Contents <- Trees, Vacant <- Absent,
         Requests <- [data : Trees, force : BOOLEAN]

\* Transactions that take turns see the atomic register of trees (Commit
\* "publishes it with one rename").  A second failing system call may leave
\* the destination half removed (RemoveAll in Commit's error paths) and a
\* crash cuts it short, so it is promised up to one fault and no crash.
TurnsAreAtomic ==
    /\ Register!Init
    /\ [][turns /\ faults' <= 1 /\ crashes' = 0
              => [Register!Next]_(Register!vars)]_vars
====
