---- MODULE DirTransaction_proofs ----
(***************************************************************************)
(* Any number of transactions, with any plans, interleave and die          *)
(* anywhere: while no system call fails, the destination is one whole      *)
(* tree, every backup is whole until a newer tree is published, and no     *)
(* published tree is lost.  Whatever fails, a transaction without Force    *)
(* touches the tree of no other one, but for the rollback of overlapping   *)
(* transactions.  Those that take turns lose no tree whatever fails, and   *)
(* implement the atomic register.                                          *)
(***************************************************************************)
EXTENDS DirTransaction, WellFoundedInduction, TLAPS

Early == {"idle", "staging"}

Stock ==
    /\ plan \in [Transactions -> [files : Plans, force : BOOLEAN]]
    /\ staged \in [Transactions -> Nat]
    /\ tree = [d \in Dirs |-> tree[d]]

\* A stage holds the files that were staged, none of which contradict.
Partial(t) ==
    /\ staged[t] <= Len(plan[t].files)
    /\ tree[t] = [f \in DOMAIN tree[t] |-> tree[t][f]]
    /\ DOMAIN tree[t] = {plan[t].files[i].name : i \in 1..staged[t]}
    /\ \A i \in 1..staged[t] : tree[t][plan[t].files[i].name] = plan[t].files[i].data

Placed(d) == d = target \/ \E t \in Transactions : backup[t] = d

(***************************************************************************)
(* Committed plans.                                                        *)
(***************************************************************************)
LEMMA LeastElement == ASSUME NEW S \in SUBSET Nat, S # {} PROVE Min(S) \in S
<1>1. PICK x \in S : \A y \in S : ~(<<y, x>> \in OpToRel(<, Nat))
    BY NatLessThanWellFounded, WFMin
<1>2. \A y \in S : ~(y < x)
    BY <1>1 DEF OpToRel
<1>3. \A y \in S : x <= y
    BY <1>2
<1> QED BY <1>3 DEF Min

\* A stage that holds the whole plan is the tree of the plan.
LEMMA PlanIsWhole ==
    ASSUME NEW t \in Transactions, Stock, Partial(t), staged[t] = Len(plan[t].files)
    PROVE  Whole(t)
<1> DEFINE files == plan[t].files
           At(f) == {i \in DOMAIN files : files[i].name = f}
<1>1. files \in Seq([name : Files, data : Data])
    BY PlanAssumption DEF Stock
<1>2. DOMAIN files = 1..Len(files) /\ Len(files) \in Nat
    BY <1>1
<1>3. DOMAIN tree[t] = {files[i].name : i \in DOMAIN files}
    BY <1>2 DEF Partial
<1>4. ASSUME NEW f \in DOMAIN tree[t] PROVE tree[t][f] = files[Min(At(f))].data
  <2>1. At(f) \in SUBSET Nat /\ At(f) # {}
      BY <1>2, <1>3
  <2>2. Min(At(f)) \in At(f)
      BY <2>1, LeastElement
  <2> QED BY <1>2, <2>2 DEF Partial
<1>5. t # Old
    BY DirAssumption
<1> QED BY <1>3, <1>4, <1>5 DEF Partial, Whole, Proposed, PlanTree

\* The next file of a plan joins a stage it does not contradict.
Joins(t) ==
    /\ UNCHANGED plan /\ staged[t] < Len(plan[t].files)
    /\ LET file == plan[t].files[staged[t] + 1] IN
          /\ ~(file.name \in DOMAIN tree[t] /\ tree[t][file.name] # file.data)
          /\ tree' = [tree EXCEPT ![t] = [f \in DOMAIN tree[t] \cup {file.name} |->
                         IF f = file.name THEN file.data ELSE tree[t][f]]]
    /\ staged' = [staged EXCEPT ![t] = staged[t] + 1]

LEMMA StagedIsPartial ==
    ASSUME NEW t \in Transactions, Stock, Partial(t), Joins(t)
    PROVE  Partial(t)'
<1> DEFINE file == plan[t].files[staged[t] + 1]
<1>1. /\ tree'[t] = [f \in DOMAIN tree[t] \cup {file.name} |->
                        IF f = file.name THEN file.data ELSE tree[t][f]]
      /\ staged'[t] = staged[t] + 1 /\ staged[t] \in Nat
    BY DEF Joins, Stock, Dirs
<1>2. Len(plan[t].files) \in Nat
  <2>1. plan[t].files \in Seq([name : Files, data : Data])
      BY PlanAssumption DEF Stock
  <2> QED BY <2>1
<1>3. \A i \in 1..staged[t] + 1 : i \in 1..staged[t] \/ i = staged[t] + 1
  <2>1. staged[t] \in Nat
      BY DEF Stock
  <2> QED BY <2>1
<1>4. staged'[t] <= Len(plan'[t].files)
  <2>1. staged[t] < Len(plan[t].files) /\ plan' = plan
      BY DEF Joins
  <2>2. staged'[t] = staged[t] + 1 /\ staged[t] \in Nat
      BY <1>1
  <2> QED BY <1>2, <2>1, <2>2
<1>5. DOMAIN tree'[t] = {plan[t].files[i].name : i \in 1..staged[t] + 1}
  <2>1. DOMAIN tree'[t] = DOMAIN tree[t] \cup {file.name}
      BY <1>1
  <2> QED BY <1>1, <1>3, <2>1 DEF Partial
<1>6. ASSUME NEW i \in 1..staged[t] + 1
      PROVE  tree'[t][plan[t].files[i].name] = plan[t].files[i].data
  <2> DEFINE f == plan[t].files[i].name
             d == plan[t].files[i].data
  <2>1. CASE i = staged[t] + 1
      BY <1>1, <2>1
  <2>2. CASE i \in 1..staged[t]
    <3>1. f \in DOMAIN tree[t] /\ tree[t][f] = d
        BY <2>2 DEF Partial
    <3>2. f = file.name => d = file.data
        BY <3>1 DEF Joins
    <3> HIDE DEF f, d, file
    <3>3. tree'[t][f] = d
        BY <1>1, <3>1, <3>2
    <3> QED BY <3>3 DEF f, d
  <2> QED BY <1>3, <2>1, <2>2
<1>7. tree'[t] = [f \in DOMAIN tree'[t] |-> tree'[t][f]]
    BY <1>1
<1>8. 1..staged'[t] = 1..staged[t] + 1 /\ plan' = plan
    BY <1>1 DEF Joins
<1> HIDE DEF file
<1> QED BY <1>4, <1>5, <1>6, <1>7, <1>8 DEF Partial
LEMMA Stutter ==
    UNCHANGED vars => UNCHANGED <<pc, plan, staged, tree, target, stage, backup, listed, entries,
                                  doomed, published, res, arrival, arrivals, turns, faults, crashes>>
BY DEF vars, fsVars, walkVars, history

----------------------------------------------------------------------------
(***************************************************************************)
(* Types, whatever fails.                                                  *)
(***************************************************************************)
Pcs == Running \cup {"idle", "done", "dead"}

LEMMA IsTree == ASSUME NEW S \in SUBSET Files, NEW tr \in [S -> Data] PROVE tr \in Trees
BY DEF Trees

LEMMA TreeIs == ASSUME NEW tr \in Trees PROVE DOMAIN tr \in SUBSET Files /\ tr \in [DOMAIN tr -> Data]
BY DEF Trees

LEMMA TreesShrink ==
    ASSUME NEW tr \in Trees, NEW S \in SUBSET DOMAIN tr
    PROVE  Restrict(tr, S) \in Trees
<1>1. Restrict(tr, S) \in [S -> Data] /\ S \in SUBSET Files
    BY TreeIs DEF Restrict
<1> QED BY <1>1, IsTree

LEMMA TreesGrow ==
    ASSUME NEW tr \in Trees, NEW f \in Files, NEW d \in Data
    PROVE  [g \in DOMAIN tr \cup {f} |-> IF g = f THEN d ELSE tr[g]] \in Trees
<1> DEFINE S == DOMAIN tr \cup {f}
<1>1. [g \in S |-> IF g = f THEN d ELSE tr[g]] \in [S -> Data] /\ S \in SUBSET Files
    BY TreeIs
<1> HIDE DEF S
<1>2. [g \in S |-> IF g = f THEN d ELSE tr[g]] \in Trees
    BY <1>1, IsTree
<1> QED BY <1>2 DEF S

LEMMA FileOfPlan ==
    ASSUME NEW files \in Seq([name : Files, data : Data]), NEW i \in 1..Len(files)
    PROVE  files[i].name \in Files /\ files[i].data \in Data
<1> DEFINE File == [name : Files, data : Data]
<1>1. files \in Seq(File)
    OBVIOUS
<1> HIDE DEF File
<1>2. files[i] \in File
    BY <1>1
<1> QED BY <1>2 DEF File

LEMMA EmptyIsTree == EmptyTree \in Trees
<1>1. EmptyTree \in [{} -> Data] /\ {} \in SUBSET Files
    BY DEF EmptyTree
<1> QED BY <1>1, IsTree

\* What a step of transaction t leaves alone: what the others own.
Moves(t) ==
    /\ \E step \in Pcs : pc' = [pc EXCEPT ![t] = step]
    /\ \E r \in Results : res' = [res EXCEPT ![t] = r]
    /\ UNCHANGED <<plan, turns>>
    /\ faults' \in {faults, faults + 1}
    /\ crashes' \in {crashes, crashes + 1}
    /\ published' \in {published, published \cup {t}}

Holds(t) ==
    /\ target' \in Names /\ stage' \subseteq Transactions
    /\ \E b \in Names : backup' = [backup EXCEPT ![t] = b]
    /\ \E b \in Names : doomed' = [doomed EXCEPT ![t] = b]

Reads(t) ==
    /\ \E n \in Nat : staged' = [staged EXCEPT ![t] = n]
    /\ \E S \in SUBSET Files : listed' = [listed EXCEPT ![t] = S]
    /\ \E tr \in Trees : entries' = [entries EXCEPT ![t] = tr]

LEMMA StepMoves == ASSUME TypeOK, NEW t \in Transactions, Step(t) PROVE Moves(t)
<1>0. pc[t] \in Pcs /\ res[t] \in Results /\ pc = [pc EXCEPT ![t] = pc[t]] /\ res = [res EXCEPT ![t] = res[t]]
    BY DEF TypeOK, Pcs
<1> USE <1>0 DEF Moves, Goto, Return, Discard, Succeed, Fail, Rest
<1>1. CASE BeginDir(t)
    BY <1>1 DEF BeginDir, Results, Pcs, Running
<1>2. CASE Stage(t) \/ Rollback(t)
    BY <1>2 DEF Stage, Rollback, Results, Pcs, Running
<1>3. CASE RemoveStage(t)
    BY <1>3 DEF RemoveStage, Results, Pcs, Running
<1>4. CASE Commit(t) \/ Lstat(t) \/ RenameNew(t)
    BY <1>4 DEF Commit, Lstat, RenameNew, Results, Pcs, Running
<1>5. CASE SyncNew(t) \/ Sync(t)
    BY <1>5 DEF SyncNew, Sync, Results, Pcs, Running
<1>6. CASE RemoveFile(t)
    BY <1>6 DEF RemoveFile
<1>7. CASE RemoveTarget(t)
    BY <1>7 DEF RemoveTarget, Results, Pcs, Running
<1>8. CASE ListTarget(t) \/ ReadEntry(t)
    BY <1>8 DEF ListTarget, ReadEntry, Results, Pcs, Running, walkVars
<1>9. CASE Compare(t)
    BY <1>9 DEF Compare, Results, Pcs, Running
<1>10. CASE Backup(t) \/ Replace(t)
    BY <1>10 DEF Backup, Replace, Results, Pcs, Running
<1>11. CASE Restore(t)
    BY <1>11 DEF Restore, Results, Pcs, Running
<1>12. CASE RemoveBackup(t)
    BY <1>12 DEF RemoveBackup, Results, Pcs, Running
<1>13. CASE Crash(t)
    BY <1>13 DEF Crash, Pcs
<1> QED BY <1>1, <1>2, <1>3, <1>4, <1>5, <1>6, <1>7, <1>8, <1>9, <1>10, <1>11, <1>12, <1>13 DEF Step

LEMMA StepHolds == ASSUME TypeOK, NEW t \in Transactions, Step(t) PROVE Holds(t)
<1>0. /\ backup[t] \in Names /\ backup = [backup EXCEPT ![t] = backup[t]]
      /\ doomed[t] \in Names /\ doomed = [doomed EXCEPT ![t] = doomed[t]]
      /\ target \in Names /\ stage \subseteq Transactions /\ t \in Names /\ Absent \in Names
    BY DEF TypeOK, Names, Dirs
<1> USE <1>0 DEF Holds, Rest, fsVars
<1>1. CASE BeginDir(t) \/ Stage(t) \/ Rollback(t) \/ RemoveStage(t)
    BY <1>1 DEF BeginDir, Stage, Rollback, RemoveStage
<1>2. CASE Commit(t) \/ Lstat(t) \/ SyncNew(t) \/ Sync(t)
    BY <1>2 DEF Commit, Lstat, SyncNew, Sync
<1>3. CASE RenameNew(t) \/ Backup(t) \/ Replace(t)
    BY <1>3 DEF RenameNew, Backup, Replace
<1>4. CASE RemoveFile(t) \/ RemoveTarget(t)
    BY <1>4 DEF RemoveFile, RemoveTarget, Victim, Named
<1>5. CASE ListTarget(t) \/ ReadEntry(t) \/ Compare(t) \/ Crash(t)
    BY <1>5 DEF ListTarget, ReadEntry, Compare, Crash
<1>6. CASE Restore(t) \/ RemoveBackup(t)
    BY <1>6 DEF Restore, RemoveBackup
<1> QED BY <1>1, <1>2, <1>3, <1>4, <1>5, <1>6 DEF Step

LEMMA StepReads == ASSUME TypeOK, NEW t \in Transactions, Step(t) PROVE Reads(t)
<1>0. /\ staged[t] \in Nat /\ staged[t] + 1 \in Nat /\ staged = [staged EXCEPT ![t] = staged[t]]
      /\ listed[t] \in SUBSET Files /\ listed = [listed EXCEPT ![t] = listed[t]]
      /\ entries[t] \in Trees /\ entries = [entries EXCEPT ![t] = entries[t]]
      /\ \A d \in Dirs : tree[d] \in Trees
    BY DEF TypeOK
<1> USE DEF Reads, Rest, walkVars
<1>1. CASE ListTarget(t)
  <2>1. UNCHANGED <<staged, listed, entries>> \/ (target \in Dirs /\ UNCHANGED <<staged, entries>>
            /\ listed' = [listed EXCEPT ![t] = DOMAIN tree[target]])
      BY <1>1 DEF ListTarget, TypeOK, Names
  <2>2. target \in Dirs => DOMAIN tree[target] \in SUBSET Files
      BY <1>0, TreeIs
  <2> QED BY <1>0, <2>1, <2>2
<1>2. CASE ReadEntry(t)
  <2> DEFINE f == Min(listed[t])
             here == FilesAt(target)
  <2>1. CASE UNCHANGED <<staged, listed, entries>>
      BY <1>0, <2>1
  <2>2. CASE /\ f \in DOMAIN here /\ UNCHANGED staged
             /\ entries' = [entries EXCEPT ![t] = [g \in DOMAIN entries[t] \cup {f} |->
                              IF g = f THEN here[f] ELSE entries[t][g]]]
             /\ listed' = [listed EXCEPT ![t] = listed[t] \ {f}]
    <3>1. here \in Trees
        BY <1>0, EmptyIsTree DEF FilesAt, TypeOK, Names
    <3>2. f \in Files /\ here[f] \in Data
        BY <2>2, <3>1, TreeIs
    <3> HIDE DEF f, here
    <3>3. [g \in DOMAIN entries[t] \cup {f} |-> IF g = f THEN here[f] ELSE entries[t][g]] \in Trees
        BY <1>0, <3>2, TreesGrow
    <3>4. listed[t] \ {f} \in SUBSET Files
        BY <1>0
    <3> QED BY <1>0, <2>2, <3>3, <3>4
  <2> QED BY <1>2, <2>1, <2>2 DEF ReadEntry
<1>3. CASE Stage(t)
    BY <1>0, <1>3 DEF Stage
<1>4. CASE BeginDir(t) \/ Rollback(t) \/ RemoveStage(t) \/ Commit(t) \/ Lstat(t) \/ RenameNew(t)
    BY <1>0, <1>4 DEF BeginDir, Rollback, RemoveStage, Commit, Lstat, RenameNew
<1>5. CASE SyncNew(t) \/ Sync(t) \/ RemoveFile(t) \/ RemoveTarget(t) \/ Compare(t) \/ Crash(t)
    BY <1>0, <1>5 DEF SyncNew, Sync, RemoveFile, RemoveTarget, Compare, Crash
<1>6. CASE Backup(t) \/ Replace(t) \/ Restore(t) \/ RemoveBackup(t)
    BY <1>0, <1>6 DEF Backup, Replace, Restore, RemoveBackup
<1> QED BY <1>1, <1>2, <1>3, <1>4, <1>5, <1>6 DEF Step

Removing == {"removeNew", "removeTarget", "removeBackup"}

\* The directories whose files a step changes.
Changes(t, d) == \E tr \in Trees : tree' = [tree EXCEPT ![d] = tr]

LEMMA StepChanges ==
    ASSUME TypeOK, NEW t \in Transactions, Step(t)
    PROVE  \/ UNCHANGED tree
           \/ pc[t] = "staging" /\ Changes(t, t)
           \/ pc[t] \in Removing /\ Victim(t) \in Dirs /\ Changes(t, Victim(t))
<1>0. \A d \in Dirs : tree[d] \in Trees
    BY DEF TypeOK
<1> USE DEF Changes
<1>1. CASE Stage(t)
  <2> DEFINE file == plan[t].files[staged[t] + 1]
             grown == [f \in DOMAIN tree[t] \cup {file.name} |-> IF f = file.name THEN file.data ELSE tree[t][f]]
  <2>1. pc[t] = "staging" /\ (UNCHANGED tree \/ tree' = [tree EXCEPT ![t] = grown])
      BY <1>1 DEF Stage
  <2>2. file.name \in Files /\ file.data \in Data
    <3>1. plan[t].files \in Seq([name : Files, data : Data]) /\ staged[t] \in Nat
        BY PlanAssumption DEF TypeOK
    <3>2. staged[t] < Len(plan[t].files)
        BY <1>1 DEF Stage
    <3>3. staged[t] + 1 \in 1..Len(plan[t].files)
        BY <3>1, <3>2
    <3> QED BY <3>1, <3>3, FileOfPlan
  <2>3. tree[t] \in Trees
      BY <1>0 DEF Dirs
  <2> HIDE DEF file
  <2>4. grown \in Trees
      BY <2>2, <2>3, TreesGrow
  <2> QED BY <2>1, <2>4
<1>2. CASE RemoveFile(t)
  <2> DEFINE v == Victim(t)
             left == DOMAIN tree[v] \ {Min(DOMAIN tree[v])}
  <2>1. v \in Dirs
    <3>1. v \in Names
        BY DEF Victim, Named, TypeOK
    <3> QED BY <1>2, <3>1 DEF RemoveFile, Cleared, Names
  <2>2. pc[t] \in Removing /\ tree' = [tree EXCEPT ![v] = Restrict(tree[v], left)]
      BY <1>2 DEF RemoveFile, Removing
  <2>3. Restrict(tree[v], left) \in Trees
      BY <1>0, <2>1, TreesShrink
  <2> QED BY <2>1, <2>2, <2>3
<1>3. CASE \/ BeginDir(t) \/ Rollback(t) \/ RemoveStage(t) \/ Commit(t) \/ Lstat(t) \/ RenameNew(t)
           \/ SyncNew(t) \/ Sync(t) \/ RemoveTarget(t) \/ ListTarget(t) \/ ReadEntry(t) \/ Compare(t)
           \/ Backup(t) \/ Replace(t) \/ Restore(t) \/ RemoveBackup(t) \/ Crash(t)
    BY <1>3 DEF BeginDir, Rollback, RemoveStage, Commit, Lstat, RenameNew, SyncNew, Sync, RemoveTarget,
       ListTarget, ReadEntry, Compare, Backup, Replace, Restore, RemoveBackup, Crash, Rest, fsVars
<1> QED BY <1>1, <1>2, <1>3 DEF Step

\* Type correctness: every variable keeps its type.
THEOREM TypeCorrect == Spec => []TypeOK
<1>1. Init => TypeOK
  <2> SUFFICES ASSUME Init PROVE TypeOK
      OBVIOUS
  <2>1. tree \in [Dirs -> Trees] /\ entries \in [Transactions -> Trees]
      BY EmptyIsTree, FileAssumption DEF Init
  <2>2. target \in Names /\ backup \in [Transactions -> Names] /\ doomed \in [Transactions -> Names]
      BY DEF Init, Names, Dirs
  <2> QED BY <2>1, <2>2 DEF Init, TypeOK, Results
<1>2. TypeOK /\ [Next]_vars => TypeOK'
  <2> SUFFICES ASSUME TypeOK, [Next]_vars PROVE TypeOK'
      OBVIOUS
  <2>1. ASSUME NEW t \in Transactions, Step(t), Arrive(t) \/ UNCHANGED history PROVE TypeOK'
    <3>1. arrival' \in [Transactions -> Nat] /\ arrivals' \in Nat
        BY <2>1 DEF TypeOK, Arrive, history
    <3>2. tree' \in [Dirs -> Trees]
        BY <2>1, StepChanges DEF Changes, TypeOK
    <3>3. /\ pc' \in [Transactions -> Pcs] /\ res' \in [Transactions -> Results]
          /\ plan' \in [Transactions -> [files : Plans, force : BOOLEAN]] /\ turns' \in BOOLEAN
          /\ published' \subseteq Transactions
        BY <2>1, StepMoves DEF Moves, TypeOK, Pcs
    <3>4. faults' \in Nat /\ crashes' \in Nat
        BY <2>1, StepMoves DEF Moves, TypeOK
    <3>5. /\ target' \in Names /\ stage' \subseteq Transactions
          /\ backup' \in [Transactions -> Names] /\ doomed' \in [Transactions -> Names]
        BY <2>1, StepHolds DEF Holds, TypeOK
    <3>6. /\ staged' \in [Transactions -> Nat] /\ listed' \in [Transactions -> SUBSET Files]
          /\ entries' \in [Transactions -> Trees]
        BY <2>1, StepReads DEF Reads, TypeOK
    <3> QED BY <3>1, <3>2, <3>3, <3>4, <3>5, <3>6 DEF TypeOK, Pcs
  <2>2. CASE UNCHANGED vars
      BY <2>2, Stutter DEF TypeOK
  <2> QED BY <2>1, <2>2 DEF Next
<1> QED BY <1>1, <1>2, PTL DEF Spec

----------------------------------------------------------------------------
(***************************************************************************)
(* Stages, whatever fails.  A stage that is not published yet has no name  *)
(* that another transaction can reach, so it is what was staged; the       *)
(* destination that a Force transaction moved away is at its backup until  *)
(* the transaction is over.                                                *)
(***************************************************************************)
Preparing == {"lstat", "renameNew", "list", "read", "backup", "replace", "restore"}
Replacing == {"replace", "restore", "sync", "removeTarget", "reinstate", "removeBackup"}
Arrived == {"syncNew", "removeNew", "sync", "removeTarget", "reinstate", "removeBackup", "done",
            "dead"}

Open(d) == Placed(d) \/ \E t \in Transactions : doomed[t] = d

Stands(t) ==
    /\ Open(t) => pc[t] \in Arrived
    /\ t \in published => pc[t] \in {"removeBackup", "done", "dead"}
    /\ pc[t] = "removeBackup" => t \in published
    /\ pc[t] \in Replacing => backup[t] \in Dirs \ {t}
    /\ pc[t] \in Replacing \cup {"backup"} => plan[t].force
    /\ pc[t] \in Pcs \ (Replacing \cup {"discard", "done", "dead"}) => backup[t] = Absent
    /\ pc[t] \in Pcs \ (Removing \cup {"reinstate", "done", "dead"}) => doomed[t] = Absent
    /\ pc[t] = "removeBackup" => doomed[t] \in {Absent, backup[t]}
    /\ pc[t] = "discard" => res[t] \in {"error", "rolledback", "reused", "collision"}

Sound(t) ==
    /\ pc[t] \in Early => Partial(t)
    /\ pc[t] \in Preparing => Whole(t)

Prepared == \A t \in Transactions : Stands(t) /\ Sound(t)

Local(t) ==
    /\ \A x \in Transactions : x # t =>
          /\ pc'[x] = pc[x] /\ res'[x] = res[x] /\ staged'[x] = staged[x]
          /\ listed'[x] = listed[x] /\ entries'[x] = entries[x]
          /\ backup'[x] = backup[x] /\ doomed'[x] = doomed[x]
          /\ (x \in published' <=> x \in published)
    /\ UNCHANGED <<plan, turns>>
    /\ pc'[t] \in Pcs

LEMMA StepIsLocal == ASSUME TypeOK, NEW t \in Transactions, Step(t) PROVE Local(t)
<1>1. \A x \in Transactions : x # t =>
          /\ pc'[x] = pc[x] /\ res'[x] = res[x] /\ (x \in published' <=> x \in published)
    BY StepMoves DEF TypeOK, Moves
<1>2. \A x \in Transactions : x # t => backup'[x] = backup[x] /\ doomed'[x] = doomed[x]
    BY StepHolds DEF TypeOK, Holds
<1>3. \A x \in Transactions : x # t =>
          staged'[x] = staged[x] /\ listed'[x] = listed[x] /\ entries'[x] = entries[x]
    BY StepReads DEF TypeOK, Reads
<1>4. UNCHANGED <<plan, turns>> /\ pc'[t] \in Pcs
    BY StepMoves DEF TypeOK, Moves
<1> QED BY <1>1, <1>2, <1>3, <1>4 DEF Local

\* A directory gets a name at the destination when its own transaction
\* publishes it, and never again.
LEMMA StepOpens ==
    ASSUME TypeOK, NEW t \in Transactions, Step(t), NEW d \in Dirs, Open(d)', ~Open(d)
    PROVE  d = t /\ pc[t] \in {"renameNew", "replace"} /\ pc'[t] \in {"syncNew", "sync"} /\ target' = t
<1>0. d # Absent /\ backup \in [Transactions -> Names] /\ doomed \in [Transactions -> Names]
      /\ pc \in [Transactions -> Pcs]
    BY DirAssumption DEF TypeOK, Pcs
<1>1. d # target /\ \A x \in Transactions : backup[x] # d /\ doomed[x] # d
    BY DEF Open, Placed
<1>2. d = target' \/ \E x \in Transactions : backup'[x] = d \/ doomed'[x] = d
    BY DEF Open, Placed
<1>3. \A x \in Transactions : x # t => backup'[x] # d /\ doomed'[x] # d
    BY <1>1, StepIsLocal DEF Local
<1>4. d = target' \/ backup'[t] = d \/ doomed'[t] = d
    BY <1>2, <1>3
<1> USE <1>0, <1>1, <1>4
<1>5. CASE RenameNew(t)
    BY <1>5 DEF RenameNew, Goto, Rest
<1>6. CASE Replace(t)
    BY <1>6 DEF Replace, Goto, Rest
<1>7. CASE RemoveFile(t) \/ RemoveTarget(t)
    BY <1>7 DEF RemoveFile, RemoveTarget, Victim, Named, Rest
<1>8. CASE Backup(t) \/ Restore(t) \/ RemoveBackup(t)
    BY <1>8 DEF Backup, Restore, RemoveBackup, Rest
<1>9. CASE ~(\/ RenameNew(t) \/ Replace(t) \/ RemoveFile(t) \/ RemoveTarget(t) \/ Backup(t)
             \/ Restore(t) \/ RemoveBackup(t))
  <2>1. UNCHANGED <<target, backup, doomed>>
      BY <1>9 DEF Step, BeginDir, Stage, Rollback, RemoveStage, Commit, Lstat, SyncNew, ListTarget,
         ReadEntry, Compare, Sync, Crash, Rest, fsVars
  <2> QED BY <2>1
<1> QED BY <1>5, <1>6, <1>7, <1>8, <1>9

\* A directory whose files a step of t changes is its own stage, or has a name.
LEMMA StepTouches ==
    ASSUME TypeOK, NEW t \in Transactions, Step(t), NEW d \in Dirs, tree'[d] # tree[d]
    PROVE  \/ pc[t] = "staging" /\ d = t
           \/ pc[t] \in Removing /\ d = Victim(t)
<1>1. \A v : Changes(t, v) => d = v
    BY DEF Changes, TypeOK
<1> QED BY <1>1, StepChanges

LEMMA VictimIsOpen == ASSUME NEW t \in Transactions PROVE Open(Victim(t))
BY DEF Victim, Named, Open, Placed

LEMMA StandsStep == ASSUME TypeOK, Prepared, [Next]_vars PROVE \A x \in Transactions : Stands(x)'
<1>1. ASSUME NEW t \in Transactions, Step(t) PROVE \A x \in Transactions : Stands(x)'
  <2>0. Local(t)
      BY <1>1, StepIsLocal
  <2>a. ASSUME NEW x \in Transactions, x # t PROVE Stands(x)'
    <3>1. Open(x)' => Open(x)
        BY <1>1, <2>a, StepOpens DEF Dirs
    <3> HIDE DEF Arrived, Replacing, Removing, Pcs
    <3> QED BY <2>0, <2>a, <3>1 DEF Prepared, Stands, Local
  <2>b. Stands(t)'
    <3>0. /\ Stands(t) /\ pc \in [Transactions -> Pcs] /\ backup \in [Transactions -> Names]
          /\ res \in [Transactions -> Results] /\ backup[t] \in Names
          /\ doomed \in [Transactions -> Names]
          /\ UNCHANGED plan /\ pc'[t] \in Pcs /\ target \in Names /\ Absent \notin Dirs
        BY <2>0, DirAssumption DEF Prepared, TypeOK, Pcs, Local
    <3>1. Open(t)' => Open(t) \/ pc'[t] \in {"syncNew", "sync"}
        BY <1>1, StepOpens DEF Dirs
    <3> DEFINE After ==
           /\ pc[t] \in Arrived => pc'[t] \in Arrived
           /\ t \in published' => pc'[t] \in {"removeBackup", "done", "dead"}
           /\ pc'[t] = "removeBackup" => t \in published'
           /\ pc'[t] \in Replacing => backup'[t] \in Dirs \ {t}
           /\ pc'[t] \in Replacing \cup {"backup"} => plan'[t].force
           /\ pc'[t] \in Pcs \ (Replacing \cup {"discard", "done", "dead"}) => backup'[t] = Absent
           /\ pc'[t] \in Pcs \ (Removing \cup {"reinstate", "done", "dead"}) => doomed'[t] = Absent
           /\ pc'[t] = "removeBackup" => doomed'[t] \in {Absent, backup'[t]}
           /\ pc'[t] = "discard" => res'[t] \in {"error", "rolledback", "reused", "collision"}
    <3>2. After
      <4> USE <3>0 DEF Stands, Goto, Return, Discard, Rest, fsVars, Arrived, Replacing, Removing
      <4>1. CASE BeginDir(t) \/ Stage(t) \/ Rollback(t) \/ RemoveStage(t) \/ Commit(t) \/ Lstat(t)
          BY <4>1 DEF BeginDir, Stage, Rollback, RemoveStage, Commit, Lstat
      <4>2. CASE RenameNew(t) \/ SyncNew(t)
          BY <4>2 DEF RenameNew, SyncNew
      <4>3. CASE RemoveFile(t) \/ RemoveTarget(t)
          BY <4>3 DEF RemoveFile, RemoveTarget, Victim, Named
      <4>4. CASE ListTarget(t) \/ ReadEntry(t) \/ Compare(t)
          BY <4>4 DEF ListTarget, ReadEntry, Compare
      <4>5. CASE Backup(t)
          BY <4>5 DEF Backup, Names, Open, Placed
      <4>6. CASE Replace(t) \/ Restore(t) \/ Sync(t)
          BY <4>6 DEF Replace, Restore, Sync
      <4>7. CASE RemoveBackup(t)
          BY <4>7 DEF RemoveBackup
      <4>8. CASE Crash(t)
          BY <4>8 DEF Crash, Running
      <4> QED BY <1>1, <4>1, <4>2, <4>3, <4>4, <4>5, <4>6, <4>7, <4>8 DEF Step
    <3> QED BY <3>0, <3>1, <3>2 DEF Stands, Arrived
  <2> QED BY <2>a, <2>b
<1>2. CASE UNCHANGED vars
  <2>1. \A x : Open(x)' <=> Open(x)
      BY <1>2, Stutter DEF Open, Placed
  <2> QED BY <1>2, <2>1, Stutter DEF Prepared, Stands
<1> QED BY <1>1, <1>2 DEF Next

LEMMA SoundStep == ASSUME TypeOK, Prepared, [Next]_vars PROVE \A x \in Transactions : Sound(x)'
<1>0. Stock
    BY DEF TypeOK, Stock
<1>1. ASSUME NEW t \in Transactions, Step(t) PROVE \A x \in Transactions : Sound(x)'
  <2>0. Local(t)
      BY <1>1, StepIsLocal
  <2>w. ASSUME NEW x \in Transactions, tree'[x] = tree[x] PROVE Whole(x)' <=> Whole(x)
      BY <2>0, <2>w DEF Local, Whole, Proposed
  <2>p. ASSUME NEW x \in Transactions, tree'[x] = tree[x], staged'[x] = staged[x]
        PROVE  Partial(x)' <=> Partial(x)
      BY <2>0, <2>p DEF Local, Partial
  <2>o. \A x \in Transactions : pc[x] \in Early \cup Preparing => ~Open(x)
      BY DEF Prepared, Stands, Arrived, Early, Preparing
  <2>a. ASSUME NEW x \in Transactions, x # t PROVE Sound(x)'
    <3>1. pc[x] \in Early \cup Preparing => tree'[x] = tree[x]
        BY <1>1, <2>a, <2>o, StepTouches, VictimIsOpen DEF Dirs
    <3> HIDE DEF Early, Preparing
    <3> QED BY <2>0, <2>a, <2>w, <2>p, <3>1 DEF Prepared, Sound, Local
  <2>b. Sound(t)'
    <3>0. Sound(t) /\ pc \in [Transactions -> Pcs] /\ t \in Dirs
        BY DEF Prepared, TypeOK, Pcs, Dirs
    <3>1. CASE Stage(t)
      <4>1. pc[t] = "staging" /\ Partial(t)
          BY <3>0, <3>1 DEF Stage, Sound, Early
      <4>2. CASE Discard(t, "rolledback")
          BY <3>0, <4>2 DEF Discard, Sound, Early, Preparing
      <4>3. CASE Joins(t) /\ UNCHANGED pc
        <5>1. Partial(t)'
            BY <1>0, <4>1, <4>3, StagedIsPartial
        <5> QED BY <4>1, <4>3, <5>1 DEF Sound, Preparing
      <4> QED BY <3>1, <4>2, <4>3 DEF Stage, Joins
    <3>2. CASE Commit(t)
      <4>1. pc'[t] = "lstat" /\ UNCHANGED tree /\ Whole(t)
          BY <1>0, <3>0, <3>2, PlanIsWhole DEF Commit, Goto, Sound, Early, fsVars
      <4> QED BY <2>w, <4>1 DEF Sound, Early
    <3>3. CASE ~Stage(t) /\ ~Commit(t)
      <4>1. /\ pc'[t] \in Early => pc[t] \in Early /\ staged'[t] = staged[t]
            /\ pc'[t] \in Preparing => pc[t] \in Preparing
        <5> USE <3>0, <3>3 DEF Early, Preparing, Goto, Return, Discard, Rest
        <5>1. CASE \/ BeginDir(t) \/ Rollback(t) \/ RemoveStage(t) \/ Lstat(t) \/ RenameNew(t) \/ SyncNew(t)
            BY <5>1 DEF BeginDir, Rollback, RemoveStage, Lstat, RenameNew, SyncNew
        <5>2. CASE \/ RemoveFile(t) \/ RemoveTarget(t) \/ ListTarget(t) \/ ReadEntry(t) \/ Compare(t)
            BY <5>2 DEF RemoveFile, RemoveTarget, ListTarget, ReadEntry, Compare
        <5>3. CASE \/ Backup(t) \/ Replace(t) \/ Restore(t) \/ Sync(t) \/ RemoveBackup(t) \/ Crash(t)
            BY <5>3 DEF Backup, Replace, Restore, Sync, RemoveBackup, Crash
        <5> QED BY <1>1, <5>1, <5>2, <5>3 DEF Step
      <4>2. pc[t] \in Early \cup Preparing => tree'[t] = tree[t]
        <5>1. pc[t] # "staging" \/ UNCHANGED tree
            BY <1>1, <3>3 DEF Step, BeginDir, Rollback, RemoveStage, Lstat, RenameNew, SyncNew,
               RemoveFile, RemoveTarget, ListTarget, ReadEntry, Compare, Backup, Replace, Restore, Sync,
               RemoveBackup, Crash, Rest, fsVars
        <5> QED BY <1>1, <2>o, <3>0, <5>1, StepTouches, VictimIsOpen
      <4> HIDE DEF Early, Preparing
      <4> QED BY <2>w, <2>p, <3>0, <4>1, <4>2 DEF Sound
    <3> QED BY <3>1, <3>2, <3>3
  <2> QED BY <2>a, <2>b
<1>2. CASE UNCHANGED vars
  <2>1. \A x : (Whole(x)' <=> Whole(x)) /\ (Partial(x)' <=> Partial(x))
      BY <1>2, Stutter DEF Whole, Partial, Proposed
  <2> QED BY <1>2, <2>1, Stutter DEF Prepared, Sound
<1> QED BY <1>1, <1>2 DEF Next

LEMMA PreparedCorrect == Spec => []Prepared
<1>1. Init => Prepared
  <2> SUFFICES ASSUME Init, NEW t \in Transactions PROVE Stands(t) /\ Sound(t)
      BY DEF Prepared
  <2>1. /\ pc[t] = "idle" /\ tree[t] = EmptyTree /\ staged[t] = 0 /\ t \notin published
        /\ backup[t] = Absent /\ doomed[t] = Absent /\ ~Open(t)
      BY DirAssumption DEF Init, Open, Placed, Dirs
  <2>2. Len(plan[t].files) \in Nat
    <3>1. plan[t].files \in Seq([name : Files, data : Data])
        BY PlanAssumption DEF Init
    <3> QED BY <3>1
  <2>3. Partial(t)
      BY <2>1, <2>2 DEF Partial, EmptyTree
  <2> QED BY <2>1, <2>3 DEF Stands, Sound, Replacing, Preparing
<1>2. TypeOK /\ Prepared /\ [Next]_vars => Prepared'
    BY StandsStep, SoundStep DEF Prepared
<1> QED BY <1>1, <1>2, TypeCorrect, PTL DEF Spec

----------------------------------------------------------------------------
(***************************************************************************)
(* Transactions that take turns run one at a time, so the one that runs    *)
(* knows what is at the destination; only its own failed sync makes it     *)
(* remove a tree, and that tree is its own.                                *)
(***************************************************************************)
Alone == turns => \A x, y \in Transactions : pc[x] \in Running /\ pc[y] \in Running => x = y

LEMMA StepRuns ==
    ASSUME NEW t \in Transactions, Step(t)
    PROVE  pc[t] \in Running \/ (turns => \A x \in Transactions : pc[x] \notin Running)
BY DEF Step, BeginDir, Stage, Rollback, RemoveStage, Commit, Lstat, RenameNew, SyncNew, RemoveFile,
   RemoveTarget, ListTarget, ReadEntry, Compare, Backup, Replace, Restore, Sync, RemoveBackup, Crash,
   Running

LEMMA AloneCorrect == Spec => []Alone
<1>1. Init => Alone
    BY DEF Init, Alone, Running
<1>2. TypeOK /\ Alone /\ [Next]_vars => Alone'
  <2> SUFFICES ASSUME TypeOK, Alone, [Next]_vars PROVE Alone'
      OBVIOUS
  <2>1. ASSUME NEW t \in Transactions, Step(t) PROVE Alone'
    <3>1. Local(t)
        BY <2>1, StepIsLocal
    <3>2. pc[t] \in Running \/ (turns => \A x \in Transactions : pc[x] \notin Running)
        BY <2>1, StepRuns
    <3> HIDE DEF Running
    <3> QED BY <3>1, <3>2 DEF Local, Alone
  <2>2. CASE UNCHANGED vars
      BY <2>2, Stutter DEF Alone
  <2> QED BY <2>1, <2>2 DEF Next
<1> QED BY <1>1, <1>2, TypeCorrect, PTL DEF Spec

Turn(t) ==
    /\ pc[t] \in {"syncNew", "removeNew", "sync", "removeTarget", "removeBackup"} => target = t
    /\ pc[t] \in {"renameNew", "replace", "restore", "reinstate"} => target = Absent
    /\ pc[t] \in {"list", "read", "backup"} => target # Absent
    /\ pc[t] \in {"removeNew", "removeTarget"} => doomed[t] \in {Absent, t}
    /\ pc[t] \in {"removeNew", "removeTarget", "reinstate", "restore"} => faults # 0
InTurn == turns => \A t \in Transactions : Turn(t)

LEMMA InTurnStep == ASSUME TypeOK, Prepared, Alone, InTurn, [Next]_vars PROVE InTurn'
<1>1. ASSUME NEW t \in Transactions, Step(t) PROVE InTurn'
  <2> SUFFICES ASSUME turns, turns' PROVE \A x \in Transactions : Turn(x)'
      BY <1>1, StepIsLocal DEF InTurn, Local
  <2>0. Local(t) /\ Turn(t) /\ Stands(t) /\ pc \in [Transactions -> Pcs] /\ t # Absent /\ doomed \in [Transactions -> Names]
      BY <1>1, StepIsLocal, DirAssumption DEF InTurn, Prepared, TypeOK, Pcs, Dirs
  <2>a. ASSUME NEW x \in Transactions, x # t PROVE Turn(x)'
    <3>1. pc[t] \in Running \/ \A y \in Transactions : pc[y] \notin Running
        BY <1>1, StepRuns
    <3>2. pc'[x] \notin Running /\ doomed'[x] = doomed[x] /\ Turn(x)
      <4> HIDE DEF Running
      <4> QED BY <2>0, <2>a, <3>1 DEF Alone, Local, InTurn
    <3> QED BY <3>2 DEF Turn, Running
  <2>n. faults \in Nat /\ (Fail => faults' # 0) /\ (faults # 0 => faults' # 0)
    <3>1. faults \in Nat /\ faults' \in {faults, faults + 1}
        BY <1>1, StepMoves DEF TypeOK, Moves
    <3> QED BY <3>1 DEF Fail
  <2>b. Turn(t)'
    <3> USE <2>0, <2>n DEF Turn, Goto, Return, Discard, Rest, fsVars, Succeed
    <3>1. CASE BeginDir(t) \/ Stage(t) \/ Rollback(t) \/ RemoveStage(t) \/ Commit(t) \/ Lstat(t)
        BY <3>1 DEF BeginDir, Stage, Rollback, RemoveStage, Commit, Lstat
    <3>2. CASE RenameNew(t) \/ SyncNew(t)
        BY <3>2 DEF RenameNew, SyncNew, Stands, Pcs, Running, Removing
    <3>3. CASE RemoveFile(t) \/ RemoveTarget(t)
        BY <3>3 DEF RemoveFile, RemoveTarget, Victim, Named
    <3>4. CASE ListTarget(t) \/ ReadEntry(t) \/ Compare(t)
        BY <3>4 DEF ListTarget, ReadEntry, Compare
    <3>5. CASE Backup(t)
        BY <3>5 DEF Backup
    <3>6. CASE Replace(t)
        BY <3>6 DEF Replace
    <3>7. CASE Restore(t)
        BY <3>7 DEF Restore
    <3>8. CASE Sync(t)
        BY <3>8 DEF Sync, Stands, Pcs, Running, Removing
    <3>9. CASE RemoveBackup(t) \/ Crash(t)
        BY <3>9 DEF RemoveBackup, Crash
    <3> QED BY <1>1, <3>1, <3>2, <3>3, <3>4, <3>5, <3>6, <3>7, <3>8, <3>9 DEF Step
  <2> QED BY <2>a, <2>b
<1>2. CASE UNCHANGED vars
    BY <1>2, Stutter DEF InTurn, Turn
<1> QED BY <1>1, <1>2 DEF Next

LEMMA InTurnCorrect == Spec => []InTurn
<1>1. Init => InTurn
    BY DEF Init, InTurn, Turn
<1> QED BY <1>1, InTurnStep, TypeCorrect, PreparedCorrect, AloneCorrect, PTL DEF Spec

\* Whatever fails, a transaction without Force changes neither the name nor
\* the files of another one's tree at the destination; the removal after a
\* failed sync takes its own tree away when transactions take turns.
THEOREM ForceCorrect == Spec => NoForceLeavesOthers
<1>1. TypeOK /\ Prepared /\ InTurn /\ [Next]_vars =>
        [\A t \in Transactions :
            Step(t) /\ ~plan[t].force /\ (turns \/ pc[t] # "removeNew") =>
                target \in {Absent, t} \/ (target' = target /\ tree'[target] = tree[target])]_vars
  <2> SUFFICES ASSUME TypeOK, Prepared, InTurn, NEW t \in Transactions, Step(t), ~plan[t].force,
                      turns \/ pc[t] # "removeNew", target \notin {Absent, t}
               PROVE  target' = target /\ tree'[target] = tree[target]
      OBVIOUS
  <2>1. Stands(t) /\ target \in Dirs
      BY DEF Prepared, TypeOK, Names
  <2>2. pc[t] \notin Replacing \cup Removing \cup {"backup"}
    <3>1. pc[t] \notin Replacing \cup {"backup"}
        BY <2>1 DEF Stands
    <3>2. pc[t] # "removeNew"
        BY DEF InTurn, Turn
    <3> QED BY <3>1, <3>2 DEF Replacing, Removing
  <2>3. tree'[target] = tree[target]
      BY <2>1, <2>2, StepTouches
  <2>4. target' = target
      BY <2>2 DEF Step, BeginDir, Stage, Rollback, RemoveStage, Commit, Lstat, RenameNew, SyncNew,
         RemoveFile, RemoveTarget, ListTarget, ReadEntry, Compare, Backup, Replace, Restore, Sync,
         RemoveBackup, Crash, fsVars, Replacing, Removing
  <2> QED BY <2>3, <2>4
<1> QED BY <1>1, TypeCorrect, PreparedCorrect, InTurnCorrect, PTL DEF Spec, NoForceLeavesOthers

\* The tree that a transaction has put at the destination is whole until its
\* failed sync makes it remove it.
WholeInTurn ==
    turns => \A t \in Transactions : pc[t] \in {"syncNew", "sync", "removeBackup"} => Whole(t)

LEMMA WholeInTurnStep ==
    ASSUME TypeOK, Prepared, Alone, InTurn, WholeInTurn, [Next]_vars
    PROVE  WholeInTurn'
<1>1. ASSUME NEW t \in Transactions, Step(t) PROVE WholeInTurn'
  <2> SUFFICES ASSUME turns, NEW x \in Transactions, pc'[x] \in {"syncNew", "sync", "removeBackup"}
               PROVE  Whole(x)'
      BY <1>1, StepIsLocal DEF WholeInTurn, Local
  <2>0. Local(t) /\ Stands(t) /\ Sound(t) /\ Turn(t) /\ pc \in [Transactions -> Pcs]
      BY <1>1, StepIsLocal DEF Prepared, InTurn, TypeOK, Pcs
  <2>1. x = t
    <3>1. pc[t] \in Running \/ \A y \in Transactions : pc[y] \notin Running
        BY <1>1, StepRuns
    <3>2. pc'[x] \in Running
        BY DEF Running
    <3> HIDE DEF Running
    <3> QED BY <2>0, <3>1, <3>2 DEF Alone, Local
  <2>2. /\ pc[t] \in {"renameNew", "replace", "syncNew", "sync", "removeBackup"}
        /\ ~RemoveFile(t) => UNCHANGED tree
    <3> USE <2>0, <2>1 DEF Goto, Return, Discard
    <3>1. CASE RenameNew(t) \/ Replace(t) \/ SyncNew(t) \/ Sync(t)
        BY <3>1 DEF RenameNew, Replace, SyncNew, Sync, fsVars
    <3>2. CASE BeginDir(t) \/ Stage(t) \/ Rollback(t) \/ RemoveStage(t) \/ Commit(t) \/ Lstat(t)
        BY <3>2 DEF BeginDir, Stage, Rollback, RemoveStage, Commit, Lstat
    <3>3. CASE RemoveTarget(t) \/ ListTarget(t) \/ ReadEntry(t) \/ Compare(t)
        BY <3>3 DEF RemoveTarget, ListTarget, ReadEntry, Compare
    <3>4. CASE Backup(t) \/ Restore(t) \/ RemoveBackup(t) \/ Crash(t)
        BY <3>4 DEF Backup, Restore, RemoveBackup, Crash
    <3>5. CASE RemoveFile(t)
        BY <3>5 DEF RemoveFile
    <3> QED BY <1>1, <3>1, <3>2, <3>3, <3>4, <3>5 DEF Step
  <2>3. Whole(t)
      BY <2>0, <2>2 DEF Sound, Preparing, WholeInTurn
  \* What t removes after it has published is its backup, not its own tree.
  <2>4. tree'[t] = tree[t]
    <3>1. CASE ~RemoveFile(t)
        BY <2>2, <3>1
    <3>2. CASE RemoveFile(t)
      <4>1. pc[t] = "removeBackup" /\ Victim(t) # t
        <5>1. pc[t] = "removeBackup"
            BY <2>2, <3>2 DEF RemoveFile
        <5> QED BY <2>0, <5>1, DirAssumption DEF Stands, Replacing, Victim, Named
      <4> QED BY <1>1, <4>1, StepTouches DEF Dirs
    <3> QED BY <3>1, <3>2
  <2> QED BY <2>0, <2>1, <2>3, <2>4 DEF Whole, Proposed, Local
<1>2. CASE UNCHANGED vars
    BY <1>2, Stutter DEF WholeInTurn, Whole, Proposed
<1> QED BY <1>1, <1>2 DEF Next

LEMMA WholeInTurnCorrect == Spec => []WholeInTurn
<1>1. Init => WholeInTurn
    BY DEF Init, WholeInTurn
<1> QED BY <1>1, WholeInTurnStep, TypeCorrect, PreparedCorrect, AloneCorrect, InTurnCorrect, PTL DEF Spec

----------------------------------------------------------------------------
(***************************************************************************)
(* While no system call fails.  Every directory has one name.  Once a      *)
(* transaction has published, the tree it keeps as its backup is being     *)
(* removed; every other directory that has a name is whole, for it was     *)
(* whole when its own transaction renamed it, and no one writes to it.     *)
(***************************************************************************)
Shown(d) == d = target \/ \E t \in Transactions \ published : backup[t] = d

\* What a transaction still has beside the destination.
Private(t) ==
    /\ pc[t] \in {"syncNew", "sync", "removeBackup", "done"} => t \notin stage
    /\ backup[t] # Absent /\ pc[t] \in {"discard", "done"} => res[t] = "error"

Apart(t) ==
    /\ pc[t] \notin {"removeNew", "removeTarget", "reinstate"}
    /\ backup[t] # Absent => backup[t] # target /\ \A x \in Transactions : backup[x] = backup[t] => x = t
    /\ doomed[t] # Absent => ~Shown(doomed[t])

Clean ==
    /\ \A t \in Transactions : Apart(t) /\ Private(t)
    /\ \A d \in Dirs : Shown(d) => Whole(d)
\* After the first failing system call no more is claimed.
IInv == faults = 0 => Clean

LEMMA ShownIsOpen == ASSUME NEW d, Shown(d) PROVE Open(d)
BY DEF Shown, Open, Placed

\* A directory comes to be shown when its own transaction publishes it, and
\* is shown until the transaction that has it as its backup is published.
LEMMA ShownStep ==
    ASSUME TypeOK, Prepared, Clean, NEW t \in Transactions, Step(t), ~Fail, NEW d \in Dirs
    PROVE  /\ Shown(d)' /\ ~Shown(d) =>
                  d = t /\ pc[t] \in {"renameNew", "replace"} /\ pc'[t] \in {"syncNew", "sync"}
           /\ Shown(d) /\ ~Shown(d)' =>
                  pc[t] = "sync" /\ d = backup[t] /\ backup'[t] = backup[t] /\ t \in published'
<1>0. /\ d # Absent /\ Stands(t) /\ Apart(t) /\ Local(t) /\ pc \in [Transactions -> Pcs]
      /\ backup \in [Transactions -> Names]
    BY StepIsLocal, DirAssumption DEF Prepared, Clean, TypeOK, Pcs
<1>1. Shown(d) <=> d = target \/ (t \notin published /\ backup[t] = d)
                    \/ \E x \in Transactions \ published : x # t /\ backup[x] = d
    BY DEF Shown
<1>2. Shown(d)' <=> d = target' \/ (t \notin published' /\ backup'[t] = d)
                     \/ \E x \in Transactions \ published : x # t /\ backup[x] = d
    BY <1>0 DEF Shown, Local
<1> HIDE DEF Shown
<1> USE <1>0, <1>1, <1>2 DEF Rest, fsVars, Goto
<1>3. CASE RenameNew(t) \/ Replace(t)
    BY <1>3 DEF RenameNew, Replace
<1>4. CASE Backup(t)
    BY <1>4 DEF Backup, Stands, Replacing, Pcs, Running
<1>5. CASE Restore(t)
    BY <1>5 DEF Restore, Stands, Replacing, Apart
<1>6. CASE Sync(t)
    BY <1>6 DEF Sync, Stands
<1>7. CASE SyncNew(t)
    BY <1>7 DEF SyncNew, Stands, Pcs, Running, Replacing
<1>8. CASE RemoveBackup(t)
    BY <1>8 DEF RemoveBackup, Stands
<1>9. CASE ~(RenameNew(t) \/ Replace(t) \/ Backup(t) \/ Restore(t) \/ Sync(t) \/ SyncNew(t) \/ RemoveBackup(t))
  <2>1. UNCHANGED <<target, backup, published>>
      BY <1>9 DEF Step, BeginDir, Stage, Rollback, RemoveStage, Commit, Lstat, RemoveFile, RemoveTarget,
         ListTarget, ReadEntry, Compare, Crash, Apart
  <2> QED BY <2>1
<1> QED BY <1>3, <1>4, <1>5, <1>6, <1>7, <1>8, <1>9

\* What a step without a fault removes is not shown.
LEMMA VictimIsHidden ==
    ASSUME TypeOK, Prepared, Clean, NEW t \in Transactions, pc[t] \in Removing, Victim(t) # Absent
    PROVE  ~Shown(Victim(t))
<1>1. pc[t] = "removeBackup" /\ t \in published /\ Apart(t) /\ Stands(t)
    BY DEF Clean, Apart, Removing, Prepared, Stands
<1>2. CASE doomed[t] # Absent
    BY <1>1, <1>2 DEF Apart, Victim
<1>3. CASE doomed[t] = Absent
  <2>1. Victim(t) = backup[t] /\ backup[t] # target
      BY <1>1, <1>3 DEF Victim, Named, Apart
  <2> QED BY <1>1, <2>1 DEF Shown, Apart
<1> QED BY <1>2, <1>3

LEMMA PrivateStep ==
    ASSUME TypeOK, Prepared, Clean, NEW t \in Transactions, Step(t), ~Fail, NEW x \in Transactions
    PROVE  Private(x)'
<1>0. /\ Stands(t) /\ Apart(t) /\ Private(t) /\ Private(x) /\ Local(t) /\ pc \in [Transactions -> Pcs]
      /\ backup \in [Transactions -> Names] /\ res \in [Transactions -> Results]
    BY StepIsLocal DEF Prepared, Clean, TypeOK, Pcs
<1>1. CASE x # t
  <2>1. x \in stage' => x \in stage
      BY <1>1 DEF Step, BeginDir, Stage, Rollback, RemoveStage, Commit, Lstat, RenameNew, SyncNew,
         RemoveFile, RemoveTarget, ListTarget, ReadEntry, Compare, Backup, Replace, Restore, Sync,
         RemoveBackup, Crash, Rest, fsVars
  <2> QED BY <1>0, <1>1, <2>1 DEF Private, Local
<1>2. CASE x = t
  <2> USE <1>0, <1>2 DEF Rest, fsVars, Goto, Return, Discard, Private, Stands, Pcs, Running, Replacing
  <2>1. CASE BeginDir(t) \/ Stage(t) \/ Rollback(t) \/ RemoveStage(t) \/ Commit(t) \/ Lstat(t)
      BY <2>1 DEF BeginDir, Stage, Rollback, RemoveStage, Commit, Lstat
  <2>2. CASE RenameNew(t) \/ SyncNew(t)
      BY <2>2 DEF RenameNew, SyncNew
  <2>3. CASE RemoveFile(t) \/ RemoveTarget(t)
      BY <2>3 DEF RemoveFile, RemoveTarget, Apart
  <2>4. CASE ListTarget(t) \/ ReadEntry(t) \/ Compare(t)
      BY <2>4 DEF ListTarget, ReadEntry, Compare
  <2>5. CASE Backup(t) \/ Replace(t) \/ Restore(t)
      BY <2>5 DEF Backup, Replace, Restore, Apart
  <2>6. CASE Sync(t) \/ RemoveBackup(t) \/ Crash(t)
      BY <2>6 DEF Sync, RemoveBackup, Crash
  <2> QED BY <2>1, <2>2, <2>3, <2>4, <2>5, <2>6 DEF Step
<1> QED BY <1>1, <1>2

LEMMA ApartStep ==
    ASSUME TypeOK, TypeOK', Prepared, Clean, NEW t \in Transactions, Step(t), ~Fail, NEW x \in Transactions
    PROVE  Apart(x)'
<1>0. /\ Stands(t) /\ Apart(t) /\ Apart(x) /\ Local(t) /\ pc \in [Transactions -> Pcs]
      /\ backup \in [Transactions -> Names] /\ doomed \in [Transactions -> Names] /\ target \in Names
      /\ Absent \notin Dirs /\ t \in Dirs
    BY StepIsLocal, DirAssumption DEF Prepared, Clean, TypeOK, Pcs, Dirs
<1>1. \A y \in Transactions : y # t => backup'[y] = backup[y] /\ doomed'[y] = doomed[y] /\ pc'[y] = pc[y]
    BY <1>0 DEF Local
<1>2. \A y, z \in Transactions : backup[y] # Absent =>
          backup[y] # target /\ (backup[z] = backup[y] => z = y)
    BY DEF Clean, Apart
<1>3. pc'[x] \notin {"removeNew", "removeTarget", "reinstate"}
  <2> USE <1>0, <1>1 DEF Goto, Return, Discard, Apart
  <2>1. CASE BeginDir(t) \/ Stage(t) \/ Rollback(t) \/ RemoveStage(t) \/ Commit(t) \/ Lstat(t)
      BY <2>1 DEF BeginDir, Stage, Rollback, RemoveStage, Commit, Lstat
  <2>2. CASE RenameNew(t) \/ SyncNew(t) \/ Sync(t)
      BY <2>2 DEF RenameNew, SyncNew, Sync
  <2>3. CASE RemoveFile(t) \/ RemoveTarget(t)
      BY <2>3 DEF RemoveFile, RemoveTarget
  <2>4. CASE ListTarget(t) \/ ReadEntry(t) \/ Compare(t)
      BY <2>4 DEF ListTarget, ReadEntry, Compare
  <2>5. CASE Backup(t) \/ Replace(t) \/ Restore(t) \/ RemoveBackup(t) \/ Crash(t)
      BY <2>5 DEF Backup, Replace, Restore, RemoveBackup, Crash
  <2> QED BY <2>1, <2>2, <2>3, <2>4, <2>5 DEF Step
\* A new tree at the destination was nowhere before.
<1>4. \A y \in Transactions : pc[t] \in {"renameNew", "replace"} => backup[y] # t
    BY <1>0 DEF Stands, Open, Placed, Arrived
<1>5. \A y, z \in Transactions : backup'[y] # Absent =>
          backup'[y] # target' /\ (backup'[z] = backup'[y] => z = y)
  <2> USE <1>0, <1>1, <1>2, <1>4 DEF Rest, fsVars
  <2>1. CASE RenameNew(t) \/ Replace(t)
      BY <2>1 DEF RenameNew, Replace
  <2>2. CASE Backup(t)
    <3>1. CASE backup' = [backup EXCEPT ![t] = target] /\ target' = Absent
        BY <3>1
    <3> QED BY <2>2, <3>1 DEF Backup
  <2>3. CASE Restore(t)
    <3>1. CASE target' = backup[t] /\ backup' = [backup EXCEPT ![t] = Absent]
        BY <3>1
    <3> QED BY <2>3, <3>1 DEF Restore
  <2>4. CASE RemoveBackup(t)
      BY <2>4 DEF RemoveBackup
  <2>5. CASE ~(RenameNew(t) \/ Replace(t) \/ Backup(t) \/ Restore(t) \/ RemoveBackup(t))
    <3>1. UNCHANGED <<target, backup>>
        BY <2>5 DEF Step, BeginDir, Stage, Rollback, RemoveStage, Commit, Lstat, RemoveFile, RemoveTarget,
           ListTarget, ReadEntry, Compare, Crash, Sync, SyncNew, Apart
    <3> QED BY <3>1
  <2> QED BY <2>1, <2>2, <2>3, <2>4, <2>5
<1>6. \A d \in Dirs : doomed'[x] = d => ~Shown(d)'
  <2> SUFFICES ASSUME NEW d \in Dirs, doomed'[x] = d PROVE ~Shown(d)'
      OBVIOUS
  <2>2. ~Shown(d) /\ Open(d)
    <3>1. CASE doomed[x] = d
        BY <1>0, <3>1 DEF Apart, Open
    <3>2. CASE doomed[x] # d
      <4>1. x = t /\ RemoveFile(t)
        <5>1. doomed' # doomed
            BY <3>2
        <5>2. RemoveFile(t)
            BY <5>1 DEF Step, BeginDir, Stage, Rollback, RemoveStage, Commit, Lstat, RenameNew, SyncNew,
               RemoveTarget, ListTarget, ReadEntry, Compare, Backup, Replace, Restore, Sync,
               RemoveBackup, Crash, Rest
        <5> QED BY <1>1, <3>2, <5>2
      <4>2. pc[t] \in Removing /\ d = Victim(t)
          BY <1>0, <4>1 DEF RemoveFile, Removing
      <4> QED BY <1>0, <4>2, VictimIsHidden, VictimIsOpen
    <3> QED BY <3>1, <3>2
  <2>3. Shown(d)' => d = t /\ pc[t] \in {"renameNew", "replace"}
      BY <2>2, ShownStep
  <2>4. ~(d = t /\ pc[t] \in {"renameNew", "replace"})
      BY <1>0, <2>2 DEF Stands, Arrived
  <2> QED BY <2>3, <2>4
<1>7. doomed'[x] \in Names
    BY DEF TypeOK
<1> QED BY <1>3, <1>5, <1>6, <1>7 DEF Apart, Shown, Names

LEMMA NextKeeps == ASSUME TypeOK, TypeOK', Prepared, IInv, [Next]_vars PROVE IInv'
<1>1. ASSUME NEW t \in Transactions, Step(t), faults' = 0 PROVE Clean'
  <2>1. faults = 0 /\ ~Fail
    <3>1. faults \in Nat /\ faults' \in {faults, faults + 1}
        BY <1>1, StepMoves DEF TypeOK, Moves
    <3> QED BY <1>1, <3>1 DEF Fail
  <2>2. Clean
      BY <2>1 DEF IInv
  <2>3. \A x \in Transactions : Apart(x)' /\ Private(x)'
      BY <1>1, <2>1, <2>2, ApartStep, PrivateStep
  <2>4. ASSUME NEW d \in Dirs, Shown(d)' PROVE Whole(d)'
    <3>1. Local(t) /\ Stands(t) /\ Sound(t)
        BY <1>1, StepIsLocal DEF Prepared
    <3>2. CASE Shown(d)
      <4>1. tree'[d] = tree[d]
        <5>1. d = t => pc[t] # "staging"
            BY <3>1, <3>2, ShownIsOpen DEF Stands, Arrived
        <5>2. pc[t] \in Removing => d # Victim(t)
            BY <2>2, <3>2, VictimIsHidden, DirAssumption
        <5> QED BY <1>1, <5>1, <5>2, StepTouches
      <4>2. Whole(d)
          BY <2>2, <3>2 DEF Clean
      <4> QED BY <3>1, <4>1, <4>2 DEF Whole, Proposed, Local
    <3>3. CASE ~Shown(d)
      <4>1. d = t /\ pc[t] \in {"renameNew", "replace"}
          BY <1>1, <2>1, <2>2, <2>4, <3>3, ShownStep
      <4>2. tree'[t] = tree[t] /\ Whole(t)
          BY <1>1, <3>1, <4>1, StepTouches DEF Sound, Preparing, Removing, Dirs
      <4> QED BY <3>1, <4>1, <4>2 DEF Whole, Proposed, Local
    <3> QED BY <3>2, <3>3
  <2> QED BY <2>3, <2>4 DEF Clean
<1>2. CASE UNCHANGED vars
  <2>1. /\ \A d : Shown(d)' <=> Shown(d)
        /\ \A d : Whole(d)' <=> Whole(d)
      BY <1>2, Stutter DEF Shown, Whole, Proposed
  <2>2. \A x : (Apart(x)' <=> Apart(x)) /\ (Private(x)' <=> Private(x))
      BY <1>2, <2>1, Stutter DEF Apart, Private
  <2> QED BY <1>2, <2>1, <2>2, Stutter DEF IInv, Clean
<1> QED BY <1>1, <1>2 DEF Next, IInv

LEMMA CleanCorrect == Spec => []IInv
<1>1. Init => IInv
  <2> SUFFICES ASSUME Init PROVE Clean
      BY DEF IInv
  <2>1. \A t \in Transactions : Apart(t) /\ Private(t)
      BY DEF Init, Apart, Private
  <2>2. \A d \in Dirs : Shown(d) => d = Old
      BY DirAssumption DEF Init, Shown, Dirs
  <2>3. Whole(Old)
      BY DEF Init, Whole, Dirs
  <2> QED BY <2>1, <2>2, <2>3 DEF Clean
<1> QED BY <1>1, NextKeeps, TypeCorrect, PreparedCorrect, PTL DEF Spec

\* Whatever interleaves and wherever processes die, the destination holds one
\* whole plan, and so does every backup until its transaction has published,
\* as long as no system call fails.
THEOREM WholeCorrect == Spec => []TreesAreWhole
<1>1. TypeOK /\ IInv => TreesAreWhole
    BY DEF TypeOK, IInv, Clean, Shown, Names, TreesAreWhole
<1> QED BY <1>1, TypeCorrect, CleanCorrect, PTL

\* A transaction that returns has removed its stage, and its backup unless it
\* tells of an error.
THEOREM LitterCorrect == Spec => []NoLitter
<1>1. IInv => NoLitter
    BY DEF IInv, Clean, Private, NoLitter
<1> QED BY <1>1, CleanCorrect, PTL

----------------------------------------------------------------------------
(***************************************************************************)
(* The published tree survives.  Taking turns, the last name of a tree     *)
(* goes only when a transaction that has published removes its backup, and *)
(* its own tree is at the destination then; otherwise some published tree  *)
(* is shown that arrived no earlier than any published one.                *)
(***************************************************************************)
LEMMA StepCloses ==
    ASSUME TypeOK, Prepared, NEW t \in Transactions, Step(t), NEW d \in Dirs, Placed(d), ~Placed(d)'
    PROVE  \/ pc[t] = "removeBackup" /\ d = backup[t]
           \/ pc[t] \in {"removeNew", "removeTarget"} /\ d = target
<1>0. /\ d # Absent /\ backup \in [Transactions -> Names] /\ Stands(t)
      /\ \A x \in Transactions : x # t => backup'[x] = backup[x]
    BY DirAssumption, StepIsLocal DEF TypeOK, Prepared, Local
<1>1. d = target \/ d = backup[t]
    BY <1>0 DEF Placed
<1>2. d # target' /\ d # backup'[t]
    BY DEF Placed
<1> USE <1>0, <1>1, <1>2 DEF Rest, fsVars
<1>3. CASE RenameNew(t) \/ Replace(t)
    BY <1>3 DEF RenameNew, Replace
<1>4. CASE RemoveTarget(t)
    BY <1>4 DEF RemoveTarget
<1>5. CASE Backup(t)
    BY <1>5 DEF Backup, Stands, Replacing, Pcs, Running
<1>6. CASE Restore(t)
    BY <1>6 DEF Restore
<1>7. CASE RemoveBackup(t)
    BY <1>7 DEF RemoveBackup
<1>8. CASE ~(RenameNew(t) \/ Replace(t) \/ RemoveTarget(t) \/ Backup(t) \/ Restore(t) \/ RemoveBackup(t))
  <2>1. UNCHANGED <<target, backup>>
      BY <1>8 DEF Step, BeginDir, Stage, Rollback, RemoveStage, Commit, Lstat, SyncNew, RemoveFile,
         ListTarget, ReadEntry, Compare, Sync, Crash
  <2> QED BY <2>1
<1> QED BY <1>3, <1>4, <1>5, <1>6, <1>7, <1>8

LEMMA StillKept ==
    ASSUME TypeOK, NEW t \in Transactions, Step(t), NEW d \in published \cup {Old},
           Whole(d), tree'[d] = tree[d], Placed(d)'
    PROVE  Kept'
<1>1. d \in published' \cup {Old} /\ UNCHANGED plan
    BY StepMoves DEF Moves
<1>2. Whole(d)'
    BY <1>1 DEF Whole, Proposed
<1>3. d \in {target'} \cup {backup'[x] : x \in Transactions}
    BY DEF Placed
<1> QED BY <1>1, <1>2, <1>3 DEF Kept

LEMMA SurvivalInTurns ==
    ASSUME TypeOK, Prepared, InTurn, WholeInTurn, turns, NEW t \in Transactions, Step(t), Kept
    PROVE  Kept'
<1>0. Stands(t) /\ Turn(t) /\ t # Old /\ t \in Dirs /\ published \subseteq Transactions /\ Local(t)
    BY StepIsLocal, DirAssumption DEF Prepared, InTurn, TypeOK, Dirs
<1>1. PICK d \in published \cup {Old} : Whole(d) /\ d \in {target} \cup {backup[x] : x \in Transactions}
    BY DEF Kept
<1>2. d \in Dirs /\ Placed(d)
    BY <1>0, <1>1 DEF Placed, Dirs
\* The transaction that removes a backup has its own tree at the destination.
<1>3. CASE pc[t] = "removeBackup"
  <2>1. t \in published /\ target = t /\ Whole(t) /\ backup[t] # t
      BY <1>0, <1>3 DEF Stands, Turn, WholeInTurn, Replacing
  <2>2. Victim(t) # t
      BY <1>0, <1>3, <2>1, DirAssumption DEF Stands, Victim, Named
  <2>3. tree'[t] = tree[t]
      BY <1>0, <1>3, <2>2, StepTouches
  <2>4. Placed(t)'
      BY <1>0, <1>3, <2>1, StepCloses DEF Placed
  <2> QED BY <2>1, <2>3, <2>4, StillKept
\* The one that removes the destination removes its own tree, not published.
<1>4. CASE pc[t] # "removeBackup"
  <2>1. d = t => pc[t] \notin {"staging", "removeNew", "removeTarget"}
      BY <1>0, <1>1 DEF Stands
  <2>2. pc[t] \in {"removeNew", "removeTarget"} => Victim(t) = t /\ target = t
      BY <1>0 DEF Turn, Victim, Named
  <2>3. Placed(d)'
      BY <1>2, <1>4, <2>1, <2>2, StepCloses
  <2>4. tree'[d] = tree[d]
      BY <1>2, <1>4, <2>1, <2>2, StepTouches DEF Removing
  <2> QED BY <1>1, <2>3, <2>4, StillKept
<1> QED BY <1>3, <1>4

\* A transaction that holds a backup arrived after the tree it holds.
Ranked ==
    /\ \A t \in Transactions : arrival[t] <= arrivals
    /\ \A t, w \in Transactions :
          pc[t] \in {"sync", "removeBackup"} /\ backup[t] = w => arrival[w] < arrival[t]

\* Every published tree, and every one about to be, has been followed by a
\* published tree that is still shown, unless it is shown itself.
Followed ==
    /\ \A t \in published : \E w \in published : Shown(w) /\ arrival[w] >= arrival[t]
    /\ \A t \in Transactions :
          pc[t] \in {"sync", "syncNew"} => Shown(t) \/ \E y \in published : arrival[y] > arrival[t]
Latest == faults = 0 => Followed

\* Only a rename to the destination makes a tree arrive.
LEMMA StepArrives ==
    ASSUME TypeOK, NEW t \in Transactions, Step(t),
           IF pc'[t] \in {"syncNew", "sync"} /\ pc[t] # pc'[t] THEN Arrive(t) ELSE UNCHANGED history
    PROVE  /\ \A x \in Transactions : x # t => arrival'[x] = arrival[x]
           /\ \/ UNCHANGED <<arrival, arrivals>>
                 /\ (pc'[t] \in {"syncNew", "sync", "removeBackup"} => pc[t] \in {"syncNew", "sync", "removeBackup"})
                 /\ (pc'[t] \in {"syncNew", "sync"} => pc'[t] = pc[t])
              \/ /\ arrival'[t] = arrivals + 1 /\ arrivals' = arrivals + 1
                 /\ pc[t] \in {"renameNew", "replace"} /\ pc'[t] \in {"syncNew", "sync"}
                 /\ target' = t /\ UNCHANGED backup
<1>0. pc \in [Transactions -> Pcs]
    BY DEF TypeOK, Pcs
<1>1. pc'[t] \in {"syncNew", "sync"} /\ pc[t] # pc'[t] =>
          pc[t] \in {"renameNew", "replace"} /\ target' = t /\ UNCHANGED backup
  <2> USE <1>0 DEF Goto, Return, Discard
  <2>1. CASE RenameNew(t) \/ Replace(t)
      BY <2>1 DEF RenameNew, Replace
  <2>2. CASE BeginDir(t) \/ Stage(t) \/ Rollback(t) \/ RemoveStage(t) \/ Commit(t) \/ Lstat(t) \/ SyncNew(t)
      BY <2>2 DEF BeginDir, Stage, Rollback, RemoveStage, Commit, Lstat, SyncNew
  <2>3. CASE RemoveFile(t) \/ RemoveTarget(t) \/ ListTarget(t) \/ ReadEntry(t) \/ Compare(t)
      BY <2>3 DEF RemoveFile, RemoveTarget, ListTarget, ReadEntry, Compare
  <2>4. CASE Backup(t) \/ Restore(t) \/ Sync(t) \/ RemoveBackup(t) \/ Crash(t)
      BY <2>4 DEF Backup, Restore, Sync, RemoveBackup, Crash
  <2> QED BY <2>1, <2>2, <2>3, <2>4 DEF Step
<1>2. pc'[t] = "removeBackup" => pc[t] \in {"sync", "removeBackup"}
  <2> USE <1>0 DEF Goto, Return, Discard
  <2>1. CASE RenameNew(t) \/ Replace(t) \/ Sync(t)
      BY <2>1 DEF RenameNew, Replace, Sync
  <2>2. CASE BeginDir(t) \/ Stage(t) \/ Rollback(t) \/ RemoveStage(t) \/ Commit(t) \/ Lstat(t) \/ SyncNew(t)
      BY <2>2 DEF BeginDir, Stage, Rollback, RemoveStage, Commit, Lstat, SyncNew
  <2>3. CASE RemoveFile(t) \/ RemoveTarget(t) \/ ListTarget(t) \/ ReadEntry(t) \/ Compare(t)
      BY <2>3 DEF RemoveFile, RemoveTarget, ListTarget, ReadEntry, Compare
  <2>4. CASE Backup(t) \/ Restore(t) \/ RemoveBackup(t) \/ Crash(t)
      BY <2>4 DEF Backup, Restore, RemoveBackup, Crash
  <2> QED BY <2>1, <2>2, <2>3, <2>4 DEF Step
<1>3. CASE pc'[t] \in {"syncNew", "sync"} /\ pc[t] # pc'[t]
  <2>1. arrival' = [arrival EXCEPT ![t] = arrivals + 1] /\ arrivals' = arrivals + 1
      BY <1>3 DEF Arrive
  <2>2. arrival \in [Transactions -> Nat]
      BY DEF TypeOK
  <2> QED BY <1>1, <1>3, <2>1, <2>2
<1>4. CASE ~(pc'[t] \in {"syncNew", "sync"} /\ pc[t] # pc'[t])
  <2>1. UNCHANGED <<arrival, arrivals>>
      BY <1>4 DEF history
  <2> QED BY <1>2, <1>4, <2>1
<1> QED BY <1>3, <1>4

LEMMA RankedStep == ASSUME TypeOK, Prepared, Ranked, [Next]_vars PROVE Ranked'
<1>1. ASSUME NEW t \in Transactions, Step(t),
             IF pc'[t] \in {"syncNew", "sync"} /\ pc[t] # pc'[t] THEN Arrive(t) ELSE UNCHANGED history
      PROVE  Ranked'
  <2>0. arrivals \in Nat /\ \A x \in Transactions : arrival[x] \in Nat
      BY DEF TypeOK
  <2>1. Local(t) /\ \A x \in Transactions : Stands(x) /\ arrival[x] <= arrivals
      BY <1>1, StepIsLocal DEF Prepared, Ranked
  <2>2. \A x, w \in Transactions : pc[x] \in {"sync", "removeBackup"} /\ backup[x] = w => arrival[w] < arrival[x]
      BY DEF Ranked
  <2>3. \A x \in Transactions : x # t => arrival'[x] = arrival[x] /\ pc'[x] = pc[x] /\ backup'[x] = backup[x]
      BY <1>1, <2>1, StepArrives DEF Local
  <2>4. CASE /\ UNCHANGED <<arrival, arrivals>>
             /\ pc'[t] \in {"syncNew", "sync", "removeBackup"} => pc[t] \in {"syncNew", "sync", "removeBackup"}
             /\ pc'[t] \in {"syncNew", "sync"} => pc'[t] = pc[t]
    <3>1. pc'[t] \in {"sync", "removeBackup"} => pc[t] \in {"sync", "removeBackup"} /\ backup'[t] = backup[t]
      <4>0. pc \in [Transactions -> Pcs]
          BY DEF TypeOK, Pcs
      <4> USE <4>0, <2>4 DEF Goto, Return, Discard
      <4>1. CASE Sync(t) \/ SyncNew(t)
          BY <4>1 DEF Sync, SyncNew, fsVars
      <4>2. CASE BeginDir(t) \/ Stage(t) \/ Rollback(t) \/ RemoveStage(t) \/ Commit(t) \/ Lstat(t) \/ RenameNew(t)
          BY <4>2 DEF BeginDir, Stage, Rollback, RemoveStage, Commit, Lstat, RenameNew
      <4>3. CASE RemoveFile(t) \/ RemoveTarget(t) \/ ListTarget(t) \/ ReadEntry(t) \/ Compare(t)
          BY <4>3 DEF RemoveFile, RemoveTarget, ListTarget, ReadEntry, Compare
      <4>4. CASE Backup(t) \/ Replace(t) \/ Restore(t) \/ RemoveBackup(t) \/ Crash(t)
          BY <4>4 DEF Backup, Replace, Restore, RemoveBackup, Crash
      <4> QED BY <1>1, <4>1, <4>2, <4>3, <4>4 DEF Step
    <3>2. \A x \in Transactions : pc'[x] \in {"sync", "removeBackup"} =>
              pc[x] \in {"sync", "removeBackup"} /\ backup'[x] = backup[x]
        BY <2>3, <3>1
    <3> QED BY <2>1, <2>2, <2>4, <3>2 DEF Ranked
  <2>5. CASE /\ arrival'[t] = arrivals + 1 /\ arrivals' = arrivals + 1
             /\ pc[t] \in {"renameNew", "replace"} /\ pc'[t] \in {"syncNew", "sync"}
             /\ target' = t /\ UNCHANGED backup
    <3>1. \A x \in Transactions : backup[x] # t
        BY <2>1, <2>5 DEF Stands, Open, Placed, Arrived
    <3>2. ASSUME NEW x \in Transactions PROVE arrival'[x] <= arrivals'
      <4>1. arrival'[x] = arrival[x] \/ arrival'[x] = arrivals'
          BY <2>3, <2>5
      <4> QED BY <2>0, <2>1, <2>5, <4>1
    <3>3. ASSUME NEW x \in Transactions, NEW w \in Transactions,
                 pc'[x] \in {"sync", "removeBackup"}, backup'[x] = w
          PROVE  arrival'[w] < arrival'[x]
      <4>1. w # t /\ arrival'[w] = arrival[w] /\ backup[x] = w
          BY <2>3, <2>5, <3>1, <3>3
      <4>2. CASE x = t
          BY <2>0, <2>1, <2>5, <4>1, <4>2
      <4>3. CASE x # t
          BY <2>2, <2>3, <3>3, <4>1, <4>3
      <4> QED BY <4>2, <4>3
    <3> QED BY <3>2, <3>3 DEF Ranked
  <2> QED BY <1>1, <2>4, <2>5, StepArrives
<1>2. CASE UNCHANGED vars
    BY <1>2, Stutter DEF Ranked
<1> QED BY <1>1, <1>2 DEF Next
LEMMA LatestStep ==
    ASSUME TypeOK, TypeOK', Prepared, Ranked, IInv, Latest, [Next]_vars
    PROVE  Latest'
<1>1. ASSUME NEW t \in Transactions, Step(t),
             IF pc'[t] \in {"syncNew", "sync"} /\ pc[t] # pc'[t] THEN Arrive(t) ELSE UNCHANGED history
      PROVE  Latest'
  <2> SUFFICES ASSUME faults' = 0 PROVE Followed'
      BY DEF Latest
  <2>1. faults = 0 /\ ~Fail
    <3>1. faults \in Nat /\ faults' \in {faults, faults + 1}
        BY <1>1, StepMoves DEF TypeOK, Moves
    <3> QED BY <3>1 DEF Fail
  <2>2. /\ Clean /\ Followed /\ Local(t) /\ published \subseteq published'
        /\ published' \subseteq published \cup {t} /\ published' \subseteq Transactions
    <3>1. published' \in {published, published \cup {t}}
        BY <1>1, StepMoves DEF Moves
    <3> QED BY <1>1, <2>1, <3>1, StepIsLocal DEF IInv, Latest, TypeOK
  <2>3. \A x \in Transactions : arrival[x] \in Nat
      BY DEF TypeOK
  <2>4. \A x \in Transactions :
            x \in published \/ pc[x] \in {"sync", "syncNew"} \/ x # t => arrival'[x] = arrival[x]
    <3>1. \A x \in Transactions : Stands(x)
        BY DEF Prepared
    <3>2. t \in published \/ pc[t] \in {"sync", "syncNew"} => UNCHANGED arrival
        BY <1>1, <3>1, StepArrives DEF Stands
    <3> QED BY <1>1, <3>2, StepArrives
  <2>5. published \subseteq Transactions /\ Transactions \subseteq Dirs
      BY DEF TypeOK, Dirs
  \* The backup of t is shown no more: t is published now and came later.
  <2>6. ASSUME NEW w \in Transactions, Shown(w), ~Shown(w)'
        PROVE  pc[t] = "sync" /\ t \in published' /\ arrival[w] < arrival[t]
    <3>1. pc[t] = "sync" /\ t \in published' /\ w = backup[t]
        BY <1>1, <2>1, <2>2, <2>5, <2>6, ShownStep
    <3> QED BY <3>1 DEF Ranked
  \* So t, or a published tree that came later still, is shown now.
  <2>7. ASSUME t \in published', pc[t] \in {"sync", "syncNew"}
        PROVE  \E v \in published' : Shown(v)' /\ arrival[v] >= arrival[t]
    <3>1. CASE Shown(t)
      <4>1. Shown(t)'
          BY <2>3, <2>6, <3>1
      <4> QED BY <2>3, <2>7, <4>1
    <3>2. CASE \E y \in published : arrival[y] > arrival[t]
      <4>1. PICK y \in published : arrival[y] > arrival[t]
          BY <3>2
      <4>2. PICK v \in published : Shown(v) /\ arrival[v] >= arrival[y]
          BY <2>2 DEF Followed
      <4>3. arrival[v] \in Nat /\ arrival[y] \in Nat /\ arrival[t] \in Nat
          BY <2>3, <2>5
      <4>4. arrival[v] > arrival[t]
          BY <4>1, <4>2, <4>3
      <4>5. Shown(v)'
          BY <2>5, <2>6, <4>2, <4>3, <4>4
      <4> QED BY <2>2, <4>3, <4>4, <4>5
    <3> QED BY <2>2, <2>7, <3>1, <3>2 DEF Followed
  <2>8. ASSUME NEW x \in published PROVE \E w \in published' : Shown(w)' /\ arrival[w] >= arrival[x]
    <3>1. PICK w \in published : Shown(w) /\ arrival[w] >= arrival[x]
        BY <2>2 DEF Followed
    <3>2. CASE Shown(w)'
        BY <2>2, <3>1, <3>2
    <3>3. CASE ~Shown(w)'
      <4>1. pc[t] = "sync" /\ t \in published' /\ arrival[w] < arrival[t]
          BY <2>5, <2>6, <3>1, <3>3
      <4>2. PICK v \in published' : Shown(v)' /\ arrival[v] >= arrival[t]
          BY <2>7, <4>1
      <4>3. arrival[v] \in Nat /\ arrival[w] \in Nat /\ arrival[x] \in Nat /\ arrival[t] \in Nat
          BY <2>2, <2>3, <2>5
      <4> QED BY <3>1, <4>1, <4>2, <4>3
    <3> QED BY <3>2, <3>3
  <2>9. ASSUME NEW x \in published' PROVE \E w \in published' : Shown(w)' /\ arrival'[w] >= arrival'[x]
    <3>1. x \notin published => x = t /\ pc[t] \in {"sync", "syncNew"}
      <4>1. published' # published => pc[t] \in {"sync", "syncNew"}
          BY <1>1 DEF Step, BeginDir, Stage, Rollback, RemoveStage, Commit, Lstat, RenameNew, SyncNew,
             RemoveFile, RemoveTarget, ListTarget, ReadEntry, Compare, Backup, Replace, Restore, Sync,
             RemoveBackup, Crash, Rest
      <4> QED BY <2>2, <4>1
    <3>2. PICK w \in published' : Shown(w)' /\ arrival[w] >= arrival[x]
        BY <2>7, <2>8, <3>1
    <3>3. arrival'[x] = arrival[x]
        BY <2>2, <2>4, <3>1
    <3>4. arrival'[w] = arrival[w]
      <4>1. w \in published \/ w # t \/ pc[t] \in {"sync", "syncNew"}
        <5>1. w \notin published => published' # published
            OBVIOUS
        <5>2. published' # published => pc[t] \in {"sync", "syncNew"}
            BY <1>1 DEF Step, BeginDir, Stage, Rollback, RemoveStage, Commit, Lstat, RenameNew, SyncNew,
               RemoveFile, RemoveTarget, ListTarget, ReadEntry, Compare, Backup, Replace, Restore, Sync,
               RemoveBackup, Crash, Rest
        <5> QED BY <5>1, <5>2
      <4> QED BY <2>2, <2>4, <4>1
    <3> QED BY <3>2, <3>3, <3>4
  <2>10. ASSUME NEW x \in Transactions, pc'[x] \in {"sync", "syncNew"}
         PROVE  Shown(x)' \/ \E y \in published' : arrival'[y] > arrival'[x]
    <3>1. CASE x = t /\ target' = t
        BY <3>1 DEF Shown
    <3>2. CASE ~(x = t /\ target' = t)
      <4>1. pc[x] \in {"sync", "syncNew"} /\ arrival'[x] = arrival[x]
        <5>1. pc[x] \in {"sync", "syncNew"}
            BY <1>1, <2>2, <2>10, <3>2, StepArrives DEF Local
        <5> QED BY <2>4, <5>1
      <4>2. CASE Shown(x)
        <5>1. ~Shown(x)' => t \in published' /\ pc[t] = "sync" /\ arrival[x] < arrival[t]
            BY <2>6, <4>2
        <5> QED BY <2>4, <4>1, <5>1
      <4>3. CASE \E y \in published : arrival[y] > arrival[x]
          BY <2>2, <2>4, <2>5, <4>1, <4>3
      <4> QED BY <2>2, <4>1, <4>2, <4>3 DEF Followed
    <3> QED BY <3>1, <3>2
  <2> QED BY <2>9, <2>10 DEF Followed
<1>2. CASE UNCHANGED vars
  <2>1. \A d : Shown(d)' <=> Shown(d)
      BY <1>2, Stutter DEF Shown
  <2> QED BY <1>2, <2>1, Stutter DEF Latest, Followed
<1> QED BY <1>1, <1>2 DEF Next

LEMMA FollowedCorrect == Spec => [](Ranked /\ Latest)
<1>1. Init => Ranked /\ Latest
    BY DEF Init, Ranked, Latest, Followed
<1> QED BY <1>1, RankedStep, LatestStep, TypeCorrect, PreparedCorrect, CleanCorrect, PTL DEF Spec

\* While no system call fails, the tree that came last of those published is
\* shown and whole; before the first is published the old one is.
LEMMA SurvivalInOverlap ==
    ASSUME TypeOK, TypeOK', Prepared, IInv, IInv', Latest', NEW t \in Transactions, Step(t), faults' = 0,
           Kept
    PROVE  Kept'
<1>1. faults = 0 /\ ~Fail
  <2>1. faults \in Nat /\ faults' \in {faults, faults + 1}
      BY StepMoves DEF TypeOK, Moves
  <2> QED BY <2>1 DEF Fail
<1>2. Clean /\ Clean' /\ Followed' /\ published \subseteq published' /\ published' \subseteq Transactions
  <2>1. published \subseteq published'
      BY StepMoves DEF Moves
  <2> QED BY <1>1, <2>1 DEF IInv, Latest, TypeOK
<1>3. ASSUME NEW w \in published' \cup {Old}, Shown(w)' PROVE Kept'
  <2>1. Whole(w)'
      BY <1>2, <1>3 DEF Clean, Dirs
  <2>2. w \in {target'} \cup {backup'[x] : x \in Transactions}
      BY <1>3 DEF Shown
  <2> QED BY <2>1, <2>2 DEF Kept
<1>4. CASE published' # {}
    BY <1>2, <1>3, <1>4 DEF Followed
<1>5. CASE published' = {}
  <2>1. published = {} /\ Shown(Old)
      BY <1>2, <1>5 DEF Kept, Shown
  <2>2. Shown(Old)'
      BY <1>1, <1>2, <1>5, <2>1, ShownStep DEF Dirs
  <2> QED BY <1>3, <2>2
<1> QED BY <1>4, <1>5

\* Once a whole tree is published it stays, at the destination or at a
\* backup, until a newer one is: for transactions that overlap until a
\* system call fails, and for those that take turns whatever fails and
\* wherever they die.
THEOREM Survival == Spec => PublishedTreeSurvives
<1>1. TypeOK /\ TypeOK' /\ Prepared /\ InTurn /\ WholeInTurn /\ IInv /\ IInv' /\ Latest' /\ [Next]_vars
      => [(turns \/ faults' = 0) /\ Kept => Kept']_vars
  <2> SUFFICES ASSUME TypeOK, TypeOK', Prepared, InTurn, WholeInTurn, IInv, IInv', Latest', Next,
                      turns \/ faults' = 0, Kept
               PROVE  Kept'
      OBVIOUS
  <2>1. PICK t \in Transactions : Step(t)
      BY DEF Next
  <2> QED BY <2>1, SurvivalInTurns, SurvivalInOverlap
<1> QED
    BY <1>1, TypeCorrect, PreparedCorrect, InTurnCorrect, WholeInTurnCorrect, CleanCorrect, FollowedCorrect,
       PTL
    DEF Spec, PublishedTreeSurvives

----------------------------------------------------------------------------
(***************************************************************************)
(* Transactions that take turns see ArtifactRegister.  What equalTrees has *)
(* read is what is at the destination, and what it decided is still true   *)
(* when the stage is removed; up to one fault a transaction that undoes    *)
(* its renames meets no second one.                                        *)
(***************************************************************************)
Knows(t) ==
    /\ pc[t] \in Early \cup {"lstat", "list"} => entries[t] = EmptyTree
    /\ pc[t] = "read" =>
          /\ listed[t] \subseteq DOMAIN tree[target]
          /\ DOMAIN entries[t] = DOMAIN tree[target] \ listed[t]
          /\ \A f \in DOMAIN entries[t] : entries[t][f] = tree[target][f]
    /\ pc[t] = "discard" /\ res[t] = "reused" => target # Absent /\ tree[target] = Proposed(t)
    /\ pc[t] = "discard" /\ res[t] = "collision" =>
          target # Absent /\ tree[target] # Proposed(t) /\ ~plan[t].force
KnowsInTurn == turns => \A t \in Transactions : Knows(t)

LEMMA KnowsStep ==
    ASSUME TypeOK, Prepared, Alone, InTurn, KnowsInTurn, [Next]_vars
    PROVE  KnowsInTurn'
<1>1. ASSUME NEW t \in Transactions, Step(t) PROVE KnowsInTurn'
  <2> SUFFICES ASSUME turns, turns' PROVE \A x \in Transactions : Knows(x)'
      BY <1>1, StepIsLocal DEF KnowsInTurn, Local
  <2>0. /\ Local(t) /\ Knows(t) /\ Turn(t) /\ Sound(t) /\ pc \in [Transactions -> Pcs] /\ UNCHANGED plan
        /\ entries \in [Transactions -> Trees] /\ listed \in [Transactions -> SUBSET Files]
        /\ res \in [Transactions -> Results] /\ Proposed(t)' = Proposed(t) /\ t # Old
      BY <1>1, StepIsLocal, DirAssumption DEF InTurn, TypeOK, Pcs, Prepared, KnowsInTurn, Local, Proposed
  <2>a. ASSUME NEW x \in Transactions, x # t PROVE Knows(x)'
    <3>1. pc[t] \in Running \/ \A y \in Transactions : pc[y] \notin Running
        BY <1>1, StepRuns
    <3>2. pc'[x] \notin Running /\ pc'[x] = pc[x] /\ entries'[x] = entries[x] /\ Knows(x)
      <4> HIDE DEF Running
      <4> QED BY <2>0, <2>a, <3>1 DEF Alone, Local, KnowsInTurn
    <3> QED BY <3>2 DEF Knows, Running
  <2>b. Knows(t)'
    <3> USE <2>0
    <3>1. CASE ReadEntry(t)
      <4> DEFINE f == Min(listed[t])
                 here == FilesAt(target)
      <4>1. pc[t] = "read" /\ UNCHANGED <<tree, target>> /\ here = tree[target]
          BY <3>1 DEF ReadEntry, fsVars, FilesAt, Turn
      <4>2. CASE Discard(t, "error")
          BY <4>2 DEF Discard, Knows, Early
      <4>3. CASE /\ f \in DOMAIN here /\ UNCHANGED pc
                 /\ entries' = [entries EXCEPT ![t] = [g \in DOMAIN entries[t] \cup {f} |->
                                   IF g = f THEN here[f] ELSE entries[t][g]]]
                 /\ listed' = [listed EXCEPT ![t] = listed[t] \ {f}]
        <5>1. entries'[t] = [g \in DOMAIN entries[t] \cup {f} |-> IF g = f THEN here[f] ELSE entries[t][g]]
              /\ listed'[t] = listed[t] \ {f}
            BY <4>3
        <5>2. /\ listed[t] \subseteq DOMAIN here /\ DOMAIN entries[t] = DOMAIN here \ listed[t]
              /\ \A g \in DOMAIN entries[t] : entries[t][g] = here[g]
            BY <4>1 DEF Knows
        <5> HIDE DEF f, here
        <5>3. listed'[t] \subseteq DOMAIN here /\ DOMAIN entries'[t] = DOMAIN here \ listed'[t]
            BY <4>3, <5>1, <5>2
        <5>4. \A g \in DOMAIN entries'[t] : entries'[t][g] = here[g]
            BY <5>1, <5>2
        <5> QED BY <4>1, <4>3, <5>3, <5>4 DEF Knows, Early
      <4> QED BY <3>1, <4>2, <4>3 DEF ReadEntry
    <3>2. CASE Compare(t)
      <4>1. pc[t] = "read" /\ listed[t] = {} /\ UNCHANGED <<tree, target>> /\ target # Absent
          BY <3>2 DEF Compare, fsVars, Turn
      <4>2. entries[t] = tree[target]
        <5>1. tree[target] \in Trees /\ entries[t] \in Trees
            BY <4>1 DEF TypeOK, Names
        <5>2. DOMAIN entries[t] = DOMAIN tree[target]
              /\ \A f \in DOMAIN entries[t] : entries[t][f] = tree[target][f]
            BY <4>1 DEF Knows
        <5>3. /\ entries[t] = [f \in DOMAIN entries[t] |-> entries[t][f]]
              /\ tree[target] = [f \in DOMAIN tree[target] |-> tree[target][f]]
            BY <5>1, TreeIs
        <5> QED BY <5>2, <5>3
      <4>3. tree[t] = Proposed(t)
          BY <4>1 DEF Sound, Preparing, Whole
      <4>4. \/ pc'[t] = "backup"
            \/ pc'[t] = "discard" /\ res'[t] = "reused" /\ entries[t] = tree[t]
            \/ pc'[t] = "discard" /\ res'[t] = "collision" /\ entries[t] # tree[t] /\ ~plan[t].force
          BY <3>2 DEF Compare, Discard, Goto
      <4> HIDE DEF Running
      <4> QED BY <4>1, <4>2, <4>3, <4>4 DEF Knows, Early
    <3>3. CASE ListTarget(t)
      <4>1. UNCHANGED <<tree, target, entries>> /\ pc[t] = "list" /\ entries[t] = EmptyTree
          BY <3>3 DEF ListTarget, fsVars, Knows
      <4>2. \/ pc'[t] = "read" /\ listed'[t] = DOMAIN tree[target]
            \/ pc'[t] = "discard" /\ res'[t] = "error"
          BY <3>3 DEF ListTarget, Goto, Discard
      <4> QED BY <4>1, <4>2 DEF Knows, Early, EmptyTree
    <3>4. CASE BeginDir(t) \/ Stage(t) \/ Rollback(t) \/ RemoveStage(t) \/ Commit(t) \/ Lstat(t)
      <4>1. \/ pc'[t] = "done"
            \/ pc'[t] = "discard" /\ res'[t] \in {"error", "rolledback"}
            \/ pc'[t] \in {"staging", "lstat", "list", "renameNew"} /\ pc[t] \in Early \cup {"lstat"}
          BY <3>4 DEF BeginDir, Stage, Rollback, RemoveStage, Commit, Lstat, Goto, Discard, Return, Early
      <4>2. entries' = entries
          BY <3>4 DEF BeginDir, Stage, Rollback, RemoveStage, Commit, Lstat, Rest, walkVars
      <4> QED BY <4>1, <4>2 DEF Knows, Early
    <3>5. CASE \/ RenameNew(t) \/ SyncNew(t) \/ RemoveFile(t) \/ RemoveTarget(t) \/ Backup(t) \/ Replace(t)
               \/ Restore(t) \/ Sync(t) \/ RemoveBackup(t) \/ Crash(t)
      <4>1. \/ pc'[t] \in {"done", "dead", "syncNew", "removeNew", "replace", "restore", "sync", "removeTarget",
                           "reinstate", "removeBackup"}
            \/ pc'[t] = "discard" /\ res'[t] = "error"
          BY <3>5 DEF RenameNew, SyncNew, RemoveFile, RemoveTarget, Backup, Replace, Restore, Sync, RemoveBackup,
             Crash, Goto, Discard, Return
      <4> QED BY <4>1 DEF Knows, Early
    <3> QED BY <1>1, <3>1, <3>2, <3>3, <3>4, <3>5 DEF Step
  <2> QED BY <2>a, <2>b
<1>2. CASE UNCHANGED vars
  <2>1. \A x : Proposed(x)' = Proposed(x)
      BY <1>2, Stutter DEF Proposed
  <2>2. UNCHANGED <<pc, res, plan, tree, target, listed, entries, turns>>
      BY <1>2, Stutter
  <2> QED BY <2>1, <2>2 DEF KnowsInTurn, Knows
<1> QED BY <1>1, <1>2 DEF Next

LEMMA KnowsCorrect == Spec => []KnowsInTurn
<1>1. Init => KnowsInTurn
    BY DEF Init, KnowsInTurn, Knows
<1> QED BY <1>1, KnowsStep, TypeCorrect, PreparedCorrect, AloneCorrect, InTurnCorrect, PTL DEF Spec

LEMMA ProposedIsTree == ASSUME plan \in [Transactions -> [files : Plans, force : BOOLEAN]],
                               NEW t \in Transactions
                        PROVE  Proposed(t) \in Trees
<1> DEFINE files == plan[t].files
           At(f) == {i \in DOMAIN files : files[i].name = f}
           S == {files[i].name : i \in DOMAIN files}
<1>1. files \in Seq([name : Files, data : Data])
    BY PlanAssumption
<1>2. DOMAIN files = 1..Len(files) /\ Len(files) \in Nat
    BY <1>1
<1>3. S \in SUBSET Files
    BY <1>1, <1>2, FileOfPlan
<1>4. ASSUME NEW f \in S PROVE files[Min(At(f))].data \in Data
  <2>1. At(f) \in SUBSET Nat /\ At(f) # {}
      BY <1>2
  <2>2. Min(At(f)) \in 1..Len(files)
      BY <1>2, <2>1, LeastElement
  <2> QED BY <1>1, <2>2, FileOfPlan
<1>5. Proposed(t) = [f \in S |-> files[Min(At(f))].data]
    BY DEF Proposed, PlanTree
<1> HIDE DEF S, At, files
<1> QED BY <1>3, <1>4, <1>5, IsTree

LEMMA ValueOfUncommitted ==
    ASSUME NEW t \in Transactions, Uncommitted(t), \A x \in Transactions : Uncommitted(x) => x = t
    PROVE  value = Hold(backup[t])
<1>1. (CHOOSE x \in Transactions : Uncommitted(x)) = t
    OBVIOUS
<1> QED BY <1>1 DEF value

LEMMA ValueOfUncommittedNext ==
    ASSUME NEW t \in Transactions, Uncommitted(t)', \A x \in Transactions : Uncommitted(x)' => x = t
    PROVE  value' = Hold(backup[t])'
<1>1. (CHOOSE x \in Transactions : Uncommitted(x)') = t
    OBVIOUS
<1> QED BY <1>1 DEF value

LEMMA AtomicInit == Init => Register!Init
<1> SUFFICES ASSUME Init PROVE Register!Init
    OBVIOUS
<1>1. \A t \in Transactions : ~Uncommitted(t) /\ pc[t] = "idle" /\ t \notin published
    BY DEF Init, Uncommitted
<1>2. value = Hold(target)
    BY <1>1 DEF value
<1>3. Hold(target) \in Trees \cup {Absent}
    BY FileAssumption DEF Init, Hold, Dirs
<1>4. request \in [Transactions -> [data : Trees, force : BOOLEAN]]
    BY ProposedIsTree DEF Init, request
<1>5. reply = [t \in Transactions |-> "none"]
    BY <1>1 DEF reply
<1> QED BY <1>2, <1>3, <1>4, <1>5 DEF Register!Init

\* What a transaction has been told, and that others are told nothing new.
LEMMA ReplyIs ==
    ASSUME NEW t \in Transactions
    PROVE  reply[t] = IF t \in published THEN "ok"
                      ELSE IF pc[t] # "done" THEN "none"
                      ELSE IF res[t] = "rolledback" THEN "error" ELSE res[t]
BY DEF reply

LEMMA ReplyIsNext ==
    ASSUME NEW t \in Transactions
    PROVE  reply'[t] = IF t \in published' THEN "ok"
                       ELSE IF pc'[t] # "done" THEN "none"
                       ELSE IF res'[t] = "rolledback" THEN "error" ELSE res'[t]
BY DEF reply

LEMMA OneReplies ==
    ASSUME NEW t \in Transactions, Local(t)
    PROVE  reply' = [reply EXCEPT ![t] = reply'[t]]
<1>1. \A x \in Transactions : x # t => reply'[x] = reply[x]
    BY ReplyIs, ReplyIsNext DEF Local
<1>2. reply = [x \in Transactions |-> reply[x]] /\ reply' = [x \in Transactions |-> reply'[x]]
    BY DEF reply
<1> QED BY <1>1, <1>2

LEMMA AtomicStep ==
    ASSUME TypeOK, TypeOK', Prepared, Alone, InTurn, WholeInTurn, KnowsInTurn,
           turns, faults' <= 1, crashes' = 0, NEW t \in Transactions, Step(t)
    PROVE  [Register!Next]_(Register!vars)
<1>1. /\ Local(t) /\ Stands(t) /\ Sound(t) /\ Turn(t) /\ Knows(t) /\ pc \in [Transactions -> Pcs]
      /\ (pc[t] \in {"syncNew", "sync", "removeBackup"} => Whole(t)) /\ published \subseteq Transactions
    BY StepIsLocal DEF Prepared, InTurn, WholeInTurn, KnowsInTurn, TypeOK, Pcs
<1>2. t # Old /\ t # Absent /\ t \in Dirs /\ Absent \notin Dirs /\ Old \in Dirs
    BY DirAssumption DEF Dirs
<1>3. target \in Names /\ backup[t] \in Names /\ backup'[t] \in Names
    BY DEF TypeOK
<1>4. \A x \in Transactions : x # t => ~Uncommitted(x) /\ ~Uncommitted(x)'
  <2>1. pc[t] \in Running \/ \A x \in Transactions : pc[x] \notin Running
      BY StepRuns
  <2>2. \A x \in Transactions : x # t => pc[x] \notin Running /\ pc'[x] = pc[x]
    <3> HIDE DEF Running
    <3> QED BY <1>1, <2>1 DEF Alone, Local
  <2> QED BY <2>2 DEF Uncommitted, Running
<1>5. Uncommitted(t) => value = Hold(backup[t])
    BY <1>4, ValueOfUncommitted
<1>6. Uncommitted(t)' => value' = Hold(backup[t])'
    BY <1>4, ValueOfUncommittedNext
<1>7. ~Uncommitted(t) => value = Hold(target)
    BY <1>4 DEF value
<1>8. ~Uncommitted(t)' => value' = Hold(target)'
    BY <1>4 DEF value
<1>9. request' = request /\ request[t] = [data |-> Proposed(t), force |-> plan[t].force]
    BY <1>1 DEF Local, request, Proposed
<1>10. pc[t] \in (Running \ {"removeBackup"}) \cup {"idle"} => t \notin published /\ reply[t] = "none"
    BY <1>1, ReplyIs DEF Stands, Running
\* A transaction that undoes its renames meets no second fault.
<1>11. pc[t] \in {"removeNew", "removeTarget", "reinstate", "restore"} => ~Fail
  <2>1. faults \in Nat
      BY DEF TypeOK
  <2> QED BY <1>1, <2>1 DEF Turn, Fail
\* The trees that are not the stage of t and not its backup are left alone.
<1>12. \A d \in Dirs : d # t /\ ~(pc[t] = "removeBackup" /\ d = backup[t]) => tree'[d] = tree[d]
  <2>1. pc[t] \in {"removeNew", "removeTarget"} => Victim(t) = t
      BY <1>1 DEF Turn, Victim, Named
  <2>2. pc[t] = "removeBackup" => Victim(t) = backup[t]
      BY <1>1 DEF Stands, Victim, Named
  <2> QED BY <2>1, <2>2, StepTouches DEF Removing
<1>13. pc[t] \in {"staging", "removeNew", "removeTarget"} \/ tree'[t] = tree[t]
  <2>1. pc[t] = "removeBackup" => Victim(t) # t
      BY <1>1, <1>2 DEF Stands, Replacing, Victim, Named
  <2> QED BY <1>2, <2>1, StepTouches DEF Removing
\* A step the register does not see, and the ways a transaction returns.
<1>a. ASSUME value' = value, reply'[t] = reply[t] PROVE [Register!Next]_(Register!vars)
  <2>1. reply' = reply
    <3>1. reply = [reply EXCEPT ![t] = reply[t]]
        BY DEF reply
    <3> QED BY <1>1, <1>a, <3>1, OneReplies
  <2> QED BY <1>9, <1>a, <2>1 DEF Register!vars
<1>b. ASSUME value' = value, reply'[t] = "error", reply[t] = "none" PROVE [Register!Next]_(Register!vars)
  <2>1. Register!Refuse(t)
      BY <1>1, <1>b, OneReplies DEF Register!Refuse, Register!Answer
  <2> QED BY <1>9, <2>1 DEF Register!Next
<1>c. ASSUME value' = Proposed(t), plan[t].force \/ value = Absent, reply'[t] = "ok", reply[t] = "none"
      PROVE  [Register!Next]_(Register!vars)
  <2>1. Register!Store(t)
      BY <1>1, <1>9, <1>c, OneReplies DEF Register!Store, Register!Answer
  <2> QED BY <1>9, <2>1 DEF Register!Next
<1>d. ASSUME value' = value, value = Proposed(t), reply'[t] = "reused", reply[t] = "none"
      PROVE  [Register!Next]_(Register!vars)
  <2>1. Register!Reuse(t)
      BY <1>1, <1>9, <1>d, OneReplies DEF Register!Reuse, Register!Answer
  <2> QED BY <1>9, <2>1 DEF Register!Next
<1>e. ASSUME value' = value, value \notin {Absent, Proposed(t)}, ~plan[t].force,
             reply'[t] = "collision", reply[t] = "none"
      PROVE  [Register!Next]_(Register!vars)
  <2>1. Register!Collide(t)
      BY <1>1, <1>9, <1>e, OneReplies DEF Register!Collide, Register!Answer
  <2> QED BY <1>9, <2>1 DEF Register!Next
\* The register keeps its value while the destination is left alone, and
\* while the backup of the uncommitted transaction is.
<1>q. ASSUME target' = target, ~Uncommitted(t), ~Uncommitted(t)', target = t => tree'[t] = tree[t],
             pc[t] = "removeBackup" => target = t
      PROVE  value' = value
  <2>1. target \in Dirs => tree'[target] = tree[target]
      BY <1>1, <1>2, <1>12, <1>q DEF Stands, Replacing
  <2> QED BY <1>3, <1>7, <1>8, <1>q, <2>1 DEF Hold, Names
<1>r. ASSUME backup'[t] = backup[t], Uncommitted(t), Uncommitted(t)', backup[t] # t PROVE value' = value
  <2>1. backup[t] \in Dirs => tree'[backup[t]] = tree[backup[t]]
      BY <1>12, <1>r DEF Uncommitted
  <2> QED BY <1>3, <1>5, <1>6, <1>r, <2>1 DEF Hold, Names
<1>21. CASE BeginDir(t)
  <2>1. pc[t] = "idle" /\ target' = target /\ tree' = tree /\ published' = published
      BY <1>21 DEF BeginDir, Rest
  <2>2. pc'[t] = "staging" \/ (pc'[t] = "done" /\ res'[t] = "error")
      BY <1>1, <1>21 DEF BeginDir, Goto, Return, TypeOK
  <2>3. value' = value
      BY <1>q, <2>1, <2>2 DEF Uncommitted
  <2>4. reply[t] = "none" /\ t \notin published
      BY <1>10, <2>1
  <2>5. reply'[t] \in {"none", "error"}
      BY <2>1, <2>2, <2>4, ReplyIsNext
  <2> QED BY <1>a, <1>b, <2>3, <2>4, <2>5
<1>22. CASE Stage(t) \/ Rollback(t) \/ Commit(t) \/ Lstat(t) \/ ListTarget(t) \/ ReadEntry(t) \/ Compare(t)
  <2>1. /\ pc[t] \in {"staging", "lstat", "list", "read"} /\ target' = target /\ published' = published
        /\ pc'[t] \in {"staging", "discard", "lstat", "renameNew", "list", "read", "backup"}
      BY <1>1, <1>22 DEF Stage, Rollback, Commit, Lstat, ListTarget, ReadEntry, Compare, Rest, fsVars, Goto, Discard
  <2>2. target = t => tree'[t] = tree[t]
    <3>1. target # t
        BY <1>1, <2>1 DEF Stands, Open, Placed, Arrived
    <3> QED BY <3>1
  <2>3. value' = value
      BY <1>q, <2>1, <2>2 DEF Uncommitted
  <2>4. reply[t] = "none" /\ t \notin published
      BY <1>10, <2>1 DEF Running
  <2>5. reply'[t] = "none"
      BY <2>1, <2>4, ReplyIsNext
  <2> QED BY <1>a, <2>3, <2>4, <2>5
<1>23. CASE RemoveStage(t)
  <2>1. pc[t] = "discard" /\ target' = target /\ tree' = tree /\ published' = published /\ pc'[t] = "done"
      BY <1>1, <1>23 DEF RemoveStage, Rest, Return
  <2>2. value' = value /\ value = Hold(target)
      BY <1>q, <1>7, <2>1 DEF Uncommitted
  <2>3. reply[t] = "none" /\ t \notin published
      BY <1>10, <2>1 DEF Running
  <2>4. res'[t] = res[t] \/ res'[t] = "error"
      BY <1>23 DEF RemoveStage, Return, TypeOK
  <2>5. res[t] \in {"error", "rolledback", "reused", "collision"}
      BY <1>1, <2>1 DEF Stands
  <2>6. reply'[t] = IF res'[t] = "rolledback" THEN "error" ELSE res'[t]
      BY <2>1, <2>3, ReplyIsNext
  <2>7. CASE res'[t] = "reused"
    <3>1. value = Proposed(t)
        BY <1>1, <2>1, <2>2, <2>4, <2>7 DEF Knows, Hold
    <3> QED BY <1>d, <2>2, <2>3, <2>6, <2>7, <3>1
  <2>8. CASE res'[t] = "collision"
    <3>1. value = tree[target] /\ target \in Dirs /\ value # Proposed(t) /\ ~plan[t].force
        BY <1>1, <1>3, <2>1, <2>2, <2>4, <2>8 DEF Knows, Hold, Names
    <3>2. value # Absent
        BY <3>1, DirAssumption DEF TypeOK
    <3> QED BY <1>e, <2>2, <2>3, <2>6, <2>8, <3>1, <3>2
  <2>9. CASE res'[t] \in {"rolledback", "error"}
      BY <1>b, <2>2, <2>3, <2>6, <2>9
  <2> QED BY <2>4, <2>5, <2>7, <2>8, <2>9
<1>24. CASE RenameNew(t)
  <2>1. pc[t] = "renameNew" /\ target = Absent /\ backup[t] = Absent /\ backup' = backup /\ published' = published
      BY <1>1, <1>24 DEF RenameNew, Rest, Turn, Stands, Replacing
  <2>2. value = Absent
      BY <1>7, <2>1 DEF Uncommitted, Hold
  <2>3. \/ pc'[t] = "syncNew"
        \/ pc'[t] = "discard" /\ target' = target
      BY <1>1, <1>24 DEF RenameNew, Goto, Discard
  <2>4. value' = Absent
      BY <1>6, <1>8, <2>1, <2>3 DEF Uncommitted, Hold
  <2>5. reply[t] = "none" /\ t \notin published
      BY <1>10, <2>1 DEF Running
  <2>6. reply'[t] = "none"
      BY <2>1, <2>3, <2>5, ReplyIsNext
  <2> QED BY <1>a, <2>2, <2>4, <2>5, <2>6
<1>25. CASE SyncNew(t)
  <2>1. pc[t] = "syncNew" /\ target = t /\ backup[t] = Absent /\ UNCHANGED <<tree, target, backup>>
      BY <1>1, <1>25 DEF SyncNew, fsVars, Turn, Stands, Replacing
  <2>2. value = Absent
      BY <1>5, <2>1 DEF Uncommitted, Hold
  <2>3. reply[t] = "none" /\ t \notin published
      BY <1>10, <2>1 DEF Running
  <2>4. CASE pc'[t] = "done" /\ published' = published \cup {t}
    <3>1. value' = Proposed(t)
        BY <1>1, <1>2, <1>8, <2>1, <2>4 DEF Uncommitted, Hold, Whole
    <3>2. reply'[t] = "ok"
        BY <2>4, ReplyIsNext
    <3> QED BY <1>c, <2>2, <2>3, <3>1, <3>2
  <2>5. CASE pc'[t] = "removeNew" /\ published' = published
    <3>1. value' = value
        BY <1>2, <1>r, <2>1, <2>5 DEF Uncommitted
    <3>2. reply'[t] = "none"
        BY <2>3, <2>5, ReplyIsNext
    <3> QED BY <1>a, <2>3, <3>1, <3>2
  <2> QED BY <1>1, <1>25, <2>4, <2>5 DEF SyncNew, Goto, Return
<1>34. CASE RemoveFile(t) /\ pc[t] = "removeBackup"
  <2>1. pc[t] = "removeBackup" /\ pc' = pc /\ target = t /\ UNCHANGED <<target, published>> /\ t \in published
      BY <1>1, <1>34 DEF RemoveFile, Turn, Stands
  <2>2. value' = value
      BY <1>13, <1>q, <2>1 DEF Uncommitted
  <2>3. reply'[t] = reply[t]
      BY <2>1, ReplyIs, ReplyIsNext
  <2> QED BY <1>a, <2>2, <2>3
<1>26. CASE RemoveFile(t) /\ pc[t] # "removeBackup"
  <2>1. pc[t] \in {"removeNew", "removeTarget"} /\ pc' = pc /\ backup' = backup /\ published' = published
      BY <1>26 DEF RemoveFile
  <2>2. backup[t] # t
      BY <1>1, <1>2, <2>1 DEF Stands, Replacing, Pcs, Running
  <2>3. value' = value
      BY <1>r, <2>1, <2>2 DEF Uncommitted
  <2>4. reply'[t] = reply[t]
      BY <1>10, <2>1, ReplyIsNext DEF Running
  <2> QED BY <1>a, <2>3, <2>4
<1>27. CASE RemoveTarget(t)
  <2>1. /\ pc[t] \in {"removeNew", "removeTarget"} /\ ~Fail /\ target = t /\ Victim(t) = t
        /\ UNCHANGED <<tree, backup, published>>
      BY <1>1, <1>11, <1>27 DEF RemoveTarget, Rest, Turn, Victim, Named
  <2>2. target' = Absent /\ (IF pc[t] = "removeNew" THEN Return(t, "error") ELSE Goto(t, "reinstate"))
      BY <1>27, <2>1 DEF RemoveTarget
  <2>3. reply[t] = "none" /\ t \notin published
      BY <1>10, <2>1 DEF Running
  <2>4. CASE pc[t] = "removeNew"
    <3>1. pc'[t] = "done" /\ res'[t] = "error"
        BY <1>1, <2>2, <2>4 DEF Return, TypeOK
    <3>2. backup[t] = Absent
        BY <1>1, <2>4 DEF Stands, Replacing, Pcs, Running
    <3>3. value = Absent /\ value' = Absent
        BY <1>5, <1>8, <2>2, <2>4, <3>1, <3>2 DEF Uncommitted, Hold
    <3>4. reply'[t] = "error"
        BY <2>1, <2>3, <3>1, ReplyIsNext
    <3> QED BY <1>b, <2>3, <3>3, <3>4
  <2>5. CASE pc[t] = "removeTarget"
    <3>1. pc'[t] = "reinstate"
        BY <1>1, <2>2, <2>5 DEF Goto
    <3>2. backup[t] # t
        BY <1>1, <2>5 DEF Stands, Replacing
    <3>3. value' = value
        BY <1>r, <2>1, <2>5, <3>1, <3>2 DEF Uncommitted
    <3>4. reply'[t] = "none"
        BY <2>1, <2>3, <3>1, ReplyIsNext
    <3> QED BY <1>a, <2>3, <3>3, <3>4
  <2> QED BY <2>1, <2>4, <2>5
<1>28. CASE Backup(t)
  <2>1. pc[t] = "backup" /\ target # Absent /\ target # t /\ tree' = tree /\ published' = published
      BY <1>1, <1>28 DEF Backup, Rest, Turn, Stands, Open, Placed, Arrived
  <2>2. value = Hold(target)
      BY <1>7, <2>1 DEF Uncommitted
  <2>3. \/ pc'[t] = "replace" /\ backup'[t] = target
        \/ pc'[t] = "discard" /\ target' = target
      BY <1>1, <1>28 DEF Backup, Goto, Discard, TypeOK
  <2>4. value' = value
      BY <1>6, <1>8, <2>1, <2>2, <2>3 DEF Uncommitted, Hold
  <2>5. reply[t] = "none" /\ t \notin published
      BY <1>10, <2>1 DEF Running
  <2>6. reply'[t] = "none"
      BY <2>1, <2>3, <2>5, ReplyIsNext
  <2> QED BY <1>a, <2>4, <2>5, <2>6
<1>29. CASE Replace(t)
  <2>1. /\ pc[t] = "replace" /\ pc'[t] \in {"sync", "restore"} /\ backup[t] # t /\ backup' = backup
        /\ published' = published
      BY <1>1, <1>29 DEF Replace, Rest, Goto, Stands, Replacing
  <2>2. value' = value
      BY <1>r, <2>1 DEF Uncommitted
  <2>3. reply[t] = "none" /\ t \notin published
      BY <1>10, <2>1 DEF Running
  <2>4. reply'[t] = "none"
      BY <2>1, <2>3, ReplyIsNext
  <2> QED BY <1>a, <2>2, <2>3, <2>4
<1>30. CASE Restore(t)
  <2>1. pc[t] \in {"restore", "reinstate"} /\ ~Fail /\ target = Absent /\ tree' = tree /\ published' = published
      BY <1>1, <1>11, <1>30 DEF Restore, Rest, Turn
  <2>2. target' = backup[t]
      BY <1>30, <2>1 DEF Restore
  <2>3. \/ pc'[t] = "discard"
        \/ pc'[t] = "done" /\ res'[t] = "error"
      BY <1>1, <1>30 DEF Restore, Discard, Return, TypeOK
  <2>4. value' = value
      BY <1>5, <1>8, <2>1, <2>2, <2>3 DEF Uncommitted, Hold
  <2>5. reply[t] = "none" /\ t \notin published
      BY <1>10, <2>1 DEF Running
  <2>6. reply'[t] \in {"none", "error"}
      BY <2>1, <2>3, <2>5, ReplyIsNext
  <2> QED BY <1>a, <1>b, <2>4, <2>5, <2>6
<1>31. CASE Sync(t)
  <2>1. /\ pc[t] = "sync" /\ target = t /\ backup[t] # t /\ UNCHANGED <<tree, target, backup>>
        /\ plan[t].force
      BY <1>1, <1>31 DEF Sync, fsVars, Turn, Stands, Replacing
  <2>2. reply[t] = "none" /\ t \notin published
      BY <1>10, <2>1 DEF Running
  <2>3. CASE pc'[t] = "removeBackup" /\ published' = published \cup {t}
    <3>1. value' = Proposed(t)
        BY <1>1, <1>2, <1>8, <2>1, <2>3 DEF Uncommitted, Hold, Whole
    <3>2. reply'[t] = "ok"
        BY <2>3, ReplyIsNext
    <3> QED BY <1>c, <2>1, <2>2, <3>1, <3>2
  <2>4. CASE pc'[t] = "removeTarget" /\ published' = published
    <3>1. value' = value
        BY <1>r, <2>1, <2>4 DEF Uncommitted
    <3>2. reply'[t] = "none"
        BY <2>2, <2>4, ReplyIsNext
    <3> QED BY <1>a, <2>2, <3>1, <3>2
  <2> QED BY <1>1, <1>31, <2>3, <2>4 DEF Sync, Goto
<1>32. CASE RemoveBackup(t)
  <2>1. /\ pc[t] = "removeBackup" /\ target = t /\ backup[t] # t /\ target' = target /\ t \in published
        /\ published' = published /\ pc'[t] = "done"
      BY <1>1, <1>32 DEF RemoveBackup, Rest, Return, Turn, Stands, Replacing
  <2>2. value' = value
      BY <1>13, <1>q, <2>1 DEF Uncommitted
  <2>3. reply[t] = "ok" /\ reply'[t] = "ok"
      BY <2>1, ReplyIs, ReplyIsNext
  <2> QED BY <1>a, <2>2, <2>3
<1>33. ~Crash(t)
  <2>1. crashes \in Nat
      BY DEF TypeOK
  <2>2. Crash(t) => crashes' = crashes + 1
      BY DEF Crash
  <2>3. crashes + 1 # 0
      BY <2>1
  <2> QED BY <2>2, <2>3
<1> QED
    BY <1>21, <1>22, <1>23, <1>24, <1>25, <1>34, <1>26, <1>27, <1>28, <1>29, <1>30, <1>31, <1>32, <1>33
    DEF Step

\* Transactions that take turns see an atomic register of trees, for any
\* number of transactions and any plans: up to one failing system call each
\* of them either stores its whole tree at once, or leaves the tree as it was
\* and says so.
THEOREM AtomicInTurns == Spec => TurnsAreAtomic
<1>1. /\ TypeOK /\ TypeOK' /\ Prepared /\ Alone /\ InTurn /\ WholeInTurn /\ KnowsInTurn /\ [Next]_vars
      => [turns /\ faults' <= 1 /\ crashes' = 0 => [Register!Next]_(Register!vars)]_vars
  <2> SUFFICES ASSUME TypeOK, TypeOK', Prepared, Alone, InTurn, WholeInTurn, KnowsInTurn, Next,
                      turns, faults' <= 1, crashes' = 0
               PROVE  [Register!Next]_(Register!vars)
      OBVIOUS
  <2>1. PICK t \in Transactions : Step(t)
      BY DEF Next
  <2> QED BY <2>1, AtomicStep
<1> QED
    BY <1>1, AtomicInit, TypeCorrect, PreparedCorrect, AloneCorrect, InTurnCorrect, WholeInTurnCorrect,
       KnowsCorrect, PTL
    DEF Spec, TurnsAreAtomic
====
