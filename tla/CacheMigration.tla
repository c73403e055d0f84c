---- MODULE CacheMigration ----
(***************************************************************************)
(* sqlitecache: migrate, which every Open runs statement by statement.     *)
(* Each statement, and the rebuilding of spec_documents, is a transaction  *)
(* of its own; what a process has read of the schema may be stale when it  *)
(* acts on it.  The table is spec_documents; the other three only gain     *)
(* accessed_at, in the same steps.                                         *)
(***************************************************************************)
EXTENDS Naturals, FiniteSets

CONSTANTS
    Openers,     \* the processes that open the cache
    Urls,        \* the keys of spec_documents
    MaxFaults,   \* bound: statements that fail
    MaxCrashes,  \* bound: processes that die
    MaxUses      \* bound: rows stored or touched by open caches

\* A schema: does the table have content_path, is content NOT NULL, does it
\* have accessed_at?
Blob == [path |-> FALSE, notNull |-> TRUE, accessed |-> FALSE]
BlobOrPath == [path |-> TRUE, notNull |-> TRUE, accessed |-> FALSE]
Unstamped == [path |-> TRUE, notNull |-> FALSE, accessed |-> FALSE]
Current == [path |-> TRUE, notNull |-> FALSE, accessed |-> TRUE]

\* accessed_at is the default, a copy of updated_at, which is in seconds and
\* so less than any stamp in nanoseconds, or such a stamp.
Default == 0
Seconds == 1
Nanoseconds == 2
\* A row holds its document, or the path of its file, or both.
Check(row) == row.path \/ row.content
Inline == [path |-> FALSE, content |-> TRUE, accessed |-> Default]
Both == [path |-> TRUE, content |-> TRUE, accessed |-> Default]
Local == [path |-> TRUE, content |-> FALSE, accessed |-> Default]

VARIABLES
    opening,  \* the next statement of each process
    columns,  \* the columns it has read
    schema,   \* the schema of spec_documents
    rows,     \* its rows, by URL
    meta,     \* the number of rows of schema_meta
    used,     \* history: the rows stored or touched by an open cache
    turns,    \* do the processes take turns opening it?
    faults, crashes, uses

dbVars == <<schema, rows, meta>>
cacheVars == <<opening, columns, dbVars, used, turns, faults, crashes, uses>>

Opening == {"columns", "rebuild", "access", "alter", "stamp", "forget", "record"}

MigrationInit ==
    /\ opening = [p \in Openers |-> "closed"]
    /\ \E old \in {Blob, BlobOrPath, Unstamped, Current} :
          /\ schema = old
          /\ columns = [p \in Openers |-> old]
          /\ \E S \in SUBSET Urls :
                rows \in [S -> IF old = Blob THEN {Inline}
                               ELSE IF old = BlobOrPath THEN {Inline, Both}
                               ELSE {Inline, Local}]
          /\ meta \in IF old = Current THEN {0, 1} ELSE {0}
    /\ used = {} /\ turns \in BOOLEAN
    /\ faults = 0 /\ crashes = 0 /\ uses = 0

Goto(p, step) == opening' = [opening EXCEPT ![p] = step]
Count == UNCHANGED <<turns, faults, crashes, uses>>
Look(p) == columns' = [columns EXCEPT ![p] = schema]

\* CREATE TABLE IF NOT EXISTS finds the tables there.
Open(p) ==
    /\ opening[p] = "closed"
    /\ turns => \A q \in Openers : opening[q] \notin Opening
    /\ Goto(p, "columns")
    /\ UNCHANGED <<columns, dbVars, used>> /\ Count

ReadColumns(p) ==
    /\ opening[p] = "columns"
    /\ Look(p)
    /\ Goto(p, IF schema.path /\ ~schema.notNull THEN "access" ELSE "rebuild")
    /\ UNCHANGED <<dbVars, used>> /\ Count

\* A variant with a bug: the path is not copied.
CopiedContent(row, c) == [path |-> FALSE, content |-> row.content, accessed |-> Default]
\* The row as INSERT ... SELECT copies it; a process that saw no content_path
\* selects '' for it.
Copied(row, c) == [path |-> row.path /\ c.path, content |-> row.content, accessed |-> Default]

\* Rename, create, copy and drop in one transaction, which the CHECK of the
\* new table may refuse.
Rebuild(p) ==
    /\ opening[p] = "rebuild"
    /\ LET copy == [u \in DOMAIN rows |-> Copied(rows[u], columns[p])] IN
          IF \A u \in DOMAIN rows : Check(copy[u])
          THEN /\ rows' = copy
               /\ schema' = Current
               /\ Goto(p, "access")
          ELSE /\ Goto(p, "failed")
               /\ UNCHANGED <<rows, schema>>
    /\ UNCHANGED <<columns, meta, used>> /\ Count

\* A variant with a bug: the column is added without looking for it.
ReadAccessAlways(p) ==
    /\ opening[p] = "access"
    /\ Look(p)
    /\ Goto(p, "alter")
    /\ UNCHANGED <<dbVars, used>> /\ Count
\* Which columns does the table have by now?
ReadAccess(p) ==
    /\ opening[p] = "access"
    /\ Look(p)
    /\ Goto(p, IF schema.accessed THEN "stamp" ELSE "alter")
    /\ UNCHANGED <<dbVars, used>> /\ Count

\* ALTER TABLE ADD COLUMN fails when the column is there.
Alter(p) ==
    /\ opening[p] = "alter"
    /\ IF schema.accessed
       THEN Goto(p, "failed") /\ UNCHANGED <<schema, rows>>
       ELSE /\ schema' = [schema EXCEPT !.accessed = TRUE]
            /\ rows' = [u \in DOMAIN rows |-> [rows[u] EXCEPT !.accessed = Default]]
            /\ Goto(p, "stamp")
    /\ UNCHANGED <<columns, meta, used>> /\ Count

\* A variant with a bug: rows that have a stamp lose it.
StampAllRows(p) ==
    /\ opening[p] = "stamp"
    /\ rows' = [u \in DOMAIN rows |-> [rows[u] EXCEPT !.accessed = Seconds]]
    /\ Goto(p, "forget")
    /\ UNCHANGED <<columns, schema, meta, used>> /\ Count
\* UPDATE ... SET accessed_at = updated_at WHERE accessed_at = 0
StampRows(p) ==
    /\ opening[p] = "stamp"
    /\ rows' = [u \in DOMAIN rows |->
                  IF rows[u].accessed = Default THEN [rows[u] EXCEPT !.accessed = Seconds] ELSE rows[u]]
    /\ Goto(p, "forget")
    /\ UNCHANGED <<columns, schema, meta, used>> /\ Count

\* DELETE FROM schema_meta, and the INSERT that follows it, on their own.
ForgetVersion(p) ==
    /\ opening[p] = "forget"
    /\ meta' = 0
    /\ Goto(p, "record")
    /\ UNCHANGED <<columns, schema, rows, used>> /\ Count

RecordVersion(p) ==
    /\ opening[p] = "record"
    /\ meta' = meta + 1
    /\ Goto(p, "ready")
    /\ UNCHANGED <<columns, schema, rows, used>> /\ Count

\* A statement fails (SQLITE_BUSY, a full disk); Open closes the database and
\* returns the error.
FailStatement(p) ==
    /\ opening[p] \in Opening
    /\ faults < MaxFaults
    /\ faults' = faults + 1
    /\ Goto(p, "failed")
    /\ UNCHANGED <<columns, dbVars, used, turns, crashes, uses>>

\* The process dies; SQLite rolls an open transaction back.
Crash(p) ==
    /\ opening[p] \in Opening
    /\ crashes < MaxCrashes
    /\ crashes' = crashes + 1
    /\ Goto(p, "dead")
    /\ UNCHANGED <<columns, dbVars, used, turns, faults, uses>>

\* The caller opens the cache again, after a failure or in a new process.
Retry(p) ==
    /\ opening[p] \in {"failed", "dead"}
    /\ Goto(p, "closed")
    /\ UNCHANGED <<columns, dbVars, used>> /\ Count

\* An open cache stores a document or loads one (StoreSpec, LoadSpec).
Use(p) ==
    /\ opening[p] = "ready"
    /\ uses < MaxUses
    /\ uses' = uses + 1
    /\ \E u \in Urls :
          /\ \/ \E local \in BOOLEAN :
                   rows' = [x \in DOMAIN rows \cup {u} |->
                       IF x = u THEN [path |-> local, content |-> ~local, accessed |-> Nanoseconds]
                       ELSE rows[x]]
             \/ u \in DOMAIN rows /\ rows' = [rows EXCEPT ![u].accessed = Nanoseconds]
          /\ used' = used \cup {u}
    /\ UNCHANGED <<opening, columns, schema, meta, turns, faults, crashes>>

OpenStep(p) ==
    \/ ReadColumns(p) \/ Rebuild(p) \/ ReadAccess(p) \/ Alter(p) \/ StampRows(p)
    \/ ForgetVersion(p) \/ RecordVersion(p)

MigrationNext == \E p \in Openers : Open(p) \/ OpenStep(p) \/ FailStatement(p) \/ Crash(p) \/ Retry(p) \/ Use(p)

Migration == MigrationInit /\ [][MigrationNext]_cacheVars

(***************************************************************************)
(* Properties.                                                             *)
(***************************************************************************)
\* The statements of an open cache find the columns they name, though another
\* process may be rebuilding the table, and no row gets past the CHECK of its
\* table.
ReadyIsUsable ==
    /\ \A p \in Openers : opening[p] = "ready" => schema = Current
    /\ \A u \in DOMAIN rows : Check(rows[u])
OpenNeverFails == turns /\ faults = 0 => \A p \in Openers : opening[p] # "failed"

\* An open cache is usable; and processes that take turns can always open it,
\* wherever an earlier one died: no step of the migration is in the way of the
\* next attempt.
OpenIsUsable == ReadyIsUsable /\ OpenNeverFails

Held(table) == [u \in DOMAIN table |-> [path |-> table[u].path, content |-> table[u].content]]
DocumentsSurvive == (\E p \in Openers : OpenStep(p)) => Held(rows') = Held(rows)
VersionRecorded == \A p \in Openers : turns /\ opening[p] = "record" /\ opening'[p] = "ready" => meta' = 1

\* No opener takes a document, or the path of one, out of the database, in
\* whatever order several of them migrate it and use it, wherever they fail;
\* and those that take turns each leave exactly one schema version.
MigrationIsSound == [][DocumentsSurvive /\ VersionRecorded]_cacheVars

\* A document used by an open cache keeps its rank when another process opens
\* the cache afterwards (README.md: "deterministic least-recently-used
\* retention").  Processes that migrate at once may still reset it.
UseOutranksMigration == turns => \A u \in used : rows[u].accessed = Nanoseconds
====
