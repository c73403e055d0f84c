---- MODULE SqliteCache ----
(***************************************************************************)
(* sqlitecache: the tables of cache.sqlite, used by several handles, one   *)
(* per process.  A call prepares its arguments, reads the clock, and only  *)
(* then waits for SQLite's write lock: what it writes is one transaction,  *)
(* which is one action.  Documents and artifacts may be files beside the   *)
(* database; File stands for one of them, which others replace atomically. *)
(***************************************************************************)
EXTENDS Integers, FiniteSets

CONSTANTS
    Handles,                             \* the open caches
    Queries, Results, Urls, Artifacts,   \* the keys of each table, as numbers
                                         \* in the order of their text
    Contents,    \* reports and documents
    Size,        \* [Contents -> Nat]
    Absent,      \* there is no file; or no digest was given
    Budget,      \* [Handles -> Nat]: the byte limits of a handle's Options
    Limit,       \* [Handles -> [Tables -> Nat]]: its row limits
    MaxAge,      \* the age a caller of LoadSearch and LoadSpec accepts
    MaxCalls,    \* bound: calls
    MaxSecond,   \* bound: the clock
    MaxFaults,   \* bound: transactions that fail
    MaxRewrites  \* bound: replacements of the file

Tables == {"queries", "results", "specs", "artifacts"}
Keys == [t \in Tables |-> CASE t = "queries" -> Queries [] t = "results" -> Results
                            [] t = "specs" -> Urls [] OTHER -> Artifacts]
NoKeys == [t \in Tables |-> {}]

\* `updated` counts seconds, `accessed` orders the readings of the clock in
\* nanoseconds.  `born` is when the data was stored, which no column records.
Row == [data : Contents, local : BOOLEAN, results : SUBSET Results,
        born : Nat, updated : Nat, accessed : Nat]

\* What a call holds: the keys it reads or writes, the row read or to be
\* written, what it serves and the age of that.
Calls == [keys : {f \in [Tables -> SUBSET Nat] : \A t \in Tables : f[t] \subseteq Keys[t]},
          row : Row, served : Contents \cup {Absent}, age : Int]
Stages == {"idle", "stampStore", "stampTouch", "stampList", "readSpec", "store", "touch", "list"}

ASSUME KeyAssumption == \A t \in Tables : Keys[t] \subseteq Nat /\ IsFiniteSet(Keys[t])
ASSUME LimitAssumption == Limit \in [Handles -> [Tables -> Nat \ {0}]]
ASSUME SizeAssumption ==
    /\ Size \in [Contents -> Nat] /\ Budget \in [Handles -> Nat] /\ Absent \notin Contents
ASSUME BoundAssumption ==
    /\ MaxAge \in Nat /\ MaxCalls \in Nat /\ MaxSecond \in Nat
    /\ MaxFaults \in Nat /\ MaxRewrites \in Nat

VARIABLES
    turns,     \* whether callers take turns, each call ending before the next begins
    opened,    \* the handles Open has returned
    pc,        \* the next step of each handle
    call,      \* its call: [keys, row, served, age]
    res,       \* what its last call returned
    rows,      \* the database: the rows of each table, by key
    file,      \* the file's content
    stored,    \* history: the <<url, data>> that StoreSpec committed
    second,    \* the clock in seconds
    instant,   \* readings of the clock
    calls, faults, rewrites

dbVars == <<rows, stored>>
clockVars == <<second, instant>>
countVars == <<calls, faults, rewrites>>
vars == <<turns, opened, pc, call, res, dbVars, file, clockVars, countVars>>

OldRow(d) == [data |-> d, local |-> TRUE, results |-> {}, born |-> 0, updated |-> 0, accessed |-> 0]
Call(keys, row, served, age) == [keys |-> keys, row |-> row, served |-> served, age |-> age]

\* A cache may exist already, written without these limits.
Init ==
    /\ turns \in BOOLEAN
    /\ opened = {}
    /\ pc = [h \in Handles |-> "idle"]
    /\ \E d \in Contents :
          /\ call = [h \in Handles |-> Call(NoKeys, OldRow(d), Absent, 0)]
          /\ \E old \in {NoKeys, Keys} :
                /\ rows = [t \in Tables |-> [k \in old[t] |-> OldRow(d)]]
                /\ stored = old["specs"] \X {d}
    /\ res = [h \in Handles |-> "none"]
    /\ file \in Contents \cup {Absent}
    /\ second = 0 /\ instant = 0
    /\ calls = 0 /\ faults = 0 /\ rewrites = 0

(***************************************************************************)
(* Retention.  Each row after the first `limit` in the order accessed_at   *)
(* DESC, key DESC is deleted.                                              *)
(***************************************************************************)
Newer(table, j, k) ==
    \/ table[j].accessed > table[k].accessed
    \/ table[j].accessed = table[k].accessed /\ j > k

\* A variant with a bug: one row too many.
KeptOneMore(table, limit) ==
    {k \in DOMAIN table : Cardinality({j \in DOMAIN table : Newer(table, j, k)}) <= limit}
\* ... WHERE rowid IN (SELECT ... ORDER BY accessed_at DESC, key DESC OFFSET limit)
Kept(table, limit) ==
    {k \in DOMAIN table : Cardinality({j \in DOMAIN table : Newer(table, j, k)}) < limit}

Prune(table, limit) == [k \in Kept(table, limit) |-> table[k]]

\* A variant with a bug: accessed_at is missing from the ON CONFLICT clause.
UpsertKeepsAccess(table, keys, row) ==
    [k \in DOMAIN table \cup keys |->
        IF k \notin keys THEN table[k]
        ELSE IF k \in DOMAIN table THEN [row EXCEPT !.accessed = table[k].accessed] ELSE row]
\* INSERT ... ON CONFLICT DO UPDATE
Upsert(table, keys, row) ==
    [k \in DOMAIN table \cup keys |-> IF k \in keys THEN row ELSE table[k]]

\* UPDATE ... SET accessed_at
Touch(table, keys, at) ==
    [k \in DOMAIN table |-> IF k \in keys THEN [table[k] EXCEPT !.accessed = at] ELSE table[k]]

(***************************************************************************)
(* Calls.                                                                  *)
(***************************************************************************)
CanCall(h) ==
    /\ h \in opened
    /\ pc[h] = "idle"
    /\ turns => \A g \in Handles : pc[g] = "idle"
    /\ calls < MaxCalls
    /\ calls' = calls + 1
    /\ UNCHANGED <<turns, opened, dbVars, file, clockVars, faults, rewrites>>

Goto(h, step) == pc' = [pc EXCEPT ![h] = step]
Return(h, r) == Goto(h, "idle") /\ res' = [res EXCEPT ![h] = r]
ReturnNow(h, r) == Return(h, r) /\ UNCHANGED call
Proceed(h, step, c) ==
    /\ Goto(h, step)
    /\ call' = [call EXCEPT ![h] = c]
    /\ res' = [res EXCEPT ![h] = "none"]

\* Opening prunes the database in one transaction, and so does Prune.
PruneAll(h) == rows' = [t \in Tables |-> Prune(rows[t], Limit[h][t])]
Open(h) ==
    /\ h \notin opened
    /\ opened' = opened \cup {h}
    /\ PruneAll(h)
    /\ UNCHANGED <<turns, pc, call, res, stored, file, clockVars, countVars>>
CallPrune(h) ==
    /\ h \in opened /\ pc[h] = "idle"
    /\ PruneAll(h)
    /\ UNCHANGED <<turns, opened, pc, call, res, stored, file, clockVars, countVars>>

StoredRow(d, local, results) ==
    [data |-> d, local |-> local, results |-> results, born |-> second, updated |-> second, accessed |-> 0]

StoreSearch(h) ==
    /\ CanCall(h)
    /\ \E q \in Queries, found \in SUBSET Results, d \in Contents :
          IF Size[d] <= Budget[h]
          THEN Proceed(h, "stampStore",
                   Call([NoKeys EXCEPT !["queries"] = {q}, !["results"] = found],
                        StoredRow(d, FALSE, found), Absent, 0))
          ELSE ReturnNow(h, "error")

\* A local document is read, and its digest compared with the one given.
Acceptable(h, d, digest) ==
    d # Absent /\ digest \in {Absent, d} /\ Size[d] <= Budget[h]

StoreSpec(h) ==
    /\ CanCall(h)
    /\ \E original, final \in Urls, local \in BOOLEAN, digest \in Contents \cup {Absent} :
       \E d \in IF local THEN {file} ELSE Contents :
          IF Acceptable(h, d, digest)
          THEN Proceed(h, "stampStore",
                   Call([NoKeys EXCEPT !["specs"] = {original, final}],
                        StoredRow(d, local, {}), Absent, 0))
          ELSE ReturnNow(h, "error")

StoreCatalogArtifact(h) ==
    /\ CanCall(h)
    /\ \E a \in Artifacts, digest \in Contents \cup {Absent} :
          IF Acceptable(h, file, digest)
          THEN Proceed(h, "stampStore",
                   Call([NoKeys EXCEPT !["artifacts"] = {a}],
                        StoredRow(file, TRUE, {}), Absent, 0))
          ELSE ReturnNow(h, "error")

Expired(row) == second - row.updated > MaxAge
Usable(t, k) == IF k \in DOMAIN rows[t] THEN ~Expired(rows[t][k]) ELSE FALSE

LoadSearch(h) ==
    /\ CanCall(h)
    /\ \E q \in Queries :
          IF ~Usable("queries", q) THEN ReturnNow(h, "miss")
          ELSE LET row == rows["queries"][q] IN
               IF Size[row.data] > Budget[h] THEN ReturnNow(h, "error")
               ELSE Proceed(h, "stampTouch",
                        Call([NoKeys EXCEPT !["queries"] = {q}, !["results"] = row.results],
                             row, row.data, second - row.born))

LoadSpec(h) ==
    /\ CanCall(h)
    /\ \E u \in Urls :
          IF ~Usable("specs", u) THEN ReturnNow(h, "miss")
          ELSE LET row == rows["specs"][u] IN
               Proceed(h, "readSpec",
                   Call([NoKeys EXCEPT !["specs"] = {u}], row, Absent, second - row.born))

\* A variant with a bug: the digest is not compared.
ReadSpecUnverified(h) ==
    /\ pc[h] = "readSpec"
    /\ LET d == IF call[h].row.local THEN file ELSE call[h].row.data IN
          IF d # Absent /\ Size[d] <= Budget[h]
          THEN Proceed(h, "stampTouch", [call[h] EXCEPT !.served = d])
          ELSE ReturnNow(h, "integrity")
    /\ UNCHANGED <<turns, opened, dbVars, file, clockVars, countVars>>
\* The document comes from the row or, later than the row, from the file.
ReadSpec(h) ==
    /\ pc[h] = "readSpec"
    /\ LET d == IF call[h].row.local THEN file ELSE call[h].row.data IN
          IF d = call[h].row.data /\ Size[d] <= Budget[h]
          THEN Proceed(h, "stampTouch", [call[h] EXCEPT !.served = d])
          ELSE ReturnNow(h, "integrity")
    /\ UNCHANGED <<turns, opened, dbVars, file, clockVars, countVars>>

ListCatalogArtifacts(h) ==
    /\ CanCall(h)
    /\ Proceed(h, "stampList",
           Call([NoKeys EXCEPT !["artifacts"] = DOMAIN rows["artifacts"]], call[h].row, Absent, 0))

Stamp(h) ==
    /\ pc[h] \in {"stampStore", "stampTouch", "stampList"}
    /\ instant' = instant + 1
    /\ Proceed(h,
           CASE pc[h] = "stampStore" -> "store" [] pc[h] = "stampTouch" -> "touch" [] OTHER -> "list",
           IF pc[h] = "stampStore"
           THEN [call[h] EXCEPT !.row.accessed = instant', !.row.updated = second, !.row.born = second]
           ELSE [call[h] EXCEPT !.row.accessed = instant'])
    /\ UNCHANGED <<turns, opened, dbVars, file, second, countVars>>

(***************************************************************************)
(* Transactions: committed as one action, or rolled back.                  *)
(***************************************************************************)
Succeed == UNCHANGED faults
Fail == faults < MaxFaults /\ faults' = faults + 1
Rest == UNCHANGED <<turns, opened, file, clockVars, calls, rewrites>>

\* Write the rows, then apply this handle's limits to every table.
Store(h) ==
    /\ pc[h] = "store"
    /\ rows' = [t \in Tables |->
                  Prune(Upsert(rows[t], call[h].keys[t], call[h].row), Limit[h][t])]
    /\ stored' = stored \cup (call[h].keys["specs"] \X {call[h].row.data})
    /\ ReturnNow(h, "ok")
    /\ Succeed /\ Rest

\* LoadSearch and LoadSpec update what is still there, and return the row
\* they read.
TouchRows(h) ==
    /\ pc[h] = "touch"
    /\ rows' = [t \in Tables |-> Touch(rows[t], call[h].keys[t], call[h].row.accessed)]
    /\ ReturnNow(h, "hit")
    /\ Succeed /\ UNCHANGED stored /\ Rest

\* ListCatalogArtifacts updates one row after the other, in their order.
TouchListed(h) ==
    /\ pc[h] = "list"
    /\ LET listed == call[h].keys["artifacts"] IN
          \/ /\ listed = {}
             /\ ReturnNow(h, "ok")
             /\ UNCHANGED rows
          \/ \E a \in listed :
                /\ \A b \in listed : a <= b
                /\ rows' = [t \in Tables |->
                      IF t = "artifacts" THEN Touch(rows[t], {a}, call[h].row.accessed) ELSE rows[t]]
                /\ call' = [call EXCEPT ![h] = [@ EXCEPT !.keys = [NoKeys EXCEPT !["artifacts"] = listed \ {a}]]]
                /\ UNCHANGED <<pc, res>>
    /\ Succeed /\ UNCHANGED stored /\ Rest

\* SQLITE_BUSY, or any other error: the transaction is rolled back.
Abort(h) ==
    /\ pc[h] \in {"store", "touch", "list"}
    /\ ReturnNow(h, "error")
    /\ Fail /\ UNCHANGED dbVars /\ Rest

Tick ==
    /\ second < MaxSecond
    /\ second' = second + 1
    /\ UNCHANGED <<turns, opened, pc, call, res, dbVars, file, instant, countVars>>

\* A catalog refresh replaces the file, or somebody removes it.
Rewrite ==
    /\ rewrites < MaxRewrites
    /\ rewrites' = rewrites + 1
    /\ file' \in (Contents \cup {Absent}) \ {file}
    /\ UNCHANGED <<turns, opened, pc, call, res, dbVars, clockVars, calls, faults>>

Step(h) ==
    \/ Open(h) \/ CallPrune(h)
    \/ StoreSearch(h) \/ StoreSpec(h) \/ StoreCatalogArtifact(h)
    \/ LoadSearch(h) \/ LoadSpec(h) \/ ListCatalogArtifacts(h)
    \/ ReadSpec(h) \/ Stamp(h)
    \/ Store(h) \/ TouchRows(h) \/ TouchListed(h) \/ Abort(h)

Next == (\E h \in Handles : Step(h)) \/ Tick \/ Rewrite

Spec == Init /\ [][Next]_vars

(***************************************************************************)
(* Properties.                                                             *)
(***************************************************************************)
\* Every row is a whole row of its table.
TypeOK ==
    /\ turns \in BOOLEAN /\ opened \in SUBSET Handles
    /\ pc \in [Handles -> Stages]
    /\ call \in [Handles -> Calls]
    /\ res \in [Handles -> {"none", "ok", "hit", "miss", "error", "integrity"}]
    /\ DOMAIN rows = Tables
    /\ \A t \in Tables :
          /\ DOMAIN rows[t] \subseteq Keys[t]
          /\ \A k \in DOMAIN rows[t] : rows[t][k] \in Row
    /\ file \in Contents \cup {Absent}
    /\ stored \subseteq Urls \X Contents
    /\ second \in Nat /\ instant \in Nat
    /\ calls \in 0..MaxCalls /\ faults \in 0..MaxFaults /\ rewrites \in 0..MaxRewrites

\* Once a cache is open, some open handle's limits hold for every table, no
\* matter what other handles load, store and list in between: a touch never
\* brings back a row that another handle has evicted.
WithinLimits(h) == \A t \in Tables : Cardinality(DOMAIN rows[t]) <= Limit[h][t]
Bounded == opened # {} => \E h \in opened : WithinLimits(h)

\* A hit is no older than the caller accepts, however often it was used since
\* it was stored: use keeps a row in the cache, it does not renew its data.
HitIsFresh == \A h \in Handles : res[h] = "hit" => call[h].age <= MaxAge

\* A handle serves nothing over its own byte budget, even what a handle with
\* a larger budget stored.
HitWithinBudget == \A h \in Handles : res[h] = "hit" => Size[call[h].served] <= Budget[h]

\* The document LoadSpec serves for a URL is one that StoreSpec committed for
\* that URL, though its file may have been replaced at any point.
ServedWasStored ==
    \A h \in Handles : res[h] = "hit" =>
        call[h].keys["specs"] \X {call[h].served} \subseteq stored

\* A hit is fresh, within the budget of the handle that serves it and, if it
\* is a document, one that was stored for its URL.
HitIsSound == HitIsFresh /\ HitWithinBudget /\ ServedWasStored

\* A table as README.md describes it.
Pending(t) ==
    [h \in Handles |->
        CASE pc[h] = "store" -> [op |-> "store", keys |-> call[h].keys[t]]
          [] pc[h] \in {"touch", "list"} -> [op |-> "use", keys |-> call[h].keys[t]]
          [] OTHER -> [op |-> "none", keys |-> {}]]
Order(table) == {p \in (DOMAIN table) \X (DOMAIN table) : Newer(table, p[1], p[2])}
Table(t) == INSTANCE LruTable WITH Keys <- Keys[t], Clients <- Handles,
    Limit <- [h \in Handles |-> Limit[h][t]],
    held <- DOMAIN rows[t], newer <- Order(rows[t]), pending <- Pending(t), reply <- res

\* When calls take turns the tables of searches, results, documents and
\* artifacts each implement least-recently-used retention, whichever call uses
\* them and whatever that call does to the other tables in its transaction
\* (README.md: "Search queries/results, document rows, and catalog artifact rows
\* use deterministic least-recently-used retention").
LruInit == \A t \in Tables : Table(t)!Init
LruStep == \A t \in Tables : [Table(t)!Next]_(Table(t)!vars)
TablesAreLru == LruInit /\ [][turns => LruStep]_vars
====
