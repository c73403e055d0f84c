---- MODULE CacheMigration_proofs ----
(***************************************************************************)
(* Any number of processes open a cache of any earlier schema at once or   *)
(* in turns, and die or fail anywhere.                                     *)
(***************************************************************************)
EXTENDS CacheMigration, TLAPS

Schemas == {Blob, BlobOrPath, Unstamped, Current}
Row == [path : BOOLEAN, content : BOOLEAN, accessed : {Default, Seconds, Nanoseconds}]
Closed == {"closed", "failed", "dead", "ready"}

Types ==
    /\ opening \in [Openers -> Opening \cup Closed]
    /\ columns \in [Openers -> Schemas] /\ schema \in Schemas
    /\ rows = [u \in DOMAIN rows |-> rows[u]] /\ \A u \in DOMAIN rows : rows[u] \in Row
    /\ meta \in Nat /\ faults \in Nat /\ turns \in BOOLEAN

\* What an opener has got past, whoever did it.
Reached ==
    \A p \in Openers :
        /\ opening[p] \in {"access", "alter"} => schema \in {Unstamped, Current}
        /\ opening[p] \in {"stamp", "forget", "record", "ready"} => schema = Current

\* A table without content_path holds no paths.  A process that has seen such
\* a table copies no path, so no row may then hold its document both ways: the
\* CHECK refuses the copy of one that holds a path only.
Copyable ==
    /\ schema = Blob => \A u \in DOMAIN rows : ~rows[u].path
    /\ (schema = Blob \/ \E p \in Openers : columns[p] = Blob) =>
           \A u \in DOMAIN rows : ~(rows[u].path /\ rows[u].content)

\* In turns, what an opener has read still holds, and it is the only one to
\* write the version.
Alone == \A p, q \in Openers : opening[p] \in Opening /\ opening[q] \in Opening => p = q
Fresh ==
    \A p \in Openers :
        /\ opening[p] \in {"rebuild", "alter"} => columns[p] = schema
        /\ opening[p] = "rebuild" => schema \notin {Unstamped, Current}
        /\ opening[p] = "alter" => schema # Current
        /\ opening[p] = "record" => meta = 0
Ranked == \A u \in used : u \in DOMAIN rows /\ rows[u].accessed = Nanoseconds

IInv ==
    /\ Types /\ Reached /\ Copyable /\ ReadyIsUsable /\ OpenNeverFails
    /\ used # {} => schema = Current
    /\ turns => Alone /\ Fresh /\ Ranked

LEMMA SchemasDiffer ==
    /\ Blob # BlobOrPath /\ Blob # Unstamped /\ Blob # Current
    /\ BlobOrPath # Unstamped /\ BlobOrPath # Current /\ Unstamped # Current
    /\ \A s \in Schemas :
          /\ s.path <=> s # Blob
          /\ s.notNull <=> s \in {Blob, BlobOrPath}
          /\ s.accessed <=> s = Current
  BY DEF Schemas, Blob, BlobOrPath, Unstamped, Current

LEMMA InitIInv == MigrationInit => IInv
<1> SUFFICES ASSUME MigrationInit PROVE IInv
    OBVIOUS
<1>1. PICK old \in {Blob, BlobOrPath, Unstamped, Current} :
         /\ schema = old
         /\ columns = [p \in Openers |-> old]
         /\ \E S \in SUBSET Urls :
               rows \in [S -> IF old = Blob THEN {Inline}
                              ELSE IF old = BlobOrPath THEN {Inline, Both}
                              ELSE {Inline, Local}]
         /\ meta \in IF old = Current THEN {0, 1} ELSE {0}
    BY DEF MigrationInit
<1>2. PICK S \in SUBSET Urls :
         rows \in [S -> IF old = Blob THEN {Inline}
                        ELSE IF old = BlobOrPath THEN {Inline, Both}
                        ELSE {Inline, Local}]
    BY <1>1
<1>3. /\ rows = [u \in DOMAIN rows |-> rows[u]]
      /\ \A u \in DOMAIN rows : rows[u] \in {Inline, Both, Local}
      /\ old = Blob => \A u \in DOMAIN rows : rows[u] = Inline
    BY <1>2
<1>4. \A row \in {Inline, Both, Local} : row \in Row /\ Check(row)
  <2>1. Inline \in Row /\ Both \in Row /\ Local \in Row
      BY DEF Inline, Both, Local, Row, Default, Seconds, Nanoseconds
  <2>2. Inline.content /\ Both.content /\ Local.path
      BY DEF Inline, Both, Local
  <2> QED BY <2>1, <2>2 DEF Check
<1>5. Types
    BY <1>1, <1>3, <1>4 DEF MigrationInit, Types, Schemas, Closed
<1>6. Reached /\ Alone /\ Fresh /\ Ranked /\ OpenNeverFails
    BY DEF MigrationInit, Reached, Alone, Fresh, Ranked, OpenNeverFails, Opening
<1>7. Copyable
  <2>1. ~Inline.path
      BY DEF Inline
  <2>2. (schema = Blob \/ \E p \in Openers : columns[p] = Blob) => old = Blob
      BY <1>1
  <2> QED BY <1>1, <1>3, <2>1, <2>2 DEF Copyable
<1>8. ReadyIsUsable
    BY <1>3, <1>4 DEF MigrationInit, ReadyIsUsable
<1> QED BY <1>5, <1>6, <1>7, <1>8 DEF MigrationInit, IInv

(***************************************************************************)
(* The steps.                                                              *)
(***************************************************************************)
\* A step that leaves the database alone and takes an opener to a statement
\* that is not the next of its migration.
LEMMA LeavesKeep ==
    ASSUME NEW p \in Openers, IInv, NEW step \in {"closed", "failed", "dead"}, Goto(p, step),
           UNCHANGED <<columns, dbVars, used, turns>>,
           faults' \in Nat, faults' = 0 => faults = 0,
           turns /\ faults' = 0 => step # "failed"
    PROVE  IInv'
<1> USE DEF IInv, Goto, dbVars
<1>1. Types'
    BY DEF Types, Closed
<1>2. \A q \in Openers : opening'[q] = IF q = p THEN step ELSE opening[q]
    BY DEF Types
<1>3. Reached' /\ ReadyIsUsable'
    BY <1>2 DEF Reached, ReadyIsUsable
<1>4. Copyable' /\ (used # {} => schema = Current)'
    BY DEF Copyable
<1>5. OpenNeverFails'
    BY <1>2 DEF OpenNeverFails
<1>6. turns => Alone' /\ Fresh' /\ Ranked'
    BY <1>2 DEF Alone, Fresh, Ranked, Opening
<1> QED BY <1>1, <1>3, <1>4, <1>5, <1>6

LEMMA OpenKeeps == ASSUME NEW p \in Openers, IInv, Open(p) PROVE IInv'
<1> USE DEF IInv
<1>1. /\ opening' = [opening EXCEPT ![p] = "columns"] /\ UNCHANGED <<columns, schema, rows, meta, used, turns, faults>>
      /\ turns => \A q \in Openers : opening[q] \notin Opening
    BY DEF Open, Goto, dbVars, Count
<1>2. Types'
    BY <1>1 DEF Types, Opening
<1>3. \A q \in Openers : opening'[q] = IF q = p THEN "columns" ELSE opening[q]
    BY <1>1 DEF Types
<1>4. Reached' /\ ReadyIsUsable' /\ OpenNeverFails'
    BY <1>1, <1>3 DEF Reached, ReadyIsUsable, OpenNeverFails
<1>5. Copyable' /\ (used # {} => schema = Current)'
    BY <1>1 DEF Copyable
<1>6. turns => Alone' /\ Fresh' /\ Ranked'
    BY <1>1, <1>3 DEF Alone, Fresh, Ranked
<1> QED BY <1>1, <1>2, <1>4, <1>5, <1>6

\* A step that reads the columns, or changes the number of versions.
LEMMA LookKeeps ==
    ASSUME NEW p \in Openers, IInv, opening[p] \in Opening,
           NEW step \in Opening \cup {"ready"}, Goto(p, step),
           NEW look \in {schema, columns[p]}, columns' = [columns EXCEPT ![p] = look],
           UNCHANGED <<schema, rows, used, turns, faults>>, meta' \in Nat,
           step \in {"access", "alter"} => schema \in {Unstamped, Current},
           step \in {"stamp", "forget", "record", "ready"} => schema = Current,
           step = "rebuild" => look = schema /\ schema \notin {Unstamped, Current},
           step = "alter" => look = schema /\ (turns => schema # Current),
           step = "record" => meta' = 0
    PROVE  IInv'
<1> USE DEF IInv, Goto
<1>1. Types'
    BY DEF Types, Closed
<1>2. \A q \in Openers : opening'[q] = (IF q = p THEN step ELSE opening[q]) /\ columns'[q] = (IF q = p THEN look ELSE columns[q])
    BY DEF Types
<1>3. Reached' /\ ReadyIsUsable'
    BY <1>2 DEF Reached, ReadyIsUsable
<1>4. Copyable' /\ (used # {} => schema = Current)'
    BY <1>2 DEF Copyable
<1>5. OpenNeverFails'
    BY <1>2 DEF OpenNeverFails, Opening
<1>6. turns => Alone' /\ Fresh' /\ Ranked'
    BY <1>2 DEF Alone, Fresh, Ranked, Opening
<1> QED BY <1>1, <1>3, <1>4, <1>5, <1>6

LEMMA ReadColumnsKeeps == ASSUME NEW p \in Openers, IInv, ReadColumns(p) PROVE IInv'
<1> DEFINE step == IF schema.path /\ ~schema.notNull THEN "access" ELSE "rebuild"
<1>1. /\ opening[p] \in Opening /\ Goto(p, step) /\ columns' = [columns EXCEPT ![p] = schema]
      /\ UNCHANGED <<schema, rows, used, turns, faults, meta>>
    BY DEF ReadColumns, Look, Count, dbVars, Opening
<1>2. schema \in Schemas /\ meta' \in Nat
    BY <1>1 DEF IInv, Types
<1>3. /\ step = "access" => schema \in {Unstamped, Current}
      /\ step = "rebuild" => schema \notin {Unstamped, Current}
      /\ step \in {"access", "rebuild"} /\ step \in Opening
    BY <1>2, SchemasDiffer DEF Schemas, Opening
<1> HIDE DEF step
<1> QED BY <1>1, <1>2, <1>3, LookKeeps

LEMMA ReadAccessKeeps == ASSUME NEW p \in Openers, IInv, ReadAccess(p) PROVE IInv'
<1> DEFINE step == IF schema.accessed THEN "stamp" ELSE "alter"
<1>1. /\ opening[p] \in Opening /\ Goto(p, step) /\ columns' = [columns EXCEPT ![p] = schema]
      /\ UNCHANGED <<schema, rows, used, turns, faults, meta>> /\ opening[p] = "access"
    BY DEF ReadAccess, Look, Count, dbVars, Opening
<1>2. schema \in Schemas /\ meta' \in Nat /\ schema \in {Unstamped, Current}
    BY <1>1 DEF IInv, Types, Reached
<1>3. /\ step = "stamp" => schema = Current
      /\ step = "alter" => schema # Current
      /\ step \in {"stamp", "alter"} /\ step \in Opening
    BY <1>2, SchemasDiffer DEF Opening
<1> HIDE DEF step
<1> QED BY <1>1, <1>2, <1>3, LookKeeps

LEMMA VersionKeeps == ASSUME NEW p \in Openers, IInv, ForgetVersion(p) \/ RecordVersion(p) PROVE IInv'
<1> DEFINE step == IF opening[p] = "forget" THEN "record" ELSE "ready"
           look == columns[p]
<1>1. /\ columns' = [columns EXCEPT ![p] = look] /\ UNCHANGED <<schema, rows, used, turns, faults>>
      /\ opening[p] \in {"forget", "record"} /\ opening[p] \in Opening /\ Goto(p, step)
      /\ meta' = IF step = "record" THEN 0 ELSE meta + 1
    BY DEF ForgetVersion, RecordVersion, Count, IInv, Types, Opening
<1>2. look \in {schema, columns[p]} /\ step \in {"record", "ready"} /\ step \in Opening \cup {"ready"}
    BY DEF Opening
<1>3. schema = Current /\ meta' \in Nat
    BY <1>1 DEF IInv, Reached, Types
<1> HIDE DEF step, look
<1> QED BY <1>1, <1>2, <1>3, LookKeeps

\* A step that writes the table, which then is of the current schema.
LEMMA TableKeeps ==
    ASSUME NEW p \in Openers, IInv, opening[p] \in Opening,
           NEW step \in {"access", "stamp", "forget"}, Goto(p, step),
           UNCHANGED <<columns, meta, used, turns, faults>>, schema' = Current,
           DOMAIN rows' = DOMAIN rows, rows' = [u \in DOMAIN rows' |-> rows'[u]],
           \A u \in DOMAIN rows :
               /\ rows'[u] \in Row /\ Check(rows'[u])
               /\ rows'[u].path => rows[u].path
               /\ rows'[u].content <=> rows[u].content,
           turns => Ranked'
    PROVE  IInv'
<1> USE DEF IInv, Goto
<1>1. Types'
    BY DEF Types, Opening, Schemas
<1>2. \A q \in Openers : opening'[q] = IF q = p THEN step ELSE opening[q]
    BY DEF Types
<1>3. Reached'
    BY DEF Reached
<1>4. ReadyIsUsable'
    BY DEF ReadyIsUsable
<1>5. Copyable'
    BY SchemasDiffer DEF Copyable
<1>6. OpenNeverFails'
    BY <1>2 DEF OpenNeverFails
<1>7. turns => Alone' /\ Fresh'
    BY <1>2 DEF Alone, Fresh, Opening
<1> QED BY <1>1, <1>3, <1>4, <1>5, <1>6, <1>7

\* What Rebuild copies; the copy holds what the row did if the CHECK accepts
\* it, and in turns it does.
LEMMA CopyHolds ==
    ASSUME NEW p \in Openers, IInv, opening[p] = "rebuild", NEW u \in DOMAIN rows
    PROVE  /\ Copied(rows[u], columns[p]) \in Row
           /\ Copied(rows[u], columns[p]).content = rows[u].content
           /\ Copied(rows[u], columns[p]).path => rows[u].path
           /\ Check(Copied(rows[u], columns[p])) => Copied(rows[u], columns[p]).path = rows[u].path
           /\ turns => Check(Copied(rows[u], columns[p]))
<1> DEFINE copy == Copied(rows[u], columns[p])
<1>1. rows[u] \in Row /\ columns[p] \in Schemas /\ Check(rows[u])
    BY DEF IInv, Types, ReadyIsUsable
<1>2. /\ rows[u].path \in BOOLEAN /\ rows[u].content \in BOOLEAN /\ columns[p].path \in BOOLEAN
      /\ columns[p].path <=> columns[p] # Blob
  <2>1. rows[u].path \in BOOLEAN /\ rows[u].content \in BOOLEAN
      BY <1>1 DEF Row
  <2>2. columns[p].path <=> columns[p] # Blob
      BY <1>1, SchemasDiffer
  <2>3. columns[p] \in [path : BOOLEAN, notNull : BOOLEAN, accessed : BOOLEAN]
    <3> DEFINE Flags == [path : BOOLEAN, notNull : BOOLEAN, accessed : BOOLEAN]
    <3>1. Blob \in Flags /\ BlobOrPath \in Flags
        BY DEF Blob, BlobOrPath
    <3>2. Unstamped \in Flags /\ Current \in Flags
        BY DEF Unstamped, Current
    <3> QED BY <1>1, <3>1, <3>2 DEF Schemas
  <2> QED BY <2>1, <2>2, <2>3
<1>3. copy.path = (rows[u].path /\ columns[p].path) /\ copy.content = rows[u].content
    BY DEF Copied
<1>4. copy \in Row
    BY <1>2 DEF Copied, Row
<1>5. CASE columns[p] = Blob
  <2>1. ~(rows[u].path /\ rows[u].content)
      BY <1>5 DEF IInv, Copyable
  <2>2. turns => ~rows[u].path
      BY <1>5 DEF IInv, Fresh, Copyable
  <2> QED BY <1>1, <1>2, <1>3, <1>4, <1>5, <2>1, <2>2 DEF Check
<1>6. CASE columns[p] # Blob
    BY <1>1, <1>2, <1>3, <1>4, <1>6 DEF Check
<1> QED BY <1>5, <1>6

LEMMA RebuildKeeps == ASSUME NEW p \in Openers, IInv, Rebuild(p) PROVE IInv'
<1> DEFINE copy == [u \in DOMAIN rows |-> Copied(rows[u], columns[p])]
<1>1. opening[p] = "rebuild" /\ UNCHANGED <<columns, meta, used, turns, faults>>
    BY DEF Rebuild, Count
<1>2. CASE /\ \A u \in DOMAIN rows : Check(copy[u])
           /\ rows' = copy /\ schema' = Current /\ Goto(p, "access")
  <2>1. \A u \in DOMAIN rows :
            /\ rows'[u] \in Row /\ Check(rows'[u])
            /\ rows'[u].path => rows[u].path
            /\ rows'[u].content <=> rows[u].content
      BY <1>1, <1>2, CopyHolds
  <2>2. turns => used = {}
      BY <1>1 DEF IInv, Fresh
  <2>3. turns => Ranked'
      BY <1>1, <2>2 DEF Ranked
  <2>4. DOMAIN rows' = DOMAIN rows /\ rows' = [u \in DOMAIN rows' |-> rows'[u]] /\ opening[p] \in Opening
      BY <1>1, <1>2 DEF Opening
  <2> QED BY <1>1, <1>2, <2>1, <2>3, <2>4, TableKeeps
<1>3. CASE /\ ~\A u \in DOMAIN rows : Check(copy[u])
           /\ UNCHANGED <<rows, schema>> /\ Goto(p, "failed")
  <2>1. ~turns
      BY <1>1, <1>3, CopyHolds
  <2> QED BY <1>1, <1>3, <2>1, LeavesKeep DEF dbVars, IInv, Types
<1> QED BY <1>2, <1>3 DEF Rebuild

LEMMA AlterKeeps == ASSUME NEW p \in Openers, IInv, Alter(p) PROVE IInv'
<1>1. /\ opening[p] = "alter" /\ UNCHANGED <<columns, meta, used, turns, faults>>
      /\ schema \in {Unstamped, Current} /\ schema \in Schemas
    BY DEF Alter, Count, IInv, Reached, Types
<1>2. CASE schema.accessed /\ UNCHANGED <<schema, rows>> /\ Goto(p, "failed")
  <2>1. ~turns
      BY <1>1, <1>2, SchemasDiffer DEF IInv, Fresh
  <2> QED BY <1>1, <1>2, <2>1, LeavesKeep DEF dbVars, IInv, Types
<1>3. CASE /\ ~schema.accessed
           /\ schema' = [schema EXCEPT !.accessed = TRUE]
           /\ rows' = [u \in DOMAIN rows |-> [rows[u] EXCEPT !.accessed = Default]]
           /\ Goto(p, "stamp")
  <2>1. schema = Unstamped
      BY <1>1, <1>3, SchemasDiffer
  <2>2. schema' = Current
      BY <1>3, <2>1 DEF Unstamped, Current
  <2>3. \A u \in DOMAIN rows : rows[u] \in Row /\ Check(rows[u])
      BY DEF IInv, Types, ReadyIsUsable
  <2>4. \A u \in DOMAIN rows :
            /\ rows'[u] \in Row
            /\ rows'[u].path = rows[u].path
            /\ rows'[u].content = rows[u].content
      BY <1>3, <2>3 DEF Row
  <2>5. used = {}
      BY <2>1, SchemasDiffer DEF IInv
  <2>6. Ranked'
      BY <1>1, <2>5 DEF Ranked
  <2>7. DOMAIN rows' = DOMAIN rows /\ rows' = [u \in DOMAIN rows' |-> rows'[u]] /\ opening[p] \in Opening
      BY <1>1, <1>3 DEF Opening
  <2>8. \A u \in DOMAIN rows : Check(rows'[u])
      BY <2>3, <2>4 DEF Check
  <2> QED BY <1>1, <1>3, <2>2, <2>4, <2>6, <2>7, <2>8, TableKeeps
<1> QED BY <1>2, <1>3 DEF Alter

LEMMA StampRowsKeeps == ASSUME NEW p \in Openers, IInv, StampRows(p) PROVE IInv'
<1>1. /\ opening[p] = "stamp" /\ UNCHANGED <<columns, schema, meta, used, turns, faults>> /\ Goto(p, "forget")
      /\ rows' = [u \in DOMAIN rows |->
                    IF rows[u].accessed = Default THEN [rows[u] EXCEPT !.accessed = Seconds] ELSE rows[u]]
    BY DEF StampRows, Count
<1>2. schema' = Current /\ opening[p] \in Opening
    BY <1>1 DEF IInv, Reached, Opening
<1>3. \A u \in DOMAIN rows : rows[u] \in Row /\ Check(rows[u])
    BY DEF IInv, Types, ReadyIsUsable
<1>4. \A u \in DOMAIN rows :
          /\ rows'[u] \in Row
          /\ rows'[u].path = rows[u].path
          /\ rows'[u].content = rows[u].content
          /\ rows[u].accessed = Nanoseconds => rows'[u].accessed = Nanoseconds
    BY <1>1, <1>3 DEF Row, Default, Nanoseconds
<1>5. \A u \in DOMAIN rows : Check(rows'[u])
    BY <1>3, <1>4 DEF Check
<1>6. DOMAIN rows' = DOMAIN rows /\ rows' = [u \in DOMAIN rows' |-> rows'[u]]
    BY <1>1
<1>7. turns => Ranked'
    BY <1>1, <1>4, <1>6 DEF IInv, Ranked
<1> QED BY <1>1, <1>2, <1>4, <1>5, <1>6, <1>7, TableKeeps

LEMMA UseKeeps == ASSUME NEW p \in Openers, IInv, Use(p) PROVE IInv'
<1> USE DEF IInv
<1>1. opening[p] = "ready" /\ schema = Current /\ UNCHANGED <<opening, columns, schema, meta, turns, faults>>
    BY DEF Use, Reached
<1>2. PICK u \in Urls :
         /\ \/ \E local \in BOOLEAN :
                  rows' = [x \in DOMAIN rows \cup {u} |->
                      IF x = u THEN [path |-> local, content |-> ~local, accessed |-> Nanoseconds]
                      ELSE rows[x]]
            \/ u \in DOMAIN rows /\ rows' = [rows EXCEPT ![u].accessed = Nanoseconds]
         /\ used' = used \cup {u}
    BY DEF Use
<1> DEFINE Written ==
             /\ rows' = [x \in DOMAIN rows' |-> rows'[x]] /\ DOMAIN rows' = DOMAIN rows \cup {u}
             /\ \A x \in DOMAIN rows' :
                   /\ rows'[x] \in Row /\ Check(rows'[x])
                   /\ x # u => rows'[x] = rows[x]
             /\ rows'[u].accessed = Nanoseconds
             /\ (\A x \in DOMAIN rows : ~(rows[x].path /\ rows[x].content)) =>
                    ~(rows'[u].path /\ rows'[u].content)
<1>3. Written
  <2>0. \A x \in DOMAIN rows : rows[x] \in Row /\ Check(rows[x])
      BY DEF Types, ReadyIsUsable
  <2>1. CASE u \in DOMAIN rows /\ rows' = [rows EXCEPT ![u].accessed = Nanoseconds]
    <3>1. rows'[u] \in Row /\ rows'[u].path = rows[u].path /\ rows'[u].content = rows[u].content
          /\ rows'[u].accessed = Nanoseconds
        BY <2>0, <2>1 DEF Row, Types
    <3>2. DOMAIN rows' = DOMAIN rows /\ rows' = [x \in DOMAIN rows' |-> rows'[x]]
          /\ \A x \in DOMAIN rows : x # u => rows'[x] = rows[x]
        BY <2>1 DEF Types
    <3>3. Check(rows'[u])
        BY <2>0, <2>1, <3>1 DEF Check
    <3> QED BY <2>0, <2>1, <3>1, <3>2, <3>3
  <2>2. ASSUME NEW local \in BOOLEAN,
               rows' = [x \in DOMAIN rows \cup {u} |->
                   IF x = u THEN [path |-> local, content |-> ~local, accessed |-> Nanoseconds]
                   ELSE rows[x]]
        PROVE Written
    <3>1. rows'[u] = [path |-> local, content |-> ~local, accessed |-> Nanoseconds]
        BY <2>2
    <3>2. rows'[u] \in Row /\ rows'[u].accessed = Nanoseconds
        BY <3>1 DEF Row
    <3>3. rows'[u].path = local /\ rows'[u].content = ~local
        BY <3>1
    <3>4. Check(rows'[u]) /\ ~(rows'[u].path /\ rows'[u].content)
        BY <3>3 DEF Check
    <3>5. DOMAIN rows' = DOMAIN rows \cup {u} /\ rows' = [x \in DOMAIN rows' |-> rows'[x]]
          /\ \A x \in DOMAIN rows : x # u => rows'[x] = rows[x]
        BY <2>2
    <3> QED BY <2>0, <3>2, <3>4, <3>5
  <2> QED BY <1>2, <2>1, <2>2
<1>4. Types' /\ Reached' /\ OpenNeverFails' /\ (used # {} => schema = Current)'
    BY <1>1, <1>3 DEF Types, Reached, OpenNeverFails
<1>5. ReadyIsUsable'
    BY <1>1, <1>3 DEF ReadyIsUsable
<1>6. Copyable'
    BY <1>1, <1>3, SchemasDiffer DEF Copyable
<1>7. turns => Alone' /\ Fresh'
    BY <1>1 DEF Alone, Fresh
<1>8. turns => Ranked'
    BY <1>2, <1>3 DEF Ranked
<1> QED BY <1>1, <1>4, <1>5, <1>6, <1>7, <1>8

LEMMA NextKeeps == ASSUME IInv, [MigrationNext]_cacheVars PROVE IInv'
<1>1. CASE UNCHANGED cacheVars
    BY <1>1 DEF cacheVars, dbVars, IInv, Types, Reached, Copyable, ReadyIsUsable, OpenNeverFails, Alone,
       Fresh, Ranked
<1>2. ASSUME NEW p \in Openers, FailStatement(p) \/ Crash(p) \/ Retry(p) PROVE IInv'
  <2>1. faults \in Nat
      BY DEF IInv, Types
  <2>2. CASE FailStatement(p)
      BY <2>1, <2>2, LeavesKeep DEF FailStatement
  <2>3. CASE Crash(p)
      BY <2>1, <2>3, LeavesKeep DEF Crash
  <2>4. CASE Retry(p)
      BY <2>1, <2>4, LeavesKeep DEF Retry, Count
  <2> QED BY <1>2, <2>2, <2>3, <2>4
<1> QED BY <1>1, <1>2, OpenKeeps, ReadColumnsKeeps, RebuildKeeps, ReadAccessKeeps, AlterKeeps,
       StampRowsKeeps, VersionKeeps, UseKeeps DEF MigrationNext, OpenStep

(***************************************************************************)
(* The theorems.                                                           *)
(***************************************************************************)
\* An open cache can always be used, and opening in turns succeeds as long as
\* no statement fails.
THEOREM OpenCorrect == Migration => []OpenIsUsable
<1>1. IInv => OpenIsUsable
    BY DEF IInv, OpenIsUsable
<1> QED BY <1>1, InitIInv, NextKeeps, PTL DEF Migration

\* In turns no migration takes the rank of a row that was used.
THEOREM RankCorrect == Migration => []UseOutranksMigration
<1>1. IInv => UseOutranksMigration
    BY DEF IInv, Ranked, UseOutranksMigration
<1> QED BY <1>1, InitIInv, NextKeeps, PTL DEF Migration

\* No interleaving of openers and users loses a document or a path; in turns
\* one version is recorded.
THEOREM MigrationCorrect == Migration => MigrationIsSound
<1>1. IInv /\ [MigrationNext]_cacheVars => [DocumentsSurvive /\ VersionRecorded]_cacheVars
  <2> SUFFICES ASSUME IInv, MigrationNext PROVE DocumentsSurvive /\ VersionRecorded
      BY DEF cacheVars
  <2>1. ASSUME NEW p \in Openers, OpenStep(p) PROVE Held(rows') = Held(rows)
    <3>1. CASE UNCHANGED rows
        BY <3>1 DEF Held
    <3>2. CASE /\ opening[p] = "rebuild"
               /\ \A u \in DOMAIN rows : Check(Copied(rows[u], columns[p]))
               /\ rows' = [u \in DOMAIN rows |-> Copied(rows[u], columns[p])]
        BY <3>2, CopyHolds DEF Held
    <3>3. CASE Alter(p) \/ StampRows(p)
      <4>1. \A u \in DOMAIN rows : rows[u] \in Row
          BY DEF IInv, Types
      <4>2. UNCHANGED rows \/ (DOMAIN rows' = DOMAIN rows /\ \A u \in DOMAIN rows : rows'[u].path = rows[u].path /\ rows'[u].content = rows[u].content)
          BY <3>3, <4>1 DEF Alter, StampRows, Row
      <4> QED BY <3>1, <4>2 DEF Held
    <3> QED BY <2>1, <3>1, <3>2, <3>3 DEF OpenStep, ReadColumns, Rebuild, ReadAccess, ForgetVersion,
              RecordVersion, dbVars
  <2>2. DocumentsSurvive
      BY <2>1 DEF DocumentsSurvive
  <2>3. ASSUME NEW p \in Openers, turns, opening[p] = "record", opening'[p] = "ready" PROVE meta' = 1
    <3>1. meta = 0
        BY <2>3 DEF IInv, Fresh
    <3>2. PICK q \in Openers : Open(q) \/ OpenStep(q) \/ FailStatement(q) \/ Crash(q) \/ Retry(q) \/ Use(q)
        BY DEF MigrationNext
    <3>3. UNCHANGED opening \/ \E step : opening' = [opening EXCEPT ![q] = step]
        BY <3>2 DEF Open, OpenStep, FailStatement, Crash, Retry, Use, ReadColumns, Rebuild, ReadAccess, Alter,
           StampRows, ForgetVersion, RecordVersion, Goto
    <3>4. q = p
        BY <2>3, <3>3 DEF IInv, Types
    <3>5. \A step : Goto(p, step) => opening'[p] = step
        BY DEF Goto, IInv, Types
    <3>6. RecordVersion(p)
        BY <2>3, <3>2, <3>4, <3>5 DEF Open, OpenStep, FailStatement, Crash, Retry, Use, ReadColumns, Rebuild,
           ReadAccess, Alter, StampRows, ForgetVersion
    <3> QED BY <3>1, <3>6 DEF RecordVersion
  <2>4. VersionRecorded
      BY <2>3 DEF VersionRecorded
  <2> QED BY <2>2, <2>4
<1> QED BY <1>1, InitIInv, NextKeeps, PTL DEF Migration, MigrationIsSound
====
