---- MODULE SqliteCache_proofs ----
(***************************************************************************)
(* Theorems about SqliteCache, for all handles, keys, limits and budgets.  *)
(***************************************************************************)
EXTENDS SqliteCache, FiniteSetTheorems, WellFoundedInduction, TLAPS

(***************************************************************************)
(* Retention keeps at most `limit` rows: the oldest row kept has all the   *)
(* others before it, so there are fewer than `limit` of them.              *)
(***************************************************************************)
Keyed(table) == \A k \in DOMAIN table : table[k].accessed \in Nat /\ k \in Nat

LEMMA LeastElement == \A S \in SUBSET Nat : S # {} => \E m \in S : \A n \in S : m <= n
<1> SUFFICES ASSUME NEW S \in SUBSET Nat, S # {} PROVE \E m \in S : \A n \in S : m <= n
    OBVIOUS
<1>1. PICK m \in S : \A n \in S : ~(<<n, m>> \in OpToRel(<, Nat))
    BY WFMin, NatLessThanWellFounded
<1>2. \A n \in S : ~(n < m)
    BY <1>1 DEF OpToRel
<1> QED BY <1>2

LEMMA OldestRow ==
    ASSUME NEW table, Keyed(table), NEW S \in SUBSET DOMAIN table, S # {}
    PROVE  \E k \in S : \A j \in S \ {k} : Newer(table, j, k)
<1> DEFINE Ages == {table[k].accessed : k \in S}
<1>1. PICK a \in Ages : \A b \in Ages : a <= b
  <2>1. Ages \in SUBSET Nat /\ Ages # {} BY DEF Keyed
  <2> QED BY <2>1, LeastElement
<1> DEFINE Last == {k \in S : table[k].accessed = a}
<1>2. PICK k \in Last : \A j \in Last : k <= j
  <2>1. Last \in SUBSET Nat /\ Last # {} BY <1>1 DEF Keyed
  <2> QED BY <2>1, LeastElement
<1>3. ASSUME NEW j \in S \ {k} PROVE Newer(table, j, k)
  <2>1. table[j].accessed \in Ages /\ table[k].accessed = a OBVIOUS
  <2>2. table[j].accessed \in Nat /\ a \in Nat /\ j \in Nat /\ k \in Nat BY <2>1 DEF Keyed
  <2>3. a <= table[j].accessed BY <1>1, <2>1
  <2>4. CASE table[j].accessed = a
    <3>1. k <= j BY <1>2, <2>4
    <3> QED BY <2>1, <2>2, <2>4, <3>1 DEF Newer
  <2>5. CASE table[j].accessed # a
    BY <2>1, <2>2, <2>3, <2>5 DEF Newer
  <2> QED BY <2>4, <2>5
<1> QED BY <1>3

LEMMA KeptWithinLimit ==
    ASSUME NEW table, IsFiniteSet(DOMAIN table), Keyed(table), NEW limit \in Nat \ {0}
    PROVE  Cardinality(Kept(table, limit)) <= limit
<1> DEFINE S == Kept(table, limit)
<1>1. S \subseteq DOMAIN table /\ IsFiniteSet(S)
  BY FS_Subset DEF Kept
<1>2. CASE S = {}
  BY <1>2, FS_EmptySet
<1>3. CASE S # {}
  <2>1. PICK k \in S : \A j \in S \ {k} : Newer(table, j, k)
    BY <1>1, <1>3, OldestRow
  <2> DEFINE Before == {j \in DOMAIN table : Newer(table, j, k)}
  <2>2. Cardinality(Before) < limit BY DEF Kept
  <2>3. S \ {k} \subseteq Before BY <1>1, <2>1
  <2>4. IsFiniteSet(Before) BY FS_Subset
  <2>5. Cardinality(S \ {k}) <= Cardinality(Before) BY <2>3, <2>4, FS_Subset
  <2>6. Cardinality(S \ {k}) = Cardinality(S) - 1 BY <1>1, FS_RemoveElement
  <2>7. Cardinality(S) \in Nat /\ Cardinality(Before) \in Nat BY <1>1, <2>4, FS_CardinalityType
  <2> QED BY <2>2, <2>5, <2>6, <2>7
<1> QED BY <1>2, <1>3

(***************************************************************************)
(* Types.                                                                  *)
(***************************************************************************)
TableOK(table, t) == DOMAIN table \subseteq Keys[t] /\ \A k \in DOMAIN table : table[k] \in Row

LEMMA TablesKeyed ==
    ASSUME NEW t \in Tables, NEW table, TableOK(table, t)
    PROVE  Keyed(table) /\ IsFiniteSet(DOMAIN table)
<1>1. Keys[t] \subseteq Nat /\ IsFiniteSet(Keys[t]) BY KeyAssumption
<1>2. IsFiniteSet(DOMAIN table) BY <1>1, FS_Subset DEF TableOK
<1> QED BY <1>1, <1>2 DEF TableOK, Keyed, Row

\* Each change of a table keeps its shape.
LEMMA PruneShape ==
    ASSUME NEW t \in Tables, NEW table, TableOK(table, t), NEW limit \in Nat \ {0}
    PROVE  /\ TableOK(Prune(table, limit), t)
           /\ Cardinality(DOMAIN Prune(table, limit)) <= limit
<1>1. DOMAIN Prune(table, limit) = Kept(table, limit) BY DEF Prune
<1>2. Cardinality(Kept(table, limit)) <= limit BY TablesKeyed, KeptWithinLimit
<1>3. Kept(table, limit) \subseteq DOMAIN table BY DEF Kept
<1> QED BY <1>1, <1>2, <1>3 DEF TableOK, Prune

LEMMA UpsertShape ==
    ASSUME NEW t \in Tables, NEW table, TableOK(table, t),
           NEW keys \in SUBSET Keys[t], NEW row \in Row
    PROVE  TableOK(Upsert(table, keys, row), t)
BY DEF TableOK, Upsert

LEMMA TouchShape ==
    ASSUME NEW t \in Tables, NEW table, TableOK(table, t), NEW keys, NEW at \in Nat
    PROVE  /\ TableOK(Touch(table, keys, at), t)
           /\ DOMAIN Touch(table, keys, at) = DOMAIN table
           /\ \A k \in DOMAIN table :
                /\ Touch(table, keys, at)[k].data = table[k].data
                /\ Touch(table, keys, at)[k].born = table[k].born
                /\ Touch(table, keys, at)[k].updated = table[k].updated
BY DEF TableOK, Touch, Row

\* The rows and calls of TypeOK, in the terms the lemmas use.
RowsOK == DOMAIN rows = Tables /\ \A t \in Tables : TableOK(rows[t], t)

LEMMA TypedRows == TypeOK <=> TypeOK /\ RowsOK
BY DEF TypeOK, RowsOK, TableOK

LEMMA TypeInit == Init => TypeOK
<1> SUFFICES ASSUME Init PROVE TypeOK
    OBVIOUS
<1> USE SizeAssumption, BoundAssumption, KeyAssumption
<1>1. PICK d \in Contents : /\ call = [h \in Handles |-> Call(NoKeys, OldRow(d), Absent, 0)]
                            /\ \E old \in {NoKeys, Keys} :
                                 /\ rows = [t \in Tables |-> [k \in old[t] |-> OldRow(d)]]
                                 /\ stored = old["specs"] \X {d}
  BY DEF Init
<1>2. PICK old \in {NoKeys, Keys} : /\ rows = [t \in Tables |-> [k \in old[t] |-> OldRow(d)]]
                                    /\ stored = old["specs"] \X {d}
  BY <1>1
<1>3. OldRow(d) \in Row BY DEF OldRow, Row
<1>4. \A t \in Tables : old[t] \subseteq Keys[t] BY <1>2 DEF NoKeys
<1>5. Keys["specs"] = Urls BY DEF Keys, Tables
<1>6. Call(NoKeys, OldRow(d), Absent, 0) \in Calls BY <1>3 DEF Call, Calls, NoKeys
<1>7. call \in [Handles -> Calls] BY <1>1, <1>6
<1>8. RowsOK BY <1>2, <1>3, <1>4 DEF RowsOK, TableOK
<1>9. stored \subseteq Urls \X Contents BY <1>2, <1>4, <1>5 DEF Tables
<1> QED BY <1>7, <1>8, <1>9 DEF Init, TypeOK, RowsOK, TableOK, Stages

LEMMA TypeStep == TypeOK /\ [Next]_vars => TypeOK'
<1> SUFFICES ASSUME TypeOK, [Next]_vars PROVE TypeOK'
    OBVIOUS
<1> USE SizeAssumption, BoundAssumption, LimitAssumption
<1>t. RowsOK BY TypedRows
<1>k. Keys["queries"] = Queries /\ Keys["results"] = Results /\ Keys["specs"] = Urls
      /\ Keys["artifacts"] = Artifacts
  BY DEF Keys, Tables
<1>n. NoKeys \in [Tables -> SUBSET Nat] BY DEF NoKeys
<1>1. CASE UNCHANGED vars
  BY <1>1 DEF vars, dbVars, clockVars, countVars, TypeOK
<1>2. ASSUME NEW h \in Handles, Open(h) \/ CallPrune(h) PROVE TypeOK'
  <2>1. RowsOK'
    BY <1>2, <1>t, PruneShape DEF Open, CallPrune, PruneAll, RowsOK
  <2> QED BY <1>2, <2>1 DEF Open, CallPrune, TypeOK, RowsOK, TableOK, clockVars, countVars
\* A call that starts either returns, or holds a call record.
<1>b. ASSUME NEW h \in Handles, CanCall(h), NEW step \in Stages, NEW c \in Calls, Proceed(h, step, c)
      PROVE  TypeOK'
  BY <1>b DEF CanCall, Proceed, Goto, TypeOK, dbVars, clockVars
<1>r. ASSUME NEW h \in Handles, CanCall(h), ReturnNow(h, "error") \/ ReturnNow(h, "miss")
      PROVE TypeOK'
  <2>1. pc' \in [Handles -> Stages] BY <1>r DEF ReturnNow, Return, Goto, TypeOK, Stages
  <2>2. res' \in [Handles -> {"none", "ok", "hit", "miss", "error", "integrity"}]
    BY <1>r DEF ReturnNow, Return, TypeOK
  <2>3. UNCHANGED <<turns, opened, call, dbVars, file, clockVars, faults, rewrites>> /\ calls' \in 0..MaxCalls
    BY <1>r DEF CanCall, ReturnNow, TypeOK, dbVars, clockVars
  <2> QED BY <2>1, <2>2, <2>3 DEF TypeOK, dbVars, clockVars
<1>d. ASSUME NEW d \in Contents, NEW local \in BOOLEAN, NEW found \in SUBSET Results
      PROVE  StoredRow(d, local, found) \in Row
  BY <1>d DEF StoredRow, Row, TypeOK
<1>c. ASSUME NEW keys \in [Tables -> SUBSET Nat], \A t \in Tables : keys[t] \subseteq Keys[t],
             NEW row \in Row, NEW served \in Contents \cup {Absent}, NEW age \in Int
      PROVE  Call(keys, row, served, age) \in Calls
  BY <1>c DEF Call, Calls
<1>3. ASSUME NEW h \in Handles, StoreSearch(h) PROVE TypeOK'
  <2>1. CanCall(h) BY <1>3 DEF StoreSearch
  <2>2. PICK q \in Queries, found \in SUBSET Results, d \in Contents :
          \/ Proceed(h, "stampStore",
                Call([NoKeys EXCEPT !["queries"] = {q}, !["results"] = found],
                     StoredRow(d, FALSE, found), Absent, 0))
          \/ ReturnNow(h, "error")
    BY <1>3 DEF StoreSearch
  <2> DEFINE keys == [NoKeys EXCEPT !["queries"] = {q}, !["results"] = found]
             row == StoredRow(d, FALSE, found)
  <2>3. /\ keys \in [Tables -> SUBSET Nat]
        /\ \A t \in Tables : keys[t] \subseteq Keys[t]
    BY <1>k, KeyAssumption DEF NoKeys, Tables
  <2>4. row \in Row BY <1>d
  <2>5. Call(keys, row, Absent, 0) \in Calls
    <3> HIDE DEF keys, row
    <3> QED BY <1>c, <2>3, <2>4
  <2> QED BY <1>b, <1>r, <2>1, <2>2, <2>5 DEF Stages
<1>4. ASSUME NEW h \in Handles, StoreSpec(h) PROVE TypeOK'
  <2>1. CanCall(h) BY <1>4 DEF StoreSpec
  <2>2. CASE ReturnNow(h, "error") BY <1>r, <2>1, <2>2
  <2>3. CASE \E original, final \in Urls, local \in BOOLEAN, d \in Contents :
               Proceed(h, "stampStore",
                   Call([NoKeys EXCEPT !["specs"] = {original, final}],
                        StoredRow(d, local, {}), Absent, 0))
    <3>1. PICK original, final \in Urls, local \in BOOLEAN, d \in Contents :
               Proceed(h, "stampStore",
                   Call([NoKeys EXCEPT !["specs"] = {original, final}],
                        StoredRow(d, local, {}), Absent, 0))
      BY <2>3
    <3> DEFINE keys == [NoKeys EXCEPT !["specs"] = {original, final}]
    <3>2. keys \in [Tables -> SUBSET Nat] /\ \A t \in Tables : keys[t] \subseteq Keys[t]
      BY <1>k, KeyAssumption DEF NoKeys, Tables
    <3>3. StoredRow(d, local, {}) \in Row BY <1>d
    <3>4. Call(keys, StoredRow(d, local, {}), Absent, 0) \in Calls
      <4> HIDE DEF keys
      <4> QED BY <1>c, <3>2, <3>3
    <3> QED BY <1>b, <2>1, <3>1, <3>4 DEF Stages
  <2>4. file \in Contents \cup {Absent} BY DEF TypeOK
  <2> QED BY <1>4, <2>2, <2>3, <2>4 DEF StoreSpec, Acceptable
<1>5. ASSUME NEW h \in Handles, StoreCatalogArtifact(h) PROVE TypeOK'
  <2>1. CanCall(h) BY <1>5 DEF StoreCatalogArtifact
  <2>2. CASE ReturnNow(h, "error") BY <1>r, <2>1, <2>2
  <2>3. CASE \E a \in Artifacts : /\ file \in Contents
                                  /\ Proceed(h, "stampStore",
                                       Call([NoKeys EXCEPT !["artifacts"] = {a}],
                                            StoredRow(file, TRUE, {}), Absent, 0))
    <3>1. PICK a \in Artifacts : /\ file \in Contents
                                 /\ Proceed(h, "stampStore",
                                       Call([NoKeys EXCEPT !["artifacts"] = {a}],
                                            StoredRow(file, TRUE, {}), Absent, 0))
      BY <2>3
    <3> DEFINE keys == [NoKeys EXCEPT !["artifacts"] = {a}]
               row == StoredRow(file, TRUE, {})
    <3>2. keys \in [Tables -> SUBSET Nat] /\ \A t \in Tables : keys[t] \subseteq Keys[t]
      BY <1>k, KeyAssumption DEF NoKeys, Tables
    <3>3. row \in Row BY <1>d, <3>1
    <3>4. Call(keys, row, Absent, 0) \in Calls
      <4> HIDE DEF keys, row
      <4> QED BY <1>c, <3>2, <3>3
    <3> QED BY <1>b, <2>1, <3>1, <3>4 DEF Stages
  <2>4. file \in Contents \cup {Absent} BY DEF TypeOK
  <2> QED BY <1>5, <2>2, <2>3, <2>4 DEF StoreCatalogArtifact, Acceptable
<1>u. ASSUME NEW t \in Tables, NEW k, Usable(t, k)
      PROVE  rows[t][k] \in Row /\ second - rows[t][k].born \in Int
  <2>1. k \in DOMAIN rows[t] BY <1>u DEF Usable
  <2>2. rows[t][k] \in Row BY <1>t, <2>1 DEF RowsOK, TableOK
  <2> QED BY <2>2 DEF Row, TypeOK
<1>6. ASSUME NEW h \in Handles, LoadSearch(h) PROVE TypeOK'
  <2>1. CanCall(h) BY <1>6 DEF LoadSearch
  <2>2. CASE ReturnNow(h, "error") \/ ReturnNow(h, "miss") BY <1>r, <2>1, <2>2
  <2>3. CASE \E q \in Queries :
               /\ Usable("queries", q)
               /\ Proceed(h, "stampTouch",
                    Call([NoKeys EXCEPT !["queries"] = {q}, !["results"] = rows["queries"][q].results],
                         rows["queries"][q], rows["queries"][q].data,
                         second - rows["queries"][q].born))
    <3>1. PICK q \in Queries :
               /\ Usable("queries", q)
               /\ Proceed(h, "stampTouch",
                    Call([NoKeys EXCEPT !["queries"] = {q}, !["results"] = rows["queries"][q].results],
                         rows["queries"][q], rows["queries"][q].data,
                         second - rows["queries"][q].born))
      BY <2>3
    <3> DEFINE row == rows["queries"][q]
               keys == [NoKeys EXCEPT !["queries"] = {q}, !["results"] = row.results]
    <3>2. row \in Row /\ second - row.born \in Int BY <1>u, <3>1 DEF Tables
    <3>3. row.data \in Contents /\ row.results \subseteq Results BY <3>2 DEF Row
    <3>4. keys \in [Tables -> SUBSET Nat] /\ \A t \in Tables : keys[t] \subseteq Keys[t]
      BY <1>k, <3>3, KeyAssumption DEF NoKeys, Tables
    <3>5. Call(keys, row, row.data, second - row.born) \in Calls BY <1>c, <3>2, <3>3, <3>4
    <3> QED BY <1>b, <2>1, <3>1, <3>5 DEF Stages
  <2> QED BY <1>6, <2>2, <2>3 DEF LoadSearch
<1>7. ASSUME NEW h \in Handles, LoadSpec(h) PROVE TypeOK'
  <2>1. CanCall(h) BY <1>7 DEF LoadSpec
  <2>2. CASE ReturnNow(h, "miss") BY <1>r, <2>1, <2>2
  <2>3. CASE \E u \in Urls :
               /\ Usable("specs", u)
               /\ Proceed(h, "readSpec",
                    Call([NoKeys EXCEPT !["specs"] = {u}], rows["specs"][u], Absent,
                         second - rows["specs"][u].born))
    <3>1. PICK u \in Urls :
               /\ Usable("specs", u)
               /\ Proceed(h, "readSpec",
                    Call([NoKeys EXCEPT !["specs"] = {u}], rows["specs"][u], Absent,
                         second - rows["specs"][u].born))
      BY <2>3
    <3> DEFINE row == rows["specs"][u]
               keys == [NoKeys EXCEPT !["specs"] = {u}]
    <3>2. row \in Row /\ second - row.born \in Int BY <1>u, <3>1 DEF Tables
    <3>3. keys \in [Tables -> SUBSET Nat] /\ \A t \in Tables : keys[t] \subseteq Keys[t]
      BY <1>k, KeyAssumption DEF NoKeys, Tables
    <3>4. Call(keys, row, Absent, second - row.born) \in Calls BY <1>c, <3>2, <3>3
    <3> QED BY <1>b, <2>1, <3>1, <3>4 DEF Stages
  <2> QED BY <1>7, <2>2, <2>3 DEF LoadSpec
<1>8. ASSUME NEW h \in Handles, ListCatalogArtifacts(h) PROVE TypeOK'
  <2> DEFINE keys == [NoKeys EXCEPT !["artifacts"] = DOMAIN rows["artifacts"]]
  <2>1. DOMAIN rows["artifacts"] \subseteq Artifacts BY <1>t, <1>k DEF RowsOK, TableOK, Tables
  <2>2. keys \in [Tables -> SUBSET Nat] /\ \A t \in Tables : keys[t] \subseteq Keys[t]
    BY <1>k, <2>1, KeyAssumption DEF NoKeys, Tables
  <2>3. call[h].row \in Row BY DEF TypeOK, Calls
  <2>4. Call(keys, call[h].row, Absent, 0) \in Calls
    <3> HIDE DEF keys
    <3> QED BY <1>c, <2>2, <2>3
  <2> QED BY <1>8, <1>b, <2>4 DEF ListCatalogArtifacts, Stages
<1>s. ASSUME NEW h \in Handles, UNCHANGED <<turns, opened, dbVars, file, second, countVars>>,
             instant' \in Nat, NEW step \in Stages, NEW c \in Calls,
             Proceed(h, step, c) \/ ReturnNow(h, "integrity")
      PROVE  TypeOK'
  <2>1. /\ turns' = turns /\ opened' = opened /\ rows' = rows /\ stored' = stored /\ file' = file
        /\ second' = second /\ calls' = calls /\ faults' = faults /\ rewrites' = rewrites
    BY <1>s DEF dbVars, countVars
  <2>2. CASE Proceed(h, step, c)
    BY <1>s, <2>1, <2>2 DEF Proceed, Goto, TypeOK
  <2>3. CASE ReturnNow(h, "integrity")
    BY <1>s, <2>1, <2>3 DEF ReturnNow, Return, Goto, TypeOK, Stages
  <2> QED BY <1>s, <2>2, <2>3
<1>9. ASSUME NEW h \in Handles, ReadSpec(h) PROVE TypeOK'
  <2> DEFINE d == IF call[h].row.local THEN file ELSE call[h].row.data
             c == [call[h] EXCEPT !.served = d]
  <2>1. call[h] \in Calls /\ file \in Contents \cup {Absent} BY DEF TypeOK
  <2>2. d \in Contents \cup {Absent} BY <2>1 DEF Calls, Row
  <2>3. c \in Calls
    <3> HIDE DEF d
    <3> QED BY <2>1, <2>2 DEF Calls
  <2>4. Proceed(h, "stampTouch", c) \/ ReturnNow(h, "integrity") BY <1>9 DEF ReadSpec
  <2>5. instant' \in Nat /\ UNCHANGED <<turns, opened, dbVars, file, second, countVars>>
    BY <1>9 DEF ReadSpec, clockVars, TypeOK
  <2> HIDE DEF c
  <2> QED BY <1>s, <2>3, <2>4, <2>5 DEF Stages
<1>10. ASSUME NEW h \in Handles, Stamp(h) PROVE TypeOK'
  <2> DEFINE c == IF pc[h] = "stampStore"
                  THEN [call[h] EXCEPT !.row.accessed = instant', !.row.updated = second,
                                       !.row.born = second]
                  ELSE [call[h] EXCEPT !.row.accessed = instant']
             step == CASE pc[h] = "stampStore" -> "store"
                       [] pc[h] = "stampTouch" -> "touch" [] OTHER -> "list"
  <2>1. call[h] \in Calls /\ second \in Nat /\ instant' \in Nat BY <1>10 DEF Stamp, TypeOK
  <2>2. c \in Calls BY <2>1 DEF Calls, Row
  <2>3. step \in Stages BY DEF Stages
  <2>4. Proceed(h, step, c) BY <1>10 DEF Stamp
  <2> HIDE DEF c, step
  <2> QED BY <1>10, <1>s, <2>1, <2>2, <2>3, <2>4 DEF Stamp
<1>11. ASSUME NEW h \in Handles, Store(h) PROVE TypeOK'
  <2>1. call[h] \in Calls BY DEF TypeOK
  <2>2. \A t \in Tables : call[h].keys[t] \in SUBSET Keys[t] /\ call[h].row \in Row
    BY <2>1 DEF Calls
  <2>3. ASSUME NEW t \in Tables PROVE TableOK(rows'[t], t)
    <3>1. TableOK(Upsert(rows[t], call[h].keys[t], call[h].row), t)
      BY <1>t, <2>2, UpsertShape DEF RowsOK
    <3>2. Limit[h][t] \in Nat \ {0} OBVIOUS
    <3> QED BY <1>11, <3>1, <3>2, PruneShape DEF Store
  <2>4. RowsOK' BY <1>11, <2>3 DEF Store, RowsOK
  <2>5. stored' \subseteq Urls \X Contents
    <3>1. call[h].keys["specs"] \subseteq Urls BY <1>k, <2>2 DEF Tables
    <3>2. call[h].row.data \in Contents BY <2>2 DEF Row, Tables
    <3> QED BY <1>11, <3>1, <3>2 DEF Store, TypeOK
  <2> QED BY <1>11, <2>4, <2>5
      DEF Store, ReturnNow, Return, Goto, Succeed, Rest, TypeOK, RowsOK, TableOK, Stages, clockVars
<1>12. ASSUME NEW h \in Handles, TouchRows(h) PROVE TypeOK'
  <2>1. call[h].row.accessed \in Nat BY DEF TypeOK, Calls, Row
  <2>2. RowsOK' BY <1>t, <1>12, <2>1, TouchShape DEF TouchRows, RowsOK
  <2> QED BY <1>12, <2>2
      DEF TouchRows, ReturnNow, Return, Goto, Succeed, Rest, TypeOK, RowsOK, TableOK, Stages, clockVars
<1>13. ASSUME NEW h \in Handles, TouchListed(h) PROVE TypeOK'
  <2>1. call[h] \in Calls /\ call[h].row.accessed \in Nat BY DEF TypeOK, Calls, Row
  <2>2. CASE UNCHANGED rows /\ ReturnNow(h, "ok")
    BY <1>13, <2>2
    DEF TouchListed, ReturnNow, Return, Goto, Succeed, Rest, TypeOK, Stages, clockVars
  <2>3. ASSUME NEW a \in call[h].keys["artifacts"],
               rows' = [t \in Tables |->
                   IF t = "artifacts" THEN Touch(rows[t], {a}, call[h].row.accessed) ELSE rows[t]],
               call' = [call EXCEPT ![h] =
                   [@ EXCEPT !.keys = [NoKeys EXCEPT !["artifacts"] = call[h].keys["artifacts"] \ {a}]]],
               UNCHANGED <<pc, res>>
        PROVE  TypeOK'
    <3>1. RowsOK' BY <1>t, <2>1, <2>3, TouchShape DEF RowsOK
    <3> DEFINE left == [NoKeys EXCEPT !["artifacts"] = call[h].keys["artifacts"] \ {a}]
    <3>k. left \in [Tables -> SUBSET Nat] /\ \A t \in Tables : left[t] \subseteq Keys[t]
      BY <2>1 DEF Calls, Tables, NoKeys
    <3>2. [call[h] EXCEPT !.keys = left] \in Calls
      <4> HIDE DEF left
      <4> QED BY <2>1, <3>k DEF Calls
    <3>3. call' \in [Handles -> Calls] BY <2>3, <3>2 DEF TypeOK
    <3> QED BY <1>13, <2>3, <3>1, <3>3
        DEF TouchListed, Succeed, Rest, TypeOK, RowsOK, TableOK, clockVars
  <2> QED BY <1>13, <2>2, <2>3 DEF TouchListed
<1>14. ASSUME NEW h \in Handles, Abort(h) PROVE TypeOK'
  BY <1>14 DEF Abort, ReturnNow, Return, Goto, Fail, Rest, TypeOK, Stages, dbVars, clockVars
<1>15. CASE Tick
  BY <1>15 DEF Tick, TypeOK, dbVars, countVars
<1>16. CASE Rewrite
  BY <1>16 DEF Rewrite, TypeOK, dbVars, clockVars
<1> QED BY <1>1, <1>2, <1>3, <1>4, <1>5, <1>6, <1>7, <1>8, <1>9, <1>10, <1>11, <1>12, <1>13,
           <1>14, <1>15, <1>16 DEF Next, Step

\* Every state of the cache has whole rows and whole calls: what StoreSearch,
\* StoreSpec, StoreCatalogArtifact and the touches write keeps its shape.
THEOREM TypeCorrect == Spec => []TypeOK
BY TypeInit, TypeStep, PTL DEF Spec

(***************************************************************************)
(* The row limits.                                                         *)
(***************************************************************************)
LEMMA PruningBinds ==
    ASSUME TypeOK, TypeOK', NEW h \in Handles, h \in opened',
           NEW table, \A t \in Tables : TableOK(table[t], t),
           rows' = [t \in Tables |-> Prune(table[t], Limit[h][t])]
    PROVE  Bounded'
<1>1. \A t \in Tables : Limit[h][t] \in Nat \ {0} BY LimitAssumption
<1>2. \A t \in Tables : Cardinality(DOMAIN rows'[t]) <= Limit[h][t] BY <1>1, PruneShape
<1> QED BY <1>2 DEF Bounded, WithinLimits

LEMMA SameKeysStayBounded ==
    ASSUME Bounded, opened' = opened, \A t \in Tables : DOMAIN rows'[t] = DOMAIN rows[t]
    PROVE  Bounded'
BY DEF Bounded, WithinLimits

\* Only an open handle has a call under way.
Active == \A h \in Handles : pc[h] # "idle" => h \in opened

LEMMA ActiveStep == TypeOK /\ Active /\ [Next]_vars => Active'
<1> SUFFICES ASSUME TypeOK, Active, [Next]_vars PROVE Active'
    OBVIOUS
<1>q. ASSUME pc' = pc, opened \subseteq opened' PROVE Active'
  BY <1>q DEF Active
<1>m. ASSUME NEW h \in Handles, h \in opened, opened' = opened, NEW step,
             pc' = [pc EXCEPT ![h] = step]
      PROVE  Active'
  BY <1>m DEF Active, TypeOK
<1>1. CASE UNCHANGED vars
  BY <1>1, <1>q DEF vars
<1>2. ASSUME NEW h \in Handles, Open(h) \/ CallPrune(h) PROVE Active'
  BY <1>2, <1>q DEF Open, CallPrune
<1>3. ASSUME NEW h \in Handles,
             StoreSearch(h) \/ StoreSpec(h) \/ StoreCatalogArtifact(h)
             \/ LoadSearch(h) \/ LoadSpec(h) \/ ListCatalogArtifacts(h)
      PROVE  Active'
  <2>1. CanCall(h)
    BY <1>3 DEF StoreSearch, StoreSpec, StoreCatalogArtifact, LoadSearch, LoadSpec, ListCatalogArtifacts
  <2>2. (\E step, c : Proceed(h, step, c)) \/ (\E r : ReturnNow(h, r))
    BY <1>3 DEF StoreSearch, StoreSpec, StoreCatalogArtifact, LoadSearch, LoadSpec, ListCatalogArtifacts
  <2> QED BY <1>m, <2>1, <2>2 DEF CanCall, Proceed, ReturnNow, Return, Goto
<1>4. ASSUME NEW h \in Handles, ReadSpec(h) \/ Stamp(h) PROVE Active'
  <2>1. h \in opened BY <1>4 DEF ReadSpec, Stamp, Active
  <2>2. (\E step, c : Proceed(h, step, c)) \/ (\E r : ReturnNow(h, r))
    BY <1>4 DEF ReadSpec, Stamp
  <2>3. opened' = opened BY <1>4 DEF ReadSpec, Stamp
  <2> QED BY <1>m, <2>1, <2>2, <2>3 DEF Proceed, ReturnNow, Return, Goto
<1>5. ASSUME NEW h \in Handles, Store(h) \/ TouchRows(h) \/ TouchListed(h) \/ Abort(h) PROVE Active'
  <2>1. h \in opened /\ opened' = opened
    BY <1>5 DEF Store, TouchRows, TouchListed, Abort, Rest, Active
  <2>2. pc' = pc \/ \E r : ReturnNow(h, r)
    BY <1>5 DEF Store, TouchRows, TouchListed, Abort
  <2> QED BY <1>m, <1>q, <2>1, <2>2 DEF ReturnNow, Return, Goto
<1>6. CASE Tick \/ Rewrite
  BY <1>6, <1>q DEF Tick, Rewrite
<1> QED BY <1>1, <1>2, <1>3, <1>4, <1>5, <1>6 DEF Next, Step

LEMMA BoundedStep == TypeOK /\ TypeOK' /\ Active /\ Bounded /\ [Next]_vars => Bounded'
<1> SUFFICES ASSUME TypeOK, TypeOK', Active, Bounded, [Next]_vars PROVE Bounded'
    OBVIOUS
<1>t. RowsOK BY TypedRows
<1>q. ASSUME opened' = opened, rows' = rows PROVE Bounded'
  BY <1>q, SameKeysStayBounded
<1>1. CASE UNCHANGED vars
  BY <1>1, <1>q DEF vars, dbVars
<1>2. ASSUME NEW h \in Handles, Open(h) \/ CallPrune(h) PROVE Bounded'
  <2>1. h \in opened' /\ rows' = [t \in Tables |-> Prune(rows[t], Limit[h][t])]
    BY <1>2 DEF Open, CallPrune, PruneAll
  <2> QED BY <1>t, <2>1, PruningBinds DEF RowsOK
<1>3. ASSUME NEW h \in Handles,
             StoreSearch(h) \/ StoreSpec(h) \/ StoreCatalogArtifact(h)
             \/ LoadSearch(h) \/ LoadSpec(h) \/ ListCatalogArtifacts(h)
      PROVE  Bounded'
  <2>1. CanCall(h)
    BY <1>3 DEF StoreSearch, StoreSpec, StoreCatalogArtifact, LoadSearch, LoadSpec, ListCatalogArtifacts
  <2> QED BY <1>q, <2>1 DEF CanCall, dbVars
<1>4. ASSUME NEW h \in Handles, ReadSpec(h) \/ Stamp(h) \/ Abort(h) PROVE Bounded'
  BY <1>4, <1>q DEF ReadSpec, Stamp, Abort, Rest, dbVars
<1>5. ASSUME NEW h \in Handles, Store(h) PROVE Bounded'
  <2> DEFINE table == [t \in Tables |-> Upsert(rows[t], call[h].keys[t], call[h].row)]
  <2>1. call[h] \in Calls BY DEF TypeOK
  <2>2. \A t \in Tables : call[h].keys[t] \in SUBSET Keys[t] /\ call[h].row \in Row
    BY <2>1 DEF Calls
  <2>3. \A t \in Tables : TableOK(table[t], t) BY <1>t, <2>2, UpsertShape DEF RowsOK
  <2>4. rows' = [t \in Tables |-> Prune(table[t], Limit[h][t])] BY <1>5 DEF Store
  <2>5. h \in opened' BY <1>5 DEF Store, Rest, Active
  <2> HIDE DEF table
  <2> QED BY <2>3, <2>4, <2>5, PruningBinds
<1>6. ASSUME NEW h \in Handles, TouchRows(h) \/ TouchListed(h) PROVE Bounded'
  <2>2. ASSUME NEW t \in Tables PROVE DOMAIN rows'[t] = DOMAIN rows[t]
    <3>1. \A keys : DOMAIN Touch(rows[t], keys, call[h].row.accessed) = DOMAIN rows[t]
      BY DEF Touch
    <3>2. CASE TouchRows(h) BY <3>1, <3>2 DEF TouchRows
    <3>3. CASE TouchListed(h) BY <3>1, <3>3 DEF TouchListed
    <3> QED BY <1>6, <3>2, <3>3
  <2> QED BY <1>6, <2>2, SameKeysStayBounded DEF TouchRows, TouchListed, Rest
<1>7. CASE Tick \/ Rewrite
  BY <1>7, <1>q DEF Tick, Rewrite, dbVars
<1> QED BY <1>1, <1>2, <1>3, <1>4, <1>5, <1>6, <1>7 DEF Next, Step

\* Whatever the handles' limits are and however their calls interleave, some
\* open handle's limits hold for every table: pruneTx keeps no more rows than
\* it says, and loading or listing never adds one.
THEOREM BoundedCorrect == Spec => []Bounded
<1>1. Init => Active /\ Bounded
  BY DEF Init, Active, Bounded
<1>2. TypeOK /\ TypeOK' /\ Active /\ Bounded /\ [Next]_vars => Active' /\ Bounded'
  BY ActiveStep, BoundedStep
<1> QED BY <1>1, <1>2, TypeCorrect, PTL DEF Spec

(***************************************************************************)
(* What is served.  A row keeps its age and its document as long as it is  *)
(* in the database, and a call keeps them from the moment it has read them.*)
(***************************************************************************)
FromStore(h, d) == call[h].keys["specs"] \X {d} \subseteq stored
Fresh(h) == call[h].age <= MaxAge
Served(h) ==
    /\ Fresh(h)
    /\ Size[call[h].served] <= Budget[h]
    /\ FromStore(h, call[h].served)

Dated == \A t \in Tables : \A k \in DOMAIN rows[t] : rows[t][k].born = rows[t][k].updated
Recorded == \A u \in DOMAIN rows["specs"] : <<u, rows["specs"][u].data>> \in stored
Sound(h) ==
    /\ pc[h] = "store" => call[h].row.born = call[h].row.updated
    /\ pc[h] = "readSpec" => Fresh(h) /\ FromStore(h, call[h].row.data)
    /\ pc[h] \in {"stampTouch", "touch"} \/ res[h] = "hit" => Served(h)
Honest == Dated /\ Recorded /\ \A h \in Handles : Sound(h)

LEMMA HonestInit == Init => Honest
<1> SUFFICES ASSUME Init PROVE Honest
    OBVIOUS
<1>1. PICK d \in Contents, old \in {NoKeys, Keys} :
        rows = [t \in Tables |-> [k \in old[t] |-> OldRow(d)]] /\ stored = old["specs"] \X {d}
  BY DEF Init
<1>2. Dated BY <1>1 DEF Dated, OldRow
<1>3. Recorded
  <2>1. rows["specs"] = [k \in old["specs"] |-> OldRow(d)] BY <1>1 DEF Tables
  <2> QED BY <1>1, <2>1 DEF Recorded, OldRow
<1>4. \A h \in Handles : Sound(h) BY DEF Init, Sound
<1> QED BY <1>2, <1>3, <1>4 DEF Honest

\* Steps of one handle leave what the others hold alone.
LEMMA OthersSound ==
    ASSUME Honest, TypeOK, NEW h \in Handles, stored \subseteq stored',
           NEW step, NEW c, NEW r,
           pc' = [pc EXCEPT ![h] = step], call' = [call EXCEPT ![h] = c], res' = [res EXCEPT ![h] = r]
    PROVE  \A g \in Handles \ {h} : Sound(g)'
<1> SUFFICES ASSUME NEW g \in Handles \ {h} PROVE Sound(g)'
    OBVIOUS
<1>1. pc'[g] = pc[g] /\ call'[g] = call[g] /\ res'[g] = res[g] BY DEF TypeOK
<1>2. Sound(g) BY DEF Honest
<1> QED BY <1>1, <1>2 DEF Sound, Served, Fresh, FromStore

LEMMA SameRows ==
    ASSUME Honest, rows' = rows, stored \subseteq stored'
    PROVE  Dated' /\ Recorded'
BY DEF Honest, Dated, Recorded

LEMMA HonestStep == TypeOK /\ Honest /\ [Next]_vars => Honest'
<1> SUFFICES ASSUME TypeOK, Honest, [Next]_vars PROVE Honest'
    OBVIOUS
<1>t. RowsOK BY TypedRows
\* A step of h that changes no row: it returns without a hit, or proceeds.
<1>r. ASSUME NEW h \in Handles, NEW r \in {"ok", "miss", "error", "integrity"}, ReturnNow(h, r),
             rows' = rows, stored' = stored
      PROVE  Honest'
  <2>1. /\ pc' = [pc EXCEPT ![h] = "idle"] /\ res' = [res EXCEPT ![h] = r]
        /\ call' = [call EXCEPT ![h] = call[h]]
    BY <1>r DEF ReturnNow, Return, Goto, TypeOK
  <2>2. \A g \in Handles \ {h} : Sound(g)' BY <1>r, <2>1, OthersSound
  <2>3. Sound(h)' BY <2>1 DEF Sound, TypeOK
  <2> QED BY <1>r, <2>2, <2>3, SameRows DEF Honest
<1>p. ASSUME NEW h \in Handles, NEW step, NEW c, Proceed(h, step, c), rows' = rows, stored' = stored,
             step = "store" => c.row.born = c.row.updated,
             step = "readSpec" => c.age <= MaxAge /\ c.keys["specs"] \X {c.row.data} \subseteq stored,
             step \in {"stampTouch", "touch"} => /\ c.age <= MaxAge
                                                 /\ Size[c.served] <= Budget[h]
                                                 /\ c.keys["specs"] \X {c.served} \subseteq stored
      PROVE  Honest'
  <2>1. /\ pc' = [pc EXCEPT ![h] = step] /\ res' = [res EXCEPT ![h] = "none"]
        /\ call' = [call EXCEPT ![h] = c]
    BY <1>p DEF Proceed, Goto
  <2>2. \A g \in Handles \ {h} : Sound(g)' BY <1>p, <2>1, OthersSound
  <2>3. pc'[h] = step /\ res'[h] = "none" /\ call'[h] = c BY <2>1 DEF TypeOK
  <2>4. Sound(h)' BY <1>p, <2>3 DEF Sound, Served, Fresh, FromStore
  <2> QED BY <1>p, <2>2, <2>4, SameRows DEF Honest
\* A step that changes neither the calls nor what was stored.
<1>q. ASSUME pc' = pc, call' = call, res' = res, stored' = stored, Dated', Recorded' PROVE Honest'
  BY <1>q DEF Honest, Sound, Served, Fresh, FromStore
<1>1. CASE UNCHANGED vars
  BY <1>1, <1>q, SameRows DEF vars, dbVars
<1>2. ASSUME NEW h \in Handles, Open(h) \/ CallPrune(h) PROVE Honest'
  <2>1. rows' = [t \in Tables |-> Prune(rows[t], Limit[h][t])]
    BY <1>2 DEF Open, CallPrune, PruneAll
  <2>2. \A t \in Tables : /\ DOMAIN rows'[t] \subseteq DOMAIN rows[t]
                          /\ \A k \in DOMAIN rows'[t] : rows'[t][k] = rows[t][k]
    BY <2>1 DEF Prune, Kept
  <2>3. stored' = stored BY <1>2 DEF Open, CallPrune
  <2>4. Dated' BY <2>2 DEF Honest, Dated
  <2>5. Recorded' BY <2>2, <2>3 DEF Honest, Recorded, Tables
  <2> QED BY <1>2, <1>q, <2>3, <2>4, <2>5 DEF Open, CallPrune
<1>3. ASSUME NEW h \in Handles,
             StoreSearch(h) \/ StoreSpec(h) \/ StoreCatalogArtifact(h) \/ ListCatalogArtifacts(h)
      PROVE  Honest'
  <2>1. rows' = rows /\ stored' = stored
    BY <1>3 DEF StoreSearch, StoreSpec, StoreCatalogArtifact, ListCatalogArtifacts, CanCall, dbVars
  <2>2. (\E c : Proceed(h, "stampStore", c) \/ Proceed(h, "stampList", c)) \/ ReturnNow(h, "error")
    BY <1>3 DEF StoreSearch, StoreSpec, StoreCatalogArtifact, ListCatalogArtifacts
  <2> QED BY <1>p, <1>r, <2>1, <2>2
<1>u. ASSUME NEW t \in Tables, NEW k, Usable(t, k)
      PROVE  /\ k \in DOMAIN rows[t]
             /\ second - rows[t][k].born <= MaxAge
  <2>1. k \in DOMAIN rows[t] /\ ~Expired(rows[t][k]) BY <1>u DEF Usable
  <2>2. rows[t][k] \in Row BY <1>t, <2>1 DEF RowsOK, TableOK
  <2>3. rows[t][k].born = rows[t][k].updated BY <2>1 DEF Honest, Dated
  <2> QED BY <2>1, <2>2, <2>3, BoundAssumption DEF Expired, Row, TypeOK
<1>4. ASSUME NEW h \in Handles, LoadSearch(h) PROVE Honest'
  <2>1. rows' = rows /\ stored' = stored BY <1>4 DEF LoadSearch, CanCall, dbVars
  <2>2. CASE ReturnNow(h, "error") \/ ReturnNow(h, "miss") BY <1>r, <2>1, <2>2
  <2>3. ASSUME NEW q \in Queries, Usable("queries", q), NEW row, row = rows["queries"][q],
               ~(Size[row.data] > Budget[h]),
               Proceed(h, "stampTouch",
                    Call([NoKeys EXCEPT !["queries"] = {q}, !["results"] = row.results],
                         row, row.data, second - row.born))
        PROVE  Honest'
    <3> DEFINE keys == [NoKeys EXCEPT !["queries"] = {q}, !["results"] = row.results]
               c == Call(keys, row, row.data, second - row.born)
    <3>1. keys["specs"] = {} BY DEF NoKeys, Tables
    <3>2. c.age <= MaxAge BY <1>u, <2>3 DEF Call, Tables
    <3>3. Size[c.served] <= Budget[h]
      <4>1. q \in DOMAIN rows["queries"] BY <1>u, <2>3 DEF Tables
      <4>2. row.data \in Contents BY <1>t, <2>3, <4>1 DEF RowsOK, TableOK, Row, Tables
      <4>3. Size[row.data] \in Nat /\ Budget[h] \in Nat BY <4>2, SizeAssumption
      <4> QED BY <2>3, <4>3 DEF Call
    <3>4. c.keys["specs"] \X {c.served} \subseteq stored BY <3>1 DEF Call
    <3>5. Proceed(h, "stampTouch", c) BY <2>3
    <3> HIDE DEF c
    <3> QED BY <1>p, <2>1, <3>2, <3>3, <3>4, <3>5
  <2> QED BY <1>4, <2>2, <2>3 DEF LoadSearch
<1>5. ASSUME NEW h \in Handles, LoadSpec(h) PROVE Honest'
  <2>1. rows' = rows /\ stored' = stored BY <1>5 DEF LoadSpec, CanCall, dbVars
  <2>2. CASE ReturnNow(h, "miss") BY <1>r, <2>1, <2>2
  <2>3. ASSUME NEW u \in Urls, Usable("specs", u), NEW row, row = rows["specs"][u],
               Proceed(h, "readSpec",
                    Call([NoKeys EXCEPT !["specs"] = {u}], row, Absent, second - row.born))
        PROVE  Honest'
    <3> DEFINE keys == [NoKeys EXCEPT !["specs"] = {u}]
               c == Call(keys, row, Absent, second - row.born)
    <3>1. keys["specs"] = {u} BY DEF NoKeys, Tables
    <3>2. u \in DOMAIN rows["specs"] /\ c.age <= MaxAge BY <1>u, <2>3 DEF Call, Tables
    <3>3. <<u, row.data>> \in stored BY <2>3, <3>2 DEF Honest, Recorded
    <3>4. c.keys["specs"] \X {c.row.data} \subseteq stored BY <3>1, <3>3 DEF Call
    <3>5. Proceed(h, "readSpec", c) BY <2>3
    <3> HIDE DEF c
    <3> QED BY <1>p, <2>1, <3>2, <3>4, <3>5
  <2> QED BY <1>5, <2>2, <2>3 DEF LoadSpec
<1>6. ASSUME NEW h \in Handles, ReadSpec(h) PROVE Honest'
  <2>1. rows' = rows /\ stored' = stored BY <1>6 DEF ReadSpec, dbVars
  <2>2. CASE ReturnNow(h, "integrity") BY <1>r, <2>1, <2>2
  <2>3. ASSUME NEW d, d = call[h].row.data, Size[d] <= Budget[h],
               Proceed(h, "stampTouch", [call[h] EXCEPT !.served = d])
        PROVE  Honest'
    <3> DEFINE c == [call[h] EXCEPT !.served = d]
    <3>1. c.age = call[h].age /\ c.served = d /\ c.keys = call[h].keys BY DEF TypeOK, Calls
    <3>2. Fresh(h) /\ FromStore(h, d) BY <1>6, <2>3 DEF ReadSpec, Honest, Sound
    <3>3. Proceed(h, "stampTouch", c) BY <2>3
    <3> HIDE DEF c
    <3> QED BY <1>p, <2>1, <2>3, <3>1, <3>2, <3>3 DEF Fresh, FromStore
  <2> QED BY <1>6, <2>2, <2>3 DEF ReadSpec
<1>7. ASSUME NEW h \in Handles, Stamp(h) PROVE Honest'
  <2>1. rows' = rows /\ stored' = stored BY <1>7 DEF Stamp, dbVars
  <2>2. call[h] \in Calls BY DEF TypeOK
  <2>3. CASE pc[h] = "stampStore"
    <3> DEFINE c == [call[h] EXCEPT !.row.accessed = instant', !.row.updated = second,
                                    !.row.born = second]
    <3>1. c.row.born = c.row.updated BY <2>2 DEF Calls, Row
    <3>2. Proceed(h, "store", c) BY <1>7, <2>3 DEF Stamp
    <3> HIDE DEF c
    <3> QED BY <1>p, <2>1, <3>1, <3>2
  <2>4. CASE pc[h] # "stampStore"
    <3> DEFINE c == [call[h] EXCEPT !.row.accessed = instant']
    <3>1. c.age = call[h].age /\ c.served = call[h].served /\ c.keys = call[h].keys
      BY <2>2 DEF Calls
    <3>2. CASE pc[h] = "stampTouch"
      <4>1. Served(h) BY <3>2 DEF Honest, Sound
      <4>2. Proceed(h, "touch", c) BY <1>7, <3>2 DEF Stamp
      <4> HIDE DEF c
      <4> QED BY <1>p, <2>1, <3>1, <4>1, <4>2 DEF Served, Fresh, FromStore
    <3>3. CASE pc[h] = "stampList"
      <4>1. Proceed(h, "list", c) BY <1>7, <3>3 DEF Stamp
      <4> HIDE DEF c
      <4> QED BY <1>p, <2>1, <4>1
    <3> QED BY <1>7, <2>4, <3>2, <3>3 DEF Stamp
  <2> QED BY <2>3, <2>4
<1>8. ASSUME NEW h \in Handles, Store(h) PROVE Honest'
  <2>1. call[h] \in Calls BY DEF TypeOK
  <2> DEFINE keys == call[h].keys
             row == call[h].row
  <2>2. row.born = row.updated BY <1>8 DEF Store, Honest, Sound
  <2>3. stored' = stored \cup (keys["specs"] \X {row.data}) BY <1>8 DEF Store
  <2>4. ASSUME NEW t \in Tables, NEW k \in DOMAIN rows'[t]
        PROVE  \/ k \in keys[t] /\ rows'[t][k] = row
               \/ k \in DOMAIN rows[t] /\ rows'[t][k] = rows[t][k]
    BY <1>8 DEF Store, Prune, Kept, Upsert
  <2> HIDE DEF keys, row
  <2>5. Dated' BY <2>2, <2>4 DEF Honest, Dated
  <2>6. Recorded'
    <3> SUFFICES ASSUME NEW u \in DOMAIN rows'["specs"]
                 PROVE  <<u, rows'["specs"][u].data>> \in stored'
      BY DEF Recorded
    <3>1. CASE u \in keys["specs"] /\ rows'["specs"][u] = row BY <2>3, <3>1
    <3>2. CASE u \in DOMAIN rows["specs"] /\ rows'["specs"][u] = rows["specs"][u]
      BY <2>3, <3>2 DEF Honest, Recorded
    <3> QED BY <2>4, <3>1, <3>2 DEF Tables
  <2>7. /\ pc' = [pc EXCEPT ![h] = "idle"] /\ res' = [res EXCEPT ![h] = "ok"]
        /\ call' = [call EXCEPT ![h] = call[h]]
    BY <1>8 DEF Store, ReturnNow, Return, Goto, TypeOK
  <2>8. \A g \in Handles \ {h} : Sound(g)'
    <3>1. stored \subseteq stored' BY <2>3
    <3> QED BY <2>7, <3>1, OthersSound
  <2>9. Sound(h)' BY <2>7 DEF Sound, TypeOK
  <2> QED BY <2>5, <2>6, <2>8, <2>9 DEF Honest
\* A touch changes neither the age nor the document of a row.
<1>w. ASSUME NEW f, rows' = [t \in Tables |-> f[t]], stored' = stored,
             \A t \in Tables :
               /\ DOMAIN f[t] = DOMAIN rows[t]
               /\ \A k \in DOMAIN rows[t] : /\ f[t][k].data = rows[t][k].data
                                            /\ f[t][k].born = rows[t][k].born
                                            /\ f[t][k].updated = rows[t][k].updated
      PROVE  Dated' /\ Recorded'
  <2>1. Dated' BY <1>w DEF Honest, Dated
  <2>2. Recorded' BY <1>w DEF Honest, Recorded, Tables
  <2> QED BY <2>1, <2>2
<1>a. \A h \in Handles : call[h] \in Calls /\ call[h].row.accessed \in Nat
  BY DEF TypeOK, Calls, Row
<1>9. ASSUME NEW h \in Handles, TouchRows(h) PROVE Honest'
  <2> DEFINE f == [t \in Tables |-> Touch(rows[t], call[h].keys[t], call[h].row.accessed)]
  <2>1. rows' = [t \in Tables |-> f[t]] /\ stored' = stored BY <1>9 DEF TouchRows
  <2>2. \A t \in Tables :
               /\ DOMAIN f[t] = DOMAIN rows[t]
               /\ \A k \in DOMAIN rows[t] : /\ f[t][k].data = rows[t][k].data
                                            /\ f[t][k].born = rows[t][k].born
                                            /\ f[t][k].updated = rows[t][k].updated
    BY <1>a, <1>t, TouchShape DEF RowsOK
  <2> HIDE DEF f
  <2>3. Dated' /\ Recorded' BY <1>w, <2>1, <2>2
  <2>4. /\ pc' = [pc EXCEPT ![h] = "idle"] /\ res' = [res EXCEPT ![h] = "hit"]
        /\ call' = [call EXCEPT ![h] = call[h]]
    BY <1>9 DEF TouchRows, ReturnNow, Return, Goto, TypeOK
  <2>5. \A g \in Handles \ {h} : Sound(g)' BY <2>1, <2>4, OthersSound
  <2>6. Served(h) BY <1>9 DEF TouchRows, Honest, Sound
  <2>7. pc'[h] = "idle" /\ call'[h] = call[h] BY <2>4 DEF TypeOK
  <2>8. Sound(h)' BY <2>1, <2>6, <2>7 DEF Sound, Served, Fresh, FromStore
  <2> QED BY <2>3, <2>5, <2>8 DEF Honest
<1>10. ASSUME NEW h \in Handles, TouchListed(h) PROVE Honest'
  <2>1. CASE UNCHANGED rows /\ ReturnNow(h, "ok")
    BY <1>10, <1>r, <2>1 DEF TouchListed
  <2>2. ASSUME NEW a \in call[h].keys["artifacts"],
               rows' = [t \in Tables |->
                   IF t = "artifacts" THEN Touch(rows[t], {a}, call[h].row.accessed) ELSE rows[t]],
               call' = [call EXCEPT ![h] =
                   [@ EXCEPT !.keys = [NoKeys EXCEPT !["artifacts"] = call[h].keys["artifacts"] \ {a}]]],
               UNCHANGED <<pc, res>>
        PROVE  Honest'
    <3> DEFINE f == [t \in Tables |->
                   IF t = "artifacts" THEN Touch(rows[t], {a}, call[h].row.accessed) ELSE rows[t]]
               left == [NoKeys EXCEPT !["artifacts"] = call[h].keys["artifacts"] \ {a}]
               c == [call[h] EXCEPT !.keys = left]
    <3>1. rows' = [t \in Tables |-> f[t]] /\ stored' = stored BY <1>10, <2>2 DEF TouchListed
    <3>2. \A t \in Tables :
               /\ DOMAIN f[t] = DOMAIN rows[t]
               /\ \A k \in DOMAIN rows[t] : /\ f[t][k].data = rows[t][k].data
                                            /\ f[t][k].born = rows[t][k].born
                                            /\ f[t][k].updated = rows[t][k].updated
      BY <1>a, <1>t, TouchShape DEF RowsOK
    <3> HIDE DEF f
    <3>3. Dated' /\ Recorded' BY <1>w, <3>1, <3>2
    <3>4. left["specs"] = {} BY DEF NoKeys, Tables
    <3> HIDE DEF left
    <3>5. c.age = call[h].age /\ c.served = call[h].served /\ c.keys = left BY <1>a DEF Calls
    <3>6. call' = [call EXCEPT ![h] = c] BY <2>2 DEF left
    <3> HIDE DEF c
    <3>7. /\ pc' = [pc EXCEPT ![h] = pc[h]] /\ res' = [res EXCEPT ![h] = res[h]]
      BY <2>2 DEF TypeOK
    <3>8. \A g \in Handles \ {h} : Sound(g)' BY <3>1, <3>6, <3>7, OthersSound
    <3>9. pc'[h] = "list" /\ res'[h] = res[h] /\ call'[h] = c
      BY <1>10, <2>2, <3>6 DEF TouchListed, TypeOK
    <3>10. res[h] = "hit" => Fresh(h) /\ Size[call[h].served] <= Budget[h]
      BY DEF Honest, Sound, Served
    <3>11. Sound(h)' BY <3>4, <3>5, <3>9, <3>10 DEF Sound, Served, Fresh, FromStore
    <3> QED BY <3>3, <3>8, <3>11 DEF Honest
  <2> QED BY <1>10, <2>1, <2>2 DEF TouchListed
<1>11. ASSUME NEW h \in Handles, Abort(h) PROVE Honest'
  BY <1>11, <1>r DEF Abort, dbVars
<1>12. CASE Tick \/ Rewrite
  BY <1>12, <1>q, SameRows DEF Tick, Rewrite, dbVars
<1> QED BY <1>1, <1>2, <1>3, <1>4, <1>5, <1>6, <1>7, <1>8, <1>9, <1>10, <1>11, <1>12
        DEF Next, Step

LEMMA HonestInvariant == Spec => []Honest
BY HonestInit, HonestStep, TypeCorrect, PTL DEF Spec

\* However long a row has been in use, LoadSearch and LoadSpec serve nothing
\* that was stored longer ago than their caller accepts.
THEOREM HitsAreFresh == Spec => []HitIsFresh
<1>1. Honest => HitIsFresh BY DEF Honest, Sound, Served, Fresh, HitIsFresh
<1> QED BY <1>1, HonestInvariant, PTL

\* A handle never serves more bytes than its own Options allow.
THEOREM HitsAreWithinBudget == Spec => []HitWithinBudget
<1>1. Honest => HitWithinBudget BY DEF Honest, Sound, Served, HitWithinBudget
<1> QED BY <1>1, HonestInvariant, PTL

\* LoadSpec serves what StoreSpec committed for the URL, whoever replaces the
\* document's file and whenever: the digest recorded with the row decides.
THEOREM ServedIsStored == Spec => []ServedWasStored
<1>1. Honest => ServedWasStored BY DEF Honest, Sound, Served, FromStore, ServedWasStored
<1> QED BY <1>1, HonestInvariant, PTL

\* Whatever the handles and whoever writes the files, every hit is sound.
THEOREM HitsAreSound == Spec => []HitIsSound
BY HitsAreFresh, HitsAreWithinBudget, ServedIsStored, PTL DEF HitIsSound

(***************************************************************************)
(* Least-recently-used retention.  The rows of a table are in a total      *)
(* order; pruning keeps the first of them; a use puts rows before it.      *)
(***************************************************************************)
LEMMA NewerOrders ==
    ASSUME NEW table, Keyed(table)
    PROVE  /\ \A j, k \in DOMAIN table : Newer(table, j, k) => ~Newer(table, k, j)
           /\ \A j, k \in DOMAIN table : j = k \/ Newer(table, j, k) \/ Newer(table, k, j)
           /\ \A i, j, k \in DOMAIN table :
                 Newer(table, i, j) /\ Newer(table, j, k) => Newer(table, i, k)
<1> DEFINE D == DOMAIN table
           acc(k) == table[k].accessed
<1>1. \A k \in D : acc(k) \in Nat /\ k \in Nat
    BY DEF Keyed
<1>2. \A j, k \in D : Newer(table, j, k) <=> acc(j) > acc(k) \/ (acc(j) = acc(k) /\ j > k)
    BY DEF Newer
<1> HIDE DEF D, acc
<1> QED BY <1>1, <1>2 DEF D

Before(table, k) == {j \in DOMAIN table : Newer(table, j, k)}

LEMMA BeforeGrows ==
    ASSUME NEW table, Keyed(table), IsFiniteSet(DOMAIN table),
           NEW j \in DOMAIN table, NEW k \in DOMAIN table, Newer(table, j, k)
    PROVE  /\ Cardinality(Before(table, j)) \in Nat /\ Cardinality(Before(table, k)) \in Nat
           /\ Cardinality(Before(table, j)) < Cardinality(Before(table, k))
<1>1. IsFiniteSet(Before(table, j)) /\ IsFiniteSet(Before(table, k))
    BY FS_Subset DEF Before
<1>2. Before(table, j) \subseteq Before(table, k) /\ j \in Before(table, k) /\ j \notin Before(table, j)
    BY NewerOrders DEF Before
<1>3. /\ Cardinality(Before(table, j)) <= Cardinality(Before(table, k))
      /\ Cardinality(Before(table, j)) # Cardinality(Before(table, k))
    BY <1>1, <1>2, FS_Subset
<1> QED BY <1>1, <1>3, FS_CardinalityType

\* What is newest has the fewest rows before it.
LEMMA NewestRow ==
    ASSUME NEW table, Keyed(table), IsFiniteSet(DOMAIN table), NEW S \in SUBSET DOMAIN table, S # {}
    PROVE  \E k \in S : \A j \in S \ {k} : Newer(table, k, j)
<1> DEFINE Ranks == {Cardinality(Before(table, k)) : k \in S}
<1>1. \A k \in S : Cardinality(Before(table, k)) \in Nat
  <2> SUFFICES ASSUME NEW k \in S PROVE Cardinality(Before(table, k)) \in Nat
      OBVIOUS
  <2>1. IsFiniteSet(Before(table, k))
      BY FS_Subset DEF Before
  <2> QED BY <2>1, FS_CardinalityType
<1>2. PICK r \in Ranks : \A q \in Ranks : r <= q
  <2>1. Ranks \in SUBSET Nat /\ Ranks # {}
      BY <1>1
  <2> HIDE DEF Ranks
  <2> QED BY <2>1, LeastElement
<1>3. PICK k \in S : Cardinality(Before(table, k)) = r
    OBVIOUS
<1>4. ASSUME NEW j \in S \ {k} PROVE Newer(table, k, j)
  <2>1. Cardinality(Before(table, k)) <= Cardinality(Before(table, j))
      BY <1>2, <1>3
  <2>2. ~Newer(table, j, k)
      BY <2>1, BeforeGrows
  <2> QED BY <2>2, NewerOrders
<1> QED BY <1>4

\* Pruning keeps as many rows as it may, and none that is older than one it drops.
LEMMA KeptAreNewest ==
    ASSUME NEW table, Keyed(table), IsFiniteSet(DOMAIN table), NEW limit \in Nat \ {0}
    PROVE  LET D == DOMAIN table
               kept == Kept(table, limit)
           IN /\ kept \subseteq D
              /\ Cardinality(kept) = IF Cardinality(D) <= limit THEN Cardinality(D) ELSE limit
              /\ \A k \in kept, l \in D \ kept : Newer(table, k, l)
<1> DEFINE D == DOMAIN table
           kept == Kept(table, limit)
<1>1. kept \subseteq D /\ \A k \in D : k \in kept <=> Cardinality(Before(table, k)) < limit
    BY DEF Kept, Before
<1>2. ASSUME NEW k \in kept, NEW l \in D \ kept PROVE Newer(table, k, l)
  <2>1. k \in D /\ l \in D /\ k # l
      BY <1>1
  <2>2. CASE Newer(table, l, k)
    <3>1. /\ Cardinality(Before(table, l)) \in Nat /\ Cardinality(Before(table, k)) \in Nat
          /\ Cardinality(Before(table, l)) < Cardinality(Before(table, k))
        BY <2>1, <2>2, BeforeGrows
    <3>2. Cardinality(Before(table, l)) < limit
        BY <1>1, <2>1, <3>1
    <3> QED BY <1>1, <2>1, <3>2
  <2> QED BY <2>1, <2>2, NewerOrders
<1>3. Cardinality(kept) <= limit
    BY KeptWithinLimit
<1>4. /\ IsFiniteSet(kept) /\ Cardinality(kept) \in Nat /\ Cardinality(D) \in Nat
      /\ Cardinality(kept) <= Cardinality(D)
      /\ Cardinality(kept) = Cardinality(D) => kept = D
    BY <1>1, FS_Subset, FS_CardinalityType
<1>5. ASSUME kept # D PROVE Cardinality(kept) >= limit
  <2>1. PICK l \in D \ kept : \A j \in (D \ kept) \ {l} : Newer(table, l, j)
    <3>1. D \ kept \in SUBSET DOMAIN table /\ D \ kept # {}
        BY <1>1, <1>5
    <3> QED BY <3>1, NewestRow
  <2>2. Before(table, l) \subseteq kept
    <3> SUFFICES ASSUME NEW j \in Before(table, l), j \notin kept PROVE FALSE
        OBVIOUS
    <3>1. j \in DOMAIN table /\ Newer(table, j, l) /\ j # l
        BY NewerOrders DEF Before
    <3>2. Newer(table, l, j)
        BY <2>1, <3>1
    <3> QED BY <3>1, <3>2, NewerOrders
  <2>3. Cardinality(Before(table, l)) <= Cardinality(kept) /\ Cardinality(Before(table, l)) \in Nat
      BY <1>4, <2>2, FS_Subset, FS_CardinalityType
  <2>4. ~(Cardinality(Before(table, l)) < limit)
      BY <1>1, <2>1
  <2> HIDE DEF kept
  <2> QED BY <1>4, <2>3, <2>4
<1> HIDE DEF kept, D
<1>6. Cardinality(kept) = IF Cardinality(D) <= limit THEN Cardinality(D) ELSE limit
    BY <1>3, <1>4, <1>5
<1> QED BY <1>1, <1>2, <1>6 DEF kept, D

LEMMA OrderPruned ==
    ASSUME NEW table, NEW limit
    PROVE  /\ DOMAIN Prune(table, limit) = Kept(table, limit)
           /\ Order(Prune(table, limit))
                = Order(table) \cap (Kept(table, limit) \X Kept(table, limit))
<1> DEFINE kept == Kept(table, limit)
<1>1. DOMAIN Prune(table, limit) = kept /\ \A k \in kept : Prune(table, limit)[k] = table[k]
    BY DEF Prune
<1>2. kept \subseteq DOMAIN table
    BY DEF Kept
<1> HIDE DEF kept
<1> QED BY <1>1, <1>2 DEF Order, Newer, kept

\* The order of a table of the keys `all` once `used` are used, as LruTable has it.
FrontOf(used, all, order) ==
    {p \in all \X all :
        IF p[1] \in used THEN p[2] \in used => p[1] > p[2] ELSE p[2] \notin used /\ p \in order}

LEMMA OrderUpserted ==
    ASSUME NEW table, Keyed(table), NEW keys \in SUBSET Nat, NEW row, row.accessed \in Nat,
           \A k \in DOMAIN table : table[k].accessed < row.accessed
    PROVE  /\ DOMAIN Upsert(table, keys, row) = DOMAIN table \cup keys
           /\ Order(Upsert(table, keys, row)) = FrontOf(keys, DOMAIN table \cup keys, Order(table))
<1> DEFINE D == DOMAIN table
           new == Upsert(table, keys, row)
           at == row.accessed
<1>1. /\ DOMAIN new = D \cup keys
      /\ \A k \in keys : new[k].accessed = at
      /\ \A k \in D \ keys : new[k].accessed = table[k].accessed
    BY DEF Upsert
<1>2. at \in Nat /\ \A k \in D : table[k].accessed \in Nat /\ table[k].accessed < at /\ k \in Nat
    BY DEF Keyed
<1> HIDE DEF D, new, at
<1>3. ASSUME NEW j \in D \cup keys, NEW k \in D \cup keys
      PROVE  Newer(new, j, k) <=> IF j \in keys THEN k \in keys => j > k
                                                ELSE k \notin keys /\ Newer(table, j, k)
  <2>1. CASE j \in keys /\ k \in keys
      BY <1>1, <1>2, <2>1 DEF Newer
  <2>2. CASE j \in keys /\ k \notin keys
      BY <1>1, <1>2, <2>2 DEF Newer
  <2>3. CASE j \notin keys /\ k \in keys
      BY <1>1, <1>2, <2>3 DEF Newer
  <2>4. CASE j \notin keys /\ k \notin keys
      BY <1>1, <1>2, <2>4 DEF Newer
  <2> QED BY <2>1, <2>2, <2>3, <2>4
<1>4. Order(new) = FrontOf(keys, D \cup keys, Order(table))
  <2> SUFFICES ASSUME NEW j \in D \cup keys, NEW k \in D \cup keys
               PROVE  Newer(new, j, k) <=> IF j \in keys THEN k \in keys => j > k
                                                ELSE k \notin keys /\ <<j, k>> \in Order(table)
      BY <1>1 DEF Order, FrontOf
  <2>1. j \notin keys /\ k \notin keys => (<<j, k>> \in Order(table) <=> Newer(table, j, k))
      BY DEF Order, D
  <2> QED BY <1>3, <2>1
<1> QED BY <1>1, <1>4 DEF new, D

LEMMA OrderTouched ==
    ASSUME NEW table, Keyed(table), NEW keys \in SUBSET Nat, NEW at \in Nat,
           \A k \in DOMAIN table : table[k] \in Row,
           \A k \in (DOMAIN table) \ keys :
              table[k].accessed < at \/ (table[k].accessed = at /\ \A l \in keys : k < l)
    PROVE  /\ DOMAIN Touch(table, keys, at) = DOMAIN table
           /\ Order(Touch(table, keys, at)) = FrontOf(keys \cap DOMAIN table, DOMAIN table, Order(table))
<1> DEFINE D == DOMAIN table
           new == Touch(table, keys, at)
           used == keys \cap D
<1>1. /\ DOMAIN new = D
      /\ \A k \in used : new[k].accessed = at
      /\ \A k \in D \ used : new[k].accessed = table[k].accessed
    BY DEF Touch, Row
<1>2. /\ \A k \in D : table[k].accessed \in Nat /\ k \in Nat
      /\ \A k \in D \ used : table[k].accessed < at \/ (table[k].accessed = at /\ \A l \in used : k < l)
    BY DEF Keyed
<1>3. used \subseteq D
    OBVIOUS
<1> HIDE DEF D, new, used
<1>4. ASSUME NEW j \in D, NEW k \in D
      PROVE  Newer(new, j, k) <=> IF j \in used THEN k \in used => j > k
                                                ELSE k \notin used /\ Newer(table, j, k)
  <2>1. CASE j \in used /\ k \in used
      BY <1>1, <1>2, <2>1 DEF Newer
  <2>2. CASE j \in used /\ k \notin used
      BY <1>1, <1>2, <2>2 DEF Newer
  <2>3. CASE j \notin used /\ k \in used
      BY <1>1, <1>2, <2>3 DEF Newer
  <2>4. CASE j \notin used /\ k \notin used
      BY <1>1, <1>2, <2>4 DEF Newer
  <2> QED BY <2>1, <2>2, <2>3, <2>4
<1>5. Order(new) = FrontOf(used, D, Order(table))
  <2> SUFFICES ASSUME NEW j \in D, NEW k \in D
               PROVE  Newer(new, j, k) <=> IF j \in used THEN k \in used => j > k
                                                ELSE k \notin used /\ <<j, k>> \in Order(table)
      BY <1>1 DEF Order, FrontOf
  <2>1. <<j, k>> \in Order(table) <=> Newer(table, j, k)
      BY DEF Order, D
  <2> QED BY <1>4, <2>1
<1> QED BY <1>1, <1>5 DEF new, D, used

(***************************************************************************)
(* What keeps the tables in the order of their use while calls take turns: *)
(* no row is stamped later than the clock was read; the one call that is   *)
(* under way was stamped after all rows, and one that lists artifacts has  *)
(* stamped those, all of them before the ones it has left.                 *)
(***************************************************************************)
Accessed(at) == \A t \in Tables : \A k \in DOMAIN rows[t] : rows[t][k].accessed <= at
Stamped == /\ Accessed(instant)
           /\ \A h \in Handles : pc[h] \in {"store", "touch", "list"} => call[h].row.accessed <= instant

Alone == \A g, h \in Handles : pc[g] # "idle" /\ pc[h] # "idle" => g = h
Later(h) ==
    pc[h] \in {"store", "touch"} =>
        \A t \in Tables : \A k \in DOMAIN rows[t] : rows[t][k].accessed < call[h].row.accessed
Lists(h) ==
    pc[h] \in {"stampList", "list"} => \A t \in Tables \ {"artifacts"} : call[h].keys[t] = {}
ListsInOrder(h) ==
    pc[h] = "list" =>
        \A k \in DOMAIN rows["artifacts"] :
            \/ rows["artifacts"][k].accessed < call[h].row.accessed
            \/ /\ rows["artifacts"][k].accessed = call[h].row.accessed
               /\ \A l \in call[h].keys["artifacts"] : k < l
Latest(h) == Later(h) /\ Lists(h) /\ ListsInOrder(h)
InOrder == Stamped /\ (turns => Alone /\ \A h \in Handles : Latest(h))

\* The kinds of steps, as far as the order of the rows is concerned.
Writing == {"store", "touch", "list"}
OthersStay(h) ==
    \A g \in Handles \ {h} : pc'[g] = pc[g] /\ call'[g] = call[g] /\ res'[g] = res[g]
Prepares(h) ==
    /\ pc[h] \notin Writing /\ pc'[h] \notin Writing
    /\ pc[h] = "idle" /\ turns => \A g \in Handles : pc[g] = "idle"
    /\ pc'[h] = "stampList" => \A t \in Tables \ {"artifacts"} : call'[h].keys[t] = {}
    /\ UNCHANGED <<turns, rows, instant>> /\ OthersStay(h)
Evicts(h) == PruneAll(h) /\ UNCHANGED <<turns, pc, call, res, instant>>
Writes(h) == Store(h) \/ TouchRows(h) \/ TouchListed(h) \/ Abort(h)

LEMMA Kinds ==
    ASSUME TypeOK, [Next]_vars
    PROVE  \/ UNCHANGED <<turns, pc, call, res, rows, instant>>
           \/ \E h \in Handles : Evicts(h) \/ Prepares(h) \/ Stamp(h) \/ Writes(h)
<1> USE DEF dbVars, clockVars, countVars
<1>1. CASE UNCHANGED vars
    BY <1>1 DEF vars
<1>2. CASE Tick \/ Rewrite
    BY <1>2 DEF Tick, Rewrite
<1>3. ASSUME NEW h \in Handles, Open(h) \/ CallPrune(h) PROVE Evicts(h)
    BY <1>3 DEF Open, CallPrune, Evicts
<1>4. ASSUME NEW h \in Handles, CanCall(h), NEW step, NEW c, Proceed(h, step, c),
             step \in {"stampStore", "stampTouch", "readSpec"}
                \/ (step = "stampList" /\ \A t \in Tables \ {"artifacts"} : c.keys[t] = {})
      PROVE  Prepares(h)
    BY <1>4 DEF CanCall, Proceed, Goto, Prepares, Writing, OthersStay, TypeOK
<1>5. ASSUME NEW h \in Handles, CanCall(h), NEW r, ReturnNow(h, r) PROVE Prepares(h)
    BY <1>5 DEF CanCall, ReturnNow, Return, Goto, Prepares, Writing, OthersStay, TypeOK
<1>6. ASSUME NEW h \in Handles,
             StoreSearch(h) \/ StoreSpec(h) \/ StoreCatalogArtifact(h) \/ LoadSearch(h) \/ LoadSpec(h)
      PROVE  Prepares(h)
    BY <1>4, <1>5, <1>6 DEF StoreSearch, StoreSpec, StoreCatalogArtifact, LoadSearch, LoadSpec
<1>7. ASSUME NEW h \in Handles, ListCatalogArtifacts(h) PROVE Prepares(h)
  <2> DEFINE c == Call([NoKeys EXCEPT !["artifacts"] = DOMAIN rows["artifacts"]], call[h].row, Absent, 0)
  <2>1. \A t \in Tables \ {"artifacts"} : c.keys[t] = {}
      BY DEF Call, NoKeys
  <2>2. CanCall(h) /\ Proceed(h, "stampList", c)
      BY <1>7 DEF ListCatalogArtifacts
  <2> HIDE DEF c
  <2> QED BY <1>4, <2>1, <2>2
<1>8. ASSUME NEW h \in Handles, ReadSpec(h) PROVE Prepares(h)
  <2>1. PICK c, r : Proceed(h, "stampTouch", c) \/ ReturnNow(h, r)
      BY <1>8 DEF ReadSpec
  <2> QED BY <1>8, <2>1
          DEF ReadSpec, Proceed, ReturnNow, Return, Goto, Prepares, Writing, OthersStay, TypeOK
<1> QED BY <1>1, <1>2, <1>3, <1>6, <1>7, <1>8 DEF Next, Step, Writes

LEMMA InOrderInit == Init => InOrder
<1> SUFFICES ASSUME Init PROVE InOrder
    OBVIOUS
<1>1. PICK d \in Contents, old \in {NoKeys, Keys} : rows = [t \in Tables |-> [k \in old[t] |-> OldRow(d)]]
    BY DEF Init
<1>2. instant = 0 /\ \A h \in Handles : pc[h] = "idle"
    BY DEF Init
<1>3. \A t \in Tables : \A k \in DOMAIN rows[t] : rows[t][k].accessed = 0
    BY <1>1 DEF OldRow
<1> QED BY <1>2, <1>3 DEF InOrder, Stamped, Accessed, Alone, Latest, Later, Lists, ListsInOrder

\* What a call writes carries its own stamp.
LEMMA Restamped ==
    ASSUME TypeOK, NEW h \in Handles, Writes(h), NEW t \in Tables, NEW k \in DOMAIN rows'[t]
    PROVE  \/ k \in DOMAIN rows[t] /\ rows'[t][k].accessed = rows[t][k].accessed
           \/ rows'[t][k].accessed = call[h].row.accessed
<1> DEFINE table == rows[t]
           keys == call[h].keys[t]
           row == call[h].row
<1>1. DOMAIN rows = Tables /\ \A l \in DOMAIN table : table[l] \in Row
    BY DEF TypeOK
<1>2. CASE Store(h)
  <2> DEFINE new == Upsert(table, keys, row)
  <2>1. rows'[t] = Prune(new, Limit[h][t])
      BY <1>2 DEF Store
  <2>2. k \in DOMAIN new /\ rows'[t][k] = new[k]
      BY <2>1 DEF Prune, Kept
  <2> QED BY <2>2 DEF Upsert
<1>3. ASSUME NEW used, rows'[t] = Touch(table, used, row.accessed)
      PROVE  \/ k \in DOMAIN rows[t] /\ rows'[t][k].accessed = rows[t][k].accessed
             \/ rows'[t][k].accessed = call[h].row.accessed
    BY <1>1, <1>3 DEF Touch, Row
<1>4. CASE TouchRows(h)
    BY <1>3, <1>4 DEF TouchRows
<1>5. CASE TouchListed(h)
  <2>1. rows' = rows \/ \E used : rows'[t] = Touch(table, used, row.accessed) \/ rows'[t] = rows[t]
      BY <1>5 DEF TouchListed
  <2> QED BY <1>3, <2>1
<1>6. CASE Abort(h)
    BY <1>6 DEF Abort, dbVars
<1> QED BY <1>2, <1>4, <1>5, <1>6 DEF Writes

LEMMA WritesType ==
    ASSUME TypeOK, NEW h \in Handles, Writes(h)
    PROVE  /\ pc[h] \in Writing
           /\ turns' = turns /\ instant' = instant
           /\ OthersStay(h)
           /\ \/ pc'[h] = "idle"
              \/ pc'[h] = "list" /\ TouchListed(h)
<1> USE DEF Writing, Rest, clockVars, OthersStay
<1>1. ASSUME NEW r, ReturnNow(h, r)
      PROVE  OthersStay(h) /\ pc'[h] = "idle"
    BY <1>1 DEF ReturnNow, Return, Goto, TypeOK
<1>2. CASE Store(h)
    BY <1>1, <1>2 DEF Store
<1>3. CASE TouchRows(h)
    BY <1>1, <1>3 DEF TouchRows
<1>4. CASE Abort(h)
    BY <1>1, <1>4 DEF Abort
<1>5. CASE TouchListed(h)
  <2>1. CASE ReturnNow(h, "ok")
      BY <1>1, <1>5, <2>1 DEF TouchListed
  <2>2. CASE (\E c : call' = [call EXCEPT ![h] = c]) /\ UNCHANGED <<pc, res>>
      BY <1>5, <2>2 DEF TouchListed, TypeOK
  <2>3. ((\E c : call' = [call EXCEPT ![h] = c]) /\ UNCHANGED <<pc, res>>) \/ ReturnNow(h, "ok")
    <3>1. CASE ReturnNow(h, "ok")
        BY <3>1
    <3>2. ASSUME NEW a, UNCHANGED <<pc, res>>,
                 call' = [call EXCEPT ![h] = [@ EXCEPT !.keys =
                            [NoKeys EXCEPT !["artifacts"] = call[h].keys["artifacts"] \ {a}]]]
          PROVE  (\E c : call' = [call EXCEPT ![h] = c]) /\ UNCHANGED <<pc, res>>
        BY <3>2
    <3> QED BY <1>5, <3>1, <3>2 DEF TouchListed
  <2> QED BY <2>1, <2>2, <2>3
<1> QED BY <1>2, <1>3, <1>4, <1>5 DEF Writes

LEMMA InOrderStep == TypeOK /\ InOrder /\ [Next]_vars => InOrder'
<1> SUFFICES ASSUME TypeOK, InOrder, [Next]_vars PROVE InOrder'
    OBVIOUS
<1>t. /\ instant \in Nat
      /\ DOMAIN rows = Tables
      /\ \A t \in Tables : \A k \in DOMAIN rows[t] : rows[t][k].accessed \in Nat /\ k \in Nat
      /\ \A h \in Handles : call[h] \in Calls
      /\ \A h \in Handles : call[h].row.accessed \in Nat
  <2>1. \A t \in Tables : \A k \in DOMAIN rows[t] : k \in Nat /\ rows[t][k] \in Row
      BY KeyAssumption DEF TypeOK
  <2>2. \A h \in Handles : call[h] \in Calls /\ call[h].row \in Row
      BY DEF TypeOK, Calls
  <2> QED BY <2>1, <2>2 DEF TypeOK, Row
\* One handle steps while, if calls take turns, no other call is under way.
<1>h. ASSUME NEW h \in Handles, OthersStay(h), turns' = turns, Accessed(instant)', instant <= instant',
             instant' \in Nat,
             turns => \A g \in Handles \ {h} : pc[g] = "idle",
             pc'[h] \in Writing => call'[h].row.accessed <= instant',
             turns => Latest(h)'
      PROVE  InOrder'
  <2>1. ASSUME NEW g \in Handles, pc'[g] \in Writing PROVE call'[g].row.accessed <= instant'
    <3>1. CASE g = h
        BY <1>h, <2>1, <3>1
    <3>2. CASE g # h
      <4>1. pc[g] \in Writing /\ call'[g] = call[g]
          BY <1>h, <2>1, <3>2 DEF OthersStay
      <4>2. call[g].row.accessed <= instant
          BY <4>1 DEF InOrder, Stamped, Writing
      <4> QED BY <1>t, <1>h, <4>1, <4>2
    <3> QED BY <3>1, <3>2
  <2>2. ASSUME turns PROVE Alone' /\ \A g \in Handles : Latest(g)'
    <3>1. \A g \in Handles \ {h} : pc'[g] = "idle"
        BY <1>h, <2>2 DEF OthersStay
    <3>2. \A g \in Handles \ {h} : Latest(g)'
        BY <3>1 DEF Latest, Later, Lists, ListsInOrder
    <3> QED BY <1>h, <2>2, <3>1, <3>2 DEF Alone
  <2> QED BY <1>h, <2>1, <2>2 DEF InOrder, Stamped, Writing
<1>1. CASE UNCHANGED <<turns, pc, call, res, rows, instant>>
    BY <1>1 DEF InOrder, Stamped, Accessed, Alone, Latest, Later, Lists, ListsInOrder
<1>2. ASSUME NEW h \in Handles, Evicts(h) PROVE InOrder'
  <2>1. \A t \in Tables : /\ DOMAIN rows'[t] \subseteq DOMAIN rows[t]
                          /\ \A k \in DOMAIN rows'[t] : rows'[t][k] = rows[t][k]
      BY <1>2 DEF Evicts, PruneAll, Prune, Kept
  <2>2. UNCHANGED <<turns, pc, call, instant>>
      BY <1>2 DEF Evicts
  <2>3. Stamped'
      BY <2>1, <2>2 DEF InOrder, Stamped, Accessed
  <2>4. ASSUME turns, NEW g \in Handles PROVE Latest(g)'
    <3>1. Latest(g)
        BY <2>4 DEF InOrder
    <3>2. Later(g)'
        BY <2>1, <2>2, <3>1 DEF Latest, Later
    <3>3. Lists(g)'
        BY <2>2, <3>1 DEF Latest, Lists
    <3>4. ListsInOrder(g)'
      <4>1. "artifacts" \in Tables
          BY DEF Tables
      <4> QED BY <2>1, <2>2, <3>1, <4>1 DEF Latest, ListsInOrder
    <3> QED BY <3>2, <3>3, <3>4 DEF Latest
  <2>5. turns => Alone'
      BY <2>2 DEF InOrder, Alone
  <2> QED BY <2>2, <2>3, <2>4, <2>5 DEF InOrder
<1>3. ASSUME NEW h \in Handles, Prepares(h) PROVE InOrder'
  <2>1. turns => \A g \in Handles \ {h} : pc[g] = "idle"
      BY <1>3 DEF Prepares, InOrder, Alone
  <2>2. OthersStay(h) /\ UNCHANGED <<turns, rows, instant>> /\ pc'[h] \notin Writing
      BY <1>3 DEF Prepares
  <2>3. Accessed(instant)'
      BY <2>2 DEF InOrder, Stamped, Accessed
  <2>4. Latest(h)'
      BY <1>3, <2>2 DEF Prepares, Latest, Later, Lists, ListsInOrder, Writing
  <2> QED BY <1>h, <1>t, <2>1, <2>2, <2>3, <2>4
<1>4. ASSUME NEW h \in Handles, Stamp(h) PROVE InOrder'
  <2>1. /\ pc[h] \in {"stampStore", "stampTouch", "stampList"}
        /\ instant' = instant + 1 /\ rows' = rows /\ turns' = turns
      BY <1>4 DEF Stamp, dbVars
  <2>2. /\ OthersStay(h)
        /\ call'[h].row.accessed = instant + 1
        /\ call'[h].keys = call[h].keys
        /\ pc'[h] = "list" => pc[h] = "stampList"
    <3> DEFINE c == IF pc[h] = "stampStore"
                    THEN [call[h] EXCEPT !.row.accessed = instant', !.row.updated = second, !.row.born = second]
                    ELSE [call[h] EXCEPT !.row.accessed = instant']
               step == CASE pc[h] = "stampStore" -> "store"
                         [] pc[h] = "stampTouch" -> "touch" [] OTHER -> "list"
    <3>1. Proceed(h, step, c)
        BY <1>4 DEF Stamp
    <3>2. c.row.accessed = instant + 1 /\ c.keys = call[h].keys
      <4>1. call[h] \in Calls
          BY <1>t
      <4> QED BY <2>1, <4>1 DEF Calls, Row
    <3>3. step = "list" => pc[h] = "stampList"
        BY <2>1
    <3> HIDE DEF c, step
    <3> QED BY <3>1, <3>2, <3>3 DEF Proceed, Goto, OthersStay, TypeOK
  <2>3. turns => \A g \in Handles \ {h} : pc[g] = "idle"
      BY <2>1 DEF InOrder, Alone
  <2>4. \A t \in Tables : \A k \in DOMAIN rows[t] :
            rows[t][k].accessed <= instant /\ rows[t][k].accessed \in Nat
      BY <1>t DEF InOrder, Stamped, Accessed
  <2>5. \A t \in Tables : \A k \in DOMAIN rows[t] :
            rows[t][k].accessed <= instant + 1 /\ rows[t][k].accessed < instant + 1
      BY <1>t, <2>4
  <2>6. Accessed(instant)'
      BY <2>1, <2>5 DEF Accessed
  <2>7. turns => Latest(h)'
    <3>1. Later(h)'
        BY <2>1, <2>2, <2>5 DEF Later
    <3>2. turns => Lists(h)'
      <4>1. pc'[h] # "stampList"
          BY <1>4 DEF Stamp, Proceed, Goto, TypeOK
      <4> QED BY <2>2, <4>1 DEF InOrder, Latest, Lists
    <3>3. ListsInOrder(h)'
        BY <2>1, <2>2, <2>5 DEF ListsInOrder, Tables
    <3> QED BY <3>1, <3>2, <3>3 DEF Latest
  <2>8. instant <= instant' /\ instant' \in Nat /\ call'[h].row.accessed <= instant'
      BY <1>t, <2>1, <2>2
  <2> QED BY <1>h, <2>1, <2>2, <2>3, <2>6, <2>7, <2>8
<1>5. ASSUME NEW h \in Handles, Writes(h) PROVE InOrder'
  <2>1. /\ pc[h] \in Writing
        /\ turns' = turns /\ instant' = instant
        /\ OthersStay(h)
        /\ \/ pc'[h] = "idle"
           \/ pc'[h] = "list" /\ TouchListed(h)
      BY <1>5, WritesType
  <2>2. turns => \A g \in Handles \ {h} : pc[g] = "idle"
      BY <2>1 DEF InOrder, Alone, Writing
  <2>3. call[h].row.accessed <= instant
      BY <2>1 DEF InOrder, Stamped, Writing
  <2>4. Accessed(instant)'
    <3>1. ASSUME NEW t \in Tables, NEW k \in DOMAIN rows'[t] PROVE rows'[t][k].accessed <= instant
      <4>1. k \in DOMAIN rows[t] => rows[t][k].accessed <= instant
          BY DEF InOrder, Stamped, Accessed
      <4> QED BY <1>5, <2>3, <4>1, Restamped
    <3> QED BY <2>1, <3>1 DEF Accessed
  <2>5. CASE pc'[h] = "idle"
    <3>1. Latest(h)'
        BY <2>5 DEF Latest, Later, Lists, ListsInOrder
    <3> QED BY <1>h, <1>t, <2>1, <2>2, <2>4, <2>5, <3>1 DEF Writing
  <2>6. CASE pc'[h] = "list" /\ TouchListed(h)
    <3> DEFINE listed == call[h].keys["artifacts"]
               at == call[h].row.accessed
    <3>1. PICK a \in listed :
               /\ \A b \in listed : a <= b
               /\ rows' = [t \in Tables |->
                      IF t = "artifacts" THEN Touch(rows[t], {a}, at) ELSE rows[t]]
               /\ call' = [call EXCEPT ![h] = [@ EXCEPT !.keys = [NoKeys EXCEPT !["artifacts"] = listed \ {a}]]]
        BY <2>6 DEF TouchListed, ReturnNow, Return, Goto, TypeOK
    <3>2. /\ pc[h] = "list"
          /\ call[h] \in Calls /\ "artifacts" \in Tables
        BY <1>t, <2>6 DEF TouchListed, Tables
    <3>3. listed \subseteq Nat
        BY <3>2, KeyAssumption DEF Calls
    <3>4. /\ call'[h].row = call[h].row
          /\ call'[h].keys = [NoKeys EXCEPT !["artifacts"] = listed \ {a}]
      <4> DEFINE left == [NoKeys EXCEPT !["artifacts"] = listed \ {a}]
                 c == [call[h] EXCEPT !.keys = left]
      <4> HIDE DEF left
      <4>1. c.row = call[h].row /\ c.keys = left
          BY <3>2 DEF Calls
      <4>2. call' = [call EXCEPT ![h] = c]
          BY <3>1 DEF left
      <4> HIDE DEF c
      <4>3. call'[h] = c
          BY <4>2 DEF TypeOK
      <4> QED BY <4>1, <4>3 DEF left
    <3>5. call'[h].keys["artifacts"] = listed \ {a} /\ \A t \in Tables \ {"artifacts"} : call'[h].keys[t] = {}
        BY <3>2, <3>4 DEF NoKeys
    <3>6. Lists(h)' /\ Later(h)'
        BY <2>6, <3>5 DEF Lists, Later
    <3>7. ASSUME turns PROVE ListsInOrder(h)'
      <4> DEFINE table == rows["artifacts"]
      <4>1. ListsInOrder(h)
          BY <3>7 DEF InOrder, Latest
      <4>2. /\ rows'["artifacts"] = Touch(table, {a}, at)
            /\ \A k \in DOMAIN table : table[k] \in Row
          BY <3>1, <3>2 DEF TypeOK
      <4>3. /\ DOMAIN rows'["artifacts"] = DOMAIN table
            /\ \A k \in DOMAIN table : k # a => rows'["artifacts"][k].accessed = table[k].accessed
            /\ a \in DOMAIN table => rows'["artifacts"][a].accessed = at
          BY <4>2 DEF Touch, Row
      <4>4. \A k \in DOMAIN table : table[k].accessed < at \/ (table[k].accessed = at /\ \A l \in listed : k < l)
          BY <3>2, <4>1 DEF ListsInOrder
      <4>5. \A l \in listed \ {a} : a < l
          BY <3>1, <3>3
      <4>6. \A k \in DOMAIN rows'["artifacts"] :
               \/ rows'["artifacts"][k].accessed < at
               \/ rows'["artifacts"][k].accessed = at /\ \A l \in listed \ {a} : k < l
          BY <4>3, <4>4, <4>5
      <4> QED BY <3>4, <3>5, <4>6 DEF ListsInOrder
    <3>8. turns => Latest(h)'
        BY <3>6, <3>7 DEF Latest
    <3>9. call'[h].row.accessed <= instant' /\ instant <= instant' /\ instant' \in Nat
        BY <1>t, <2>1, <2>3, <3>4
    <3> QED BY <1>h, <2>1, <2>2, <2>4, <3>8, <3>9
  <2> QED BY <2>1, <2>5, <2>6
<1> QED BY <1>1, <1>2, <1>3, <1>4, <1>5, Kinds

(***************************************************************************)
(* Each table implements LruTable.                                         *)
(***************************************************************************)
PendingOf(h, t) ==
    CASE pc[h] = "store" -> [op |-> "store", keys |-> call[h].keys[t]]
      [] pc[h] \in {"touch", "list"} -> [op |-> "use", keys |-> call[h].keys[t]]
      [] OTHER -> [op |-> "none", keys |-> {}]

LEMMA PendingIs ==
    ASSUME NEW t \in Tables, NEW h \in Handles
    PROVE  Pending(t)[h] = PendingOf(h, t) /\ Pending(t)'[h] = PendingOf(h, t)'
BY DEF Pending, PendingOf

\* What others do, and are told, stays.
LEMMA OthersPend ==
    ASSUME NEW t \in Tables, NEW h \in Handles, OthersStay(h)
    PROVE  \A d \in Handles \ {h} : Pending(t)'[d] = Pending(t)[d] /\ res'[d] = res[d]
<1> SUFFICES ASSUME NEW d \in Handles \ {h} PROVE Pending(t)'[d] = Pending(t)[d] /\ res'[d] = res[d]
    OBVIOUS
<1>1. pc'[d] = pc[d] /\ call'[d] = call[d] /\ res'[d] = res[d]
    BY DEF OthersStay
<1>2. PendingOf(d, t)' = PendingOf(d, t)
    BY <1>1 DEF PendingOf
<1> QED BY <1>1, <1>2, PendingIs

LEMMA SameTable ==
    ASSUME NEW t \in Tables, rows'[t] = rows[t]
    PROVE  UNCHANGED Table(t)!table
<1>1. Order(rows[t])' = Order(rows'[t])
    BY DEF Order, Newer
<1> QED BY <1>1 DEF Table!table

\* A table pruned after it became `table` is trimmed.
LEMMA PruneTrims ==
    ASSUME NEW t \in Tables, NEW table, TableOK(table, t), NEW limit \in Nat \ {0},
           rows'[t] = Prune(table, limit)
    PROVE  Table(t)!Trim(DOMAIN table, Order(table), limit)
<1> DEFINE kept == Kept(table, limit)
<1>1. Keyed(table) /\ IsFiniteSet(DOMAIN table)
    BY TablesKeyed
<1>2. /\ kept \subseteq DOMAIN table
      /\ Cardinality(kept) = IF Cardinality(DOMAIN table) <= limit THEN Cardinality(DOMAIN table) ELSE limit
      /\ \A k \in kept, l \in (DOMAIN table) \ kept : Newer(table, k, l)
    BY <1>1, KeptAreNewest
<1>3. (DOMAIN rows[t])' = kept /\ Order(rows[t])' = Order(table) \cap (kept \X kept)
  <2>1. (DOMAIN rows[t])' = DOMAIN rows'[t] /\ Order(rows[t])' = Order(rows'[t])
      BY DEF Order, Newer
  <2> QED BY <2>1, OrderPruned
<1>4. \A S : Table(t)!Cardinality(S) = Cardinality(S)
    BY DEF Table!Cardinality, Cardinality
<1>5. \A k \in kept, l \in (DOMAIN table) \ kept : <<k, l>> \in Order(table)
    BY <1>2 DEF Order
<1> HIDE DEF kept
<1> QED BY <1>2, <1>3, <1>4, <1>5 DEF Table!Trim

LEMMA FrontIsForemost ==
    ASSUME NEW t \in Tables, NEW used, NEW all
    PROVE  Table(t)!Foremost(used, all) = FrontOf(used, all, Order(rows[t]))
BY DEF Table!Foremost, FrontOf

LEMMA LruInits == Init => LruInit
<1> SUFFICES ASSUME Init, NEW t \in Tables PROVE Table(t)!Init
    BY DEF LruInit
<1>1. PICK d \in Contents, old \in {NoKeys, Keys} : rows = [u \in Tables |-> [k \in old[u] |-> OldRow(d)]]
    BY DEF Init
<1>2. TypeOK
    BY TypeInit
<1>3. DOMAIN rows[t] \subseteq Keys[t] /\ Keyed(rows[t])
    BY <1>2, TablesKeyed DEF TypeOK, TableOK
<1>4. Table(t)!Orders(Order(rows[t]), DOMAIN rows[t])
  <2> DEFINE D == DOMAIN rows[t]
             order == Order(rows[t])
  <2>1. \A j, k \in D : <<j, k>> \in order <=> Newer(rows[t], j, k)
      BY DEF Order
  <2>2. order \subseteq D \X D
      BY DEF Order
  <2>3. /\ \A j, k \in D : <<j, k>> \in order => <<k, j>> \notin order
        /\ \A j, k \in D : j = k \/ <<j, k>> \in order \/ <<k, j>> \in order
        /\ \A i, j, k \in D : <<i, j>> \in order /\ <<j, k>> \in order => <<i, k>> \in order
    <3>1. /\ \A j, k \in D : Newer(rows[t], j, k) => ~Newer(rows[t], k, j)
          /\ \A j, k \in D : j = k \/ Newer(rows[t], j, k) \/ Newer(rows[t], k, j)
          /\ \A i, j, k \in D : Newer(rows[t], i, j) /\ Newer(rows[t], j, k) => Newer(rows[t], i, k)
        BY <1>3, NewerOrders
    <3> HIDE DEF D, order
    <3> QED BY <2>1, <3>1
  <2> HIDE DEF D, order
  <2>4. Table(t)!Orders(order, D)
      BY <2>2, <2>3 DEF Table!Orders
  <2> QED BY <2>4 DEF D, order
<1>5. Pending(t) = [h \in Handles |-> [op |-> "none", keys |-> {}]] /\ res = [h \in Handles |-> "none"]
    BY DEF Init, Pending
<1> QED BY <1>3, <1>4, <1>5 DEF Table!Init, Table!Idle

LEMMA LruSteps == TypeOK /\ TypeOK' /\ InOrder /\ turns /\ [Next]_vars => LruStep
<1> SUFFICES ASSUME TypeOK, TypeOK', InOrder, turns, [Next]_vars, NEW t \in Tables
             PROVE  [Table(t)!Next]_(Table(t)!vars)
    BY DEF LruStep
<1> USE DEF Table!Idle
<1>t. /\ TableOK(rows[t], t) /\ Keyed(rows[t]) /\ Keys[t] \subseteq Nat
      /\ \A k \in DOMAIN rows[t] : rows[t][k] \in Row
      /\ \A h \in Handles : Limit[h][t] \in Nat \ {0} /\ [g \in Handles |-> Limit[g][t]][h] = Limit[h][t]
  <2>1. TableOK(rows[t], t) /\ Keys[t] \subseteq Nat
      BY KeyAssumption DEF TypeOK, TableOK
  <2> QED BY <2>1, TablesKeyed, LimitAssumption DEF TableOK
<1>c. \A h \in Handles : /\ call[h].keys[t] \subseteq Keys[t] /\ call'[h].keys[t] \subseteq Keys[t]
                         /\ call[h].row \in Row /\ call[h].row.accessed \in Nat
  <2>1. \A h \in Handles : call[h] \in Calls /\ call'[h] \in Calls
      BY DEF TypeOK
  <2>2. \A h \in Handles : call[h].row \in Row
      BY <2>1 DEF Calls
  <2> QED BY <2>1, <2>2 DEF Calls, Row
<1>o. ASSUME NEW h \in Handles, OthersStay(h),
             Table(t)!Announce(h) \/ Table(t)!Fail(h) \/ Table(t)!Put(h) \/ Table(t)!Use(h)
      PROVE  Table(t)!Next
    BY <1>o, OthersPend DEF Table!Next
<1>1. CASE UNCHANGED <<turns, pc, call, res, rows, instant>>
  <2>1. Pending(t)' = Pending(t)
      BY <1>1 DEF Pending
  <2> QED BY <1>1, <2>1, SameTable DEF Table!vars
<1>2. ASSUME NEW h \in Handles, Evicts(h) PROVE Table(t)!Next
  <2>1. Pending(t)' = Pending(t) /\ res' = res
      BY <1>2 DEF Evicts, Pending
  <2>2. rows'[t] = Prune(rows[t], Limit[h][t])
      BY <1>2 DEF Evicts, PruneAll
  <2>3. Table(t)!Trim(DOMAIN rows[t], Order(rows[t]), Limit[h][t])
    <3>1. PICK table : table = rows[t]
        OBVIOUS
    <3>2. Table(t)!Trim(DOMAIN table, Order(table), Limit[h][t])
        BY <1>t, <2>2, <3>1, PruneTrims
    <3> QED BY <3>1, <3>2 DEF Table!Trim
  <2>4. Table(t)!Evict(h)
      BY <1>t, <2>1, <2>3 DEF Table!Evict
  <2> QED BY <2>1, <2>4 DEF Table!Next
<1>3. ASSUME NEW h \in Handles, Prepares(h) PROVE Table(t)!Next
  <2>1. Pending(t)[h] = [op |-> "none", keys |-> {}] /\ Pending(t)'[h] = [op |-> "none", keys |-> {}]
      BY <1>3, PendingIs DEF Prepares, PendingOf, Writing
  <2>2. rows'[t] = rows[t] /\ OthersStay(h)
      BY <1>3 DEF Prepares
  <2>3. Table(t)!Announce(h)
      BY <2>1, <2>2, SameTable DEF Table!Announce
  <2> QED BY <1>o, <2>2, <2>3
<1>4. ASSUME NEW h \in Handles, Stamp(h) PROVE Table(t)!Next
  <2>1. Pending(t)[h] = [op |-> "none", keys |-> {}]
      BY <1>4, PendingIs DEF Stamp, PendingOf
  <2>2. Pending(t)'[h].keys \subseteq Keys[t]
    <3>1. Pending(t)'[h] = PendingOf(h, t)'
        BY PendingIs
    <3> QED BY <1>c, <3>1 DEF PendingOf
  <2>3. rows'[t] = rows[t] /\ OthersStay(h)
      BY <1>4 DEF Stamp, dbVars, Proceed, Goto, OthersStay, TypeOK
  <2>4. Table(t)!Announce(h)
      BY <2>1, <2>2, <2>3, SameTable DEF Table!Announce
  <2> QED BY <1>o, <2>3, <2>4
<1>5. ASSUME NEW h \in Handles, Store(h) PROVE Table(t)!Next
  <2>1. PICK old, keys, row, table : /\ old = rows[t] /\ keys = call[h].keys[t] /\ row = call[h].row
                                     /\ table = Upsert(old, keys, row)
      OBVIOUS
  <2>2. /\ rows'[t] = Prune(table, Limit[h][t])
        /\ pc[h] = "store" /\ pc'[h] = "idle" /\ res'[h] = "ok" /\ OthersStay(h)
    <3>1. pc'[h] = "idle" /\ res'[h] = "ok" /\ OthersStay(h)
        BY <1>5 DEF Store, ReturnNow, Return, Goto, OthersStay, TypeOK
    <3> QED BY <1>5, <2>1, <3>1 DEF Store
  <2>3. \A k \in DOMAIN old : old[k].accessed < row.accessed
      BY <2>1, <2>2 DEF InOrder, Latest, Later
  <2>4. /\ DOMAIN table = DOMAIN old \cup keys
        /\ Order(table) = FrontOf(keys, DOMAIN old \cup keys, Order(old))
      BY <1>t, <1>c, <2>1, <2>3, OrderUpserted
  <2>5. TableOK(table, t)
      BY <1>t, <1>c, <2>1, UpsertShape
  <2>6. Table(t)!Trim(DOMAIN table, Order(table), Limit[h][t])
      BY <1>t, <2>2, <2>5, PruneTrims
  <2>7. Pending(t)[h] = [op |-> "store", keys |-> keys] /\ Pending(t)'[h] = [op |-> "none", keys |-> {}]
      BY <2>1, <2>2, PendingIs DEF PendingOf
  <2>8. Table(t)!Trim(DOMAIN rows[t] \cup keys, Table(t)!Foremost(keys, DOMAIN rows[t] \cup keys), Limit[h][t])
    <3>1. PICK all, order : all = DOMAIN table /\ order = Order(table)
        OBVIOUS
    <3>2. Table(t)!Trim(all, order, Limit[h][t])
        BY <2>6, <3>1
    <3>3. all = DOMAIN rows[t] \cup keys /\ order = Table(t)!Foremost(keys, DOMAIN rows[t] \cup keys)
        BY <2>1, <2>4, <3>1, FrontIsForemost
    <3> QED BY <3>2, <3>3 DEF Table!Trim
  <2>9. Table(t)!Put(h)
      BY <1>t, <2>2, <2>7, <2>8 DEF Table!Put
  <2> QED BY <1>o, <2>2, <2>9
\* A use puts rows before the others, in all tables or, of a list, in one.
<1>u. ASSUME NEW h \in Handles, pc[h] \in {"touch", "list"},
             NEW used \in SUBSET call[h].keys[t],
             rows'[t] = Touch(rows[t], used, call[h].row.accessed) \/ (used = {} /\ rows'[t] = rows[t]),
             Pending(t)'[h].keys = call[h].keys[t] \ used,
             Pending(t)'[h].op = "use"
                \/ (Pending(t)'[h] = [op |-> "none", keys |-> {}] /\ res'[h] \in {"hit", "ok"})
      PROVE  Table(t)!Use(h)
  <2>1. PICK old, at : old = rows[t] /\ at = call[h].row.accessed
      OBVIOUS
  <2>2. used \in SUBSET Nat /\ at \in Nat /\ Keyed(old) /\ \A k \in DOMAIN old : old[k] \in Row
      BY <1>t, <1>c, <2>1
  <2>3. used # {} =>
          \A k \in (DOMAIN old) \ used : old[k].accessed < at \/ (old[k].accessed = at /\ \A l \in used : k < l)
    <3>1. Latest(h)
        BY DEF InOrder
    <3>2. CASE pc[h] = "touch"
        BY <2>1, <3>1, <3>2 DEF Latest, Later
    <3>3. CASE pc[h] = "list" /\ used # {}
      <4>1. t = "artifacts"
          BY <3>1, <3>3 DEF Latest, Lists
      <4> QED BY <2>1, <3>1, <3>3, <4>1 DEF Latest, ListsInOrder
    <3> QED BY <1>u, <3>2, <3>3
  <2>4. PICK new : new = rows'[t]
      OBVIOUS
  <2>5. DOMAIN new = DOMAIN old /\ Order(new) = FrontOf(used \cap DOMAIN old, DOMAIN old, Order(old))
    <3>1. CASE used # {}
      <4>1. new = Touch(old, used, at)
          BY <1>u, <2>1, <2>4, <3>1
      <4> QED BY <2>2, <2>3, <3>1, <4>1, OrderTouched
    <3>2. CASE used = {}
      <4>1. DOMAIN new = DOMAIN old /\ \A k \in DOMAIN old : new[k] = old[k]
          BY <1>u, <2>1, <2>4, <3>2 DEF Touch
      <4>2. Order(new) = Order(old)
          BY <4>1 DEF Order, Newer
      <4>3. Order(old) = FrontOf({}, DOMAIN old, Order(old))
          BY DEF Order, FrontOf
      <4> QED BY <3>2, <4>1, <4>2, <4>3
    <3> QED BY <3>1, <3>2
  <2>6. (DOMAIN rows[t])' = DOMAIN rows'[t] /\ Order(rows[t])' = Order(rows'[t])
      BY DEF Order, Newer
  <2>7. /\ (DOMAIN rows[t])' = DOMAIN rows[t]
        /\ Order(rows[t])' = Table(t)!Foremost(used \cap DOMAIN rows[t], DOMAIN rows[t])
    <3>1. Order(rows[t])' = FrontOf(used \cap DOMAIN rows[t], DOMAIN rows[t], Order(rows[t]))
        BY <2>1, <2>4, <2>5, <2>6
    <3> QED BY <2>1, <2>4, <2>5, <2>6, <3>1, FrontIsForemost
  <2>8. Pending(t)[h] = [op |-> "use", keys |-> call[h].keys[t]]
      BY <1>u, PendingIs DEF PendingOf
  <2>9. Pending(t)[h].op = "use" /\ used \in SUBSET Pending(t)[h].keys
      BY <2>8
  <2>10. Pending(t)'[h].keys = Pending(t)[h].keys \ used
      BY <1>u, <2>8
  <2> QED BY <1>u, <2>7, <2>9, <2>10 DEF Table!Use
<1>6. ASSUME NEW h \in Handles, TouchRows(h) PROVE Table(t)!Next
  <2>1. /\ rows'[t] = Touch(rows[t], call[h].keys[t], call[h].row.accessed)
        /\ pc[h] = "touch" /\ pc'[h] = "idle" /\ res'[h] = "hit" /\ OthersStay(h)
    <3>1. pc'[h] = "idle" /\ res'[h] = "hit" /\ OthersStay(h)
        BY <1>6 DEF TouchRows, ReturnNow, Return, Goto, OthersStay, TypeOK
    <3> QED BY <1>6, <3>1 DEF TouchRows
  <2>2. Pending(t)'[h] = [op |-> "none", keys |-> {}]
      BY <2>1, PendingIs DEF PendingOf
  <2>3. Table(t)!Use(h)
    <3>1. Pending(t)'[h].keys = call[h].keys[t] \ call[h].keys[t]
        BY <2>2
    <3> QED BY <1>u, <2>1, <2>2, <3>1
  <2> QED BY <1>o, <2>1, <2>3
<1>7. ASSUME NEW h \in Handles, TouchListed(h) PROVE Table(t)!Next
  <2>1. pc[h] = "list" /\ OthersStay(h)
      BY <1>7, WritesType DEF Writes, TouchListed
  <2>2. \A u \in Tables \ {"artifacts"} : call[h].keys[u] = {}
      BY <2>1 DEF InOrder, Latest, Lists
  <2>3. CASE call[h].keys["artifacts"] = {} /\ ReturnNow(h, "ok") /\ UNCHANGED rows
    <3>1. pc'[h] = "idle" /\ res'[h] = "ok"
        BY <2>3 DEF ReturnNow, Return, Goto, TypeOK
    <3>2. Pending(t)'[h] = [op |-> "none", keys |-> {}]
        BY <3>1, PendingIs DEF PendingOf
    <3>3. call[h].keys[t] = {}
        BY <2>2, <2>3
    <3>4. Table(t)!Use(h)
        BY <1>u, <2>1, <2>3, <3>1, <3>2, <3>3
    <3> QED BY <1>o, <2>1, <3>4
  <2>4. ASSUME NEW a \in call[h].keys["artifacts"],
               rows' = [u \in Tables |->
                   IF u = "artifacts" THEN Touch(rows[u], {a}, call[h].row.accessed) ELSE rows[u]],
               call' = [call EXCEPT ![h] =
                   [@ EXCEPT !.keys = [NoKeys EXCEPT !["artifacts"] = call[h].keys["artifacts"] \ {a}]]],
               UNCHANGED <<pc, res>>
        PROVE  Table(t)!Next
    <3> DEFINE used == IF t = "artifacts" THEN {a} ELSE {}
               left == [NoKeys EXCEPT !["artifacts"] = call[h].keys["artifacts"] \ {a}]
               c == [call[h] EXCEPT !.keys = left]
    <3>1. used \in SUBSET call[h].keys[t]
        OBVIOUS
    <3>2. rows'[t] = Touch(rows[t], used, call[h].row.accessed) \/ (used = {} /\ rows'[t] = rows[t])
        BY <2>4
    <3>3. left[t] = call[h].keys[t] \ used
        BY <2>2 DEF NoKeys, Tables
    <3> HIDE DEF left, used
    <3>4. c.keys = left
      <4>1. call[h] \in Calls
          BY DEF TypeOK
      <4> QED BY <4>1 DEF Calls
    <3>5. call'[h] = c
        BY <2>4 DEF TypeOK, left
    <3> HIDE DEF c
    <3>6. Pending(t)'[h] = [op |-> "use", keys |-> call[h].keys[t] \ used]
        BY <2>1, <2>4, <3>3, <3>4, <3>5, PendingIs DEF PendingOf
    <3>7. Table(t)!Use(h)
        BY <1>u, <2>1, <3>1, <3>2, <3>6
    <3> QED BY <1>o, <2>1, <3>7
  <2> QED BY <1>7, <2>3, <2>4 DEF TouchListed
<1>8. ASSUME NEW h \in Handles, Abort(h) PROVE Table(t)!Next
  <2>1. /\ pc[h] \in {"store", "touch", "list"} /\ pc'[h] = "idle" /\ res'[h] = "error"
        /\ rows'[t] = rows[t] /\ OthersStay(h)
      BY <1>8 DEF Abort, ReturnNow, Return, Goto, OthersStay, TypeOK, dbVars
  <2>2. Pending(t)[h].op # "none"
    <3>1. Pending(t)[h] = PendingOf(h, t)
        BY PendingIs
    <3>2. PendingOf(h, t).op \in {"store", "use"}
        BY <2>1 DEF PendingOf
    <3> QED BY <3>1, <3>2
  <2>3. Pending(t)'[h] = [op |-> "none", keys |-> {}]
      BY <2>1, PendingIs DEF PendingOf
  <2>4. Table(t)!Fail(h)
      BY <2>1, <2>2, <2>3, SameTable DEF Table!Fail
  <2> QED BY <1>o, <2>1, <2>4
<1> QED BY <1>1, <1>2, <1>3, <1>4, <1>5, <1>6, <1>7, <1>8, Kinds DEF Writes

\* Whatever the keys, limits and handles: when calls take turns, every table
\* keeps the rows used last, whichever calls used them.
THEOREM LruCorrect == Spec => TablesAreLru
<1>1. Spec => []InOrder
    BY InOrderInit, InOrderStep, TypeCorrect, PTL DEF Spec
<1>2. TypeOK /\ TypeOK' /\ InOrder /\ [Next]_vars => [turns => LruStep]_vars
    BY LruSteps
<1> QED BY <1>1, <1>2, LruInits, TypeCorrect, PTL DEF Spec, TablesAreLru
====
