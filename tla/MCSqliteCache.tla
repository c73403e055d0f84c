---- MODULE MCSqliteCache ----
(***************************************************************************)
(* Instances of SqliteCache.  Concurrently, two handles with different     *)
(* byte budgets and one row for each table interleave; in turns, two with  *)
(* different limits use all tables at one instant.                         *)
(***************************************************************************)
EXTENDS SqliteCache
CONSTANTS h1, h2, h3

MCSize == [c \in Contents |-> IF c = "big" THEN 2 ELSE 1]
MCBudget == [h \in Handles |-> IF h = h1 THEN 1 ELSE 2]

Rows(q, r, s, a) == [queries |-> q, results |-> r, specs |-> s, artifacts |-> a]
MCLimit == [h \in Handles |-> IF h = h3 THEN Rows(2, 2, 2, 2) ELSE Rows(1, 1, 1, 1)]

FewKeys == Rows({1, 2}, {}, {1}, {})

MCInit ==
    /\ Init
    /\ ~turns => \A t \in Tables : DOMAIN rows[t] \subseteq FewKeys[t]
    /\ turns => file = "a" /\ \A h \in Handles : call[h].row.data = "a"

Concurrent ==
    /\ \E h \in {h1, h2} : Step(h)
    /\ \A h \in Handles, t \in Tables : call'[h].keys[t] \subseteq FewKeys[t]
InTurns ==
    /\ \E h \in {h1, h3} : Step(h)
    /\ \A h \in Handles : call'[h].row.data = "a"
MCNext ==
    \/ ~turns /\ (Concurrent \/ Tick \/ Rewrite)
    \/ turns /\ InTurns

MCSpec == MCInit /\ [][MCNext]_vars
====
