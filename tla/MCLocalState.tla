---- MODULE MCLocalState ----
(***************************************************************************)
(* What a process finds on its disk: the sources that it discovers, or in  *)
(* the scenario "opening" the cache, which others may open at once         *)
(* (CacheMigration).  The directory a holds s and the file y; s holds x;   *)
(* the file z is elsewhere.                                                *)
(***************************************************************************)
EXTENDS LocalDiscovery, CacheMigration, TLC

CONSTANTS a, s, x, y, z, k1, k2, p1, p2, p3, u1, u2
VARIABLE scenario

MCEntries == a :> <<s, y>> @@ s :> <<x>>
MCOrder == <<a, s, x, z>>
MCDetected ==
    [f \in Files |-> "one" :> {k1} @@ "other" :> {k2} @@ "both" :> {k1, k2} @@ "plain" :> {}]
MCStructured == [f \in Files |-> IF f = y THEN {"plain"} ELSE {}]
MCValid == "one" :> {k1} @@ "other" :> {k1, k2} @@ "both" :> {k1, k2} @@ "plain" :> {k2}
MCRank == x :> (k1 :> 1 @@ k2 :> 4) @@ y :> (k1 :> 3 @@ k2 :> 6) @@ z :> (k1 :> 2 @@ k2 :> 5)

File(type, large, content) == [type |-> type, large |-> large, content |-> content]
MCDocuments ==
    {File("regular", FALSE, c) : c \in Contents} \cup {File("regular", TRUE, "one")}
    \cup {File(type, FALSE, "one") : type \in {"symlink", "special", "gone"}}

MCInit ==
    /\ Init /\ MigrationInit
    /\ \/ scenario = "discovery" /\ turns /\ schema = Current /\ rows = <<>> /\ meta = 0
       \/ /\ scenario = "opening"
          /\ given = <<z>> /\ disk = [f \in Files |-> File("special", FALSE, "one")] /\ \A f \in Files : explicit[f] = None
MCNext ==
    /\ \/ scenario = "discovery" /\ Next /\ UNCHANGED cacheVars
       \/ scenario = "opening" /\ MigrationNext /\ UNCHANGED vars
    /\ UNCHANGED scenario
MCSpec == MCInit /\ [][MCNext]_<<vars, cacheVars, scenario>>
====
