---- MODULE PublishedOperations ----
(***************************************************************************)
(* Inventories of operations on things, and what is asked of them.         *)
(***************************************************************************)
EXTENDS OperationChoice

Segment(name) == [name |-> name, param |-> FALSE]
Parameter == [name |-> "id", param |-> TRUE]
Things == <<Segment("things")>>
Thing == Append(Things, Parameter)
Op(id, method, path, named) ==
    [id |-> id, source |-> "doc", method |-> method, path |-> path, fragment |-> <<>>, upload |-> FALSE,
     named |-> named, said |-> {}, aws |-> <<>>, prefix |-> "", action |-> <<>>]

Create == Op("createThing", "POST", Things, {"create", "thing"})
Insert == [Op("insertThing", "POST", <<Segment("upload")>> \o Things, {"insert", "thing"}) EXCEPT !.upload = TRUE]
Pool ==
    <<Create,
     Op("getThing", "GET", Thing, {"get", "thing"}),
     Op("showThing", "GET", Thing, {"show", "thing"}),
     [Op("headThing", "HEAD", Thing, {"head", "thing"}) EXCEPT !.said = {"list"}],
     Op("putThing", "PUT", Thing, {"createorupdate", "thing"}),
     Op("patchThing", "PATCH", Thing, {"patch", "thing"}),
     Op("deleteThing", "DELETE", Thing, {"delete", "thing"}),
     [Op("dropThing", "DELETE", Thing, {"remove", "collection"}) EXCEPT !.source = "other"],
     Op("getOther", "GET", <<Segment("others"), Parameter>>, {"get", "other"}),
     Op("things", "GET", NoPath, {"v1", "things"})>>
Action(verb, method, fragment) ==
    [Op(verb, method, Things, {verb, "thing"}) EXCEPT
        !.prefix = method, !.action = <<verb, "thing">>, !.fragment = fragment]
Actions ==
    <<Action("describe", "GET", <<>>), Action("describe", "POST", <<>>), Action("describe", "POST", <<"describe", "thing">>),
     [Create EXCEPT !.aws = <<"run", "thing">>], Create, Op("getThing", "GET", Things, {"get", "thing"})>>

\* The inventories of up to three operations, in one order: the others are
\* compared with it.
Lists(pool) ==
    {[i \in 1..Cardinality(chosen) |-> pool[SetToSortSeq(chosen, <)[i]]] :
        chosen \in {c \in SUBSET DOMAIN pool : Cardinality(c) \in 1..3}}

Hints ==
    {h \in [aws : BOOLEAN, action : {<<>>, <<"describe", "thing">>, <<"run", "thing">>}, purpose : {"", "read", "create"},
            target : {{}, {"things"}, {"get", "thing"}}, method : {"", "POST"}, path : {<<>>, Things}] :
        h.action # <<>> => h.aws}

\* Operations for the index; in its questions "goal" says that the inventory
\* has an error.
Identified == {[Create EXCEPT !.id = id, !.method = m] : id \in {"", "a", "b"}, m \in {"POST", "PUT"}}

Services ==
    {[asked |-> "expand", operations |-> l, seed |-> s, goal |-> g, desired |-> d, hints |-> <<>>] :
        l \in Lists(Pool), s \in {Create, Insert, [Create EXCEPT !.id = ""], Op("putThing", "PUT", Thing, {"createorupdate", "thing"}),
                                      Op("getThing", "GET", Thing, {"get", "thing"})}, g, d \in BOOLEAN}
    \cup {[asked |-> "select", operations |-> l, seed |-> <<>>, goal |-> FALSE, desired |-> FALSE, hints |-> h] :
            l \in Lists(Actions), h \in Hints}
    \cup {[asked |-> "index", operations |-> l, seed |-> <<>>, goal |-> e, desired |-> FALSE, hints |-> <<>>] :
            l \in UNION {[1..n -> Identified] : n \in 1..3}, e \in BOOLEAN}
Answer(service, operations) ==
    CASE service.asked = "expand" -> Expand(operations, service.seed, service.goal, service.desired)
      [] service.asked = "select" -> SelectByHints(service.hints, operations)
      [] service.asked = "index" -> [index |-> Index(operations, service.goal)]
Read(service) == Answer(service, service.operations)

(***************************************************************************)
(* The answer is the same for every order of the inventory.  A role that   *)
(* has a sibling has the one that is better than all others by its score,  *)
(* and one that has not, though some would do, is diagnosed.               *)
(***************************************************************************)
Orders(list) == {[i \in DOMAIN list |-> list[p[i]]] : p \in Permutations(DOMAIN list)}
Scores(service, seed, role) ==
    LET of(op) == IF SameOperation(op, seed) \/ ~SameSource(op, seed) THEN 0 ELSE SiblingScore(op, seed, role)
        eligible == {op \in ToSet(service.operations) : of(op) >= MinimumSiblingScore}
    IN {op \in eligible : \A other \in eligible : of(other) <= of(op)}
ClearRoles(service, model) ==
    LET seed == model.roles[1].operation
        taken(role) == {model.roles[i].operation : i \in {j \in DOMAIN model.roles \ {1} : model.roles[j].role = role}}
    IN \A role \in {"read", "update", "delete"} :
           LET best == Scores(service, seed, role) IN
           IF role = "update" /\ ~service.goal THEN taken(role) = {}
           ELSE /\ Cardinality(best) > 1 <=> role \in ToSet(model.diagnostics)
                /\ taken(role) = IF Cardinality(best) = 1 /\ role # model.roles[1].role /\ model.roles[1].role # "read"
                                 THEN best ELSE {}
\* An index leads from each ID to the one operation that has it; it is refused
\* when an ID has two, when there is none, and for an inventory with an error.
IndexIsTrue(service, index) ==
    LET with(id) == SelectSeq(service.operations, LAMBDA op : op.id = id)
        ids == {op.id : op \in ToSet(service.operations)} \ {""}
    IN IF service.goal \/ ids = {} \/ \E id \in ids : Len(with(id)) > 1 THEN DOMAIN index = {}
       ELSE DOMAIN index = ids /\ \A id \in ids : with(id) = <<index[id]>>
IsClear(service, model) ==
    /\ \A order \in Orders(service.operations) : Answer(service, order) = model
    /\ service.asked = "expand" /\ model.roles # <<>> => ClearRoles(service, model)
    /\ service.asked = "index" => IndexIsTrue(service, model.index)
    /\ service.asked = "select" /\ model.found => model.operation \in ToSet(service.operations) /\ ~model.ambiguous
====
