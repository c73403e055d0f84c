---- MODULE OperationChoice ----
(***************************************************************************)
(* operationlifecycle/operationlifecycle.go, operation_selection.go,       *)
(* dialect_aws.go and operation_index.go: which operations of an inventory *)
(* go together, and which one is meant.                                    *)
(*                                                                         *)
(* An operation is [id, source, method, path, fragment, upload, named,     *)
(* said, aws, prefix, action].  Its path is a sequence of segments [name,  *)
(* param]; named and said are the words of its ID and of its summary and   *)
(* tags; an ID like GET_DescribeThings has a prefix and an action, which   *)
(* is <<verb, noun>>; aws is the action that an extension names, and       *)
(* fragment the one after the # of a path.  What is missing is "" or <<>>. *)
(***************************************************************************)
EXTENDS Integers, Sequences, FiniteSets, SequencesExt, TLC

CONSTANT Singular       \* of each word that ends in s

Without == [name |-> "", param |-> FALSE]
NoPath == <<Without>>

(***************************************************************************)
(* Words and families.                                                     *)
(***************************************************************************)
LifecycleWords ==
    {"create", "insert", "post", "put", "get", "read", "show", "describe", "list", "update", "patch", "replace",
     "delete", "remove", "createorupdate"}
OperationTokens(op) ==
    op.named \cup op.said \cup (IF "createorupdate" \in op.named THEN {"create", "update"} ELSE {})
HasAny(op, words) == OperationTokens(op) \cap words # {}
FamilyTokens(op) == OperationTokens(op) \ (LifecycleWords \cup {"v1", "v2", "v3", "api"})
Lesser(i, j) == IF i < j THEN i ELSE j
SameFamily(a, b) ==
    /\ FamilyTokens(a) # {} /\ FamilyTokens(b) # {}
    /\ Cardinality(FamilyTokens(a) \cap FamilyTokens(b)) >=
           Lesser(2, Lesser(Cardinality(FamilyTokens(a)), Cardinality(FamilyTokens(b))))

SameSource(a, b) == a.source # "" /\ a.source = b.source
SameOperation(a, b) == a.id # "" /\ a.id = b.id /\ a.source = b.source

(***************************************************************************)
(* Paths: an operation on an item has a parameter in its path, and the     *)
(* path without its parameters is that of the collection.                  *)
(***************************************************************************)
NormalPath(op) == IF op.upload /\ op.path # <<>> /\ Head(op.path).name = "upload" THEN Tail(op.path) ELSE op.path
CollectionPath(path) == SelectSeq(path, LAMBDA s : ~s.param)
HasPathParameter(path) == \E i \in DOMAIN path : path[i].param
LifecyclePathsMatch(seed, op) ==
    /\ seed.path # NoPath /\ op.path # NoPath
    /\ CollectionPath(NormalPath(seed)) = CollectionPath(NormalPath(op))
    /\ HasPathParameter(NormalPath(op))

(***************************************************************************)
(* The sibling for a role.                                                 *)
(***************************************************************************)
MinimumSiblingScore == 60
VerbsOf == [read |-> {"GET", "HEAD"}, update |-> {"PUT", "PATCH"}, delete |-> {"DELETE"}]
NamesOf == [read |-> {"get", "read", "show", "describe"},
            update |-> {"update", "patch", "replace", "createorupdate", "put"}, delete |-> {"delete", "remove"}]
Points(condition, n) == IF condition THEN n ELSE 0
SiblingScore(op, seed, role) ==
    IF \/ ~LifecyclePathsMatch(seed, op)
       \/ role = "read" /\ HasAny(op, {"list"})
       \/ role \in {"update", "delete"} /\ HasAny(op, {"collection"})
    THEN 0
    ELSE Points(op.method \in VerbsOf[role], 45) + Points(HasAny(op, NamesOf[role]), 35)
         + Points(role = "update" /\ op.method = "PATCH", 8) + Points(role = "update" /\ HasAny(op, {"patch"}), 6)
         + Points(SameFamily(seed, op), 30) + 25

None == [found |-> FALSE, ambiguous |-> FALSE]
Ambiguous == [found |-> FALSE, ambiguous |-> TRUE]
Found(op, score) == [found |-> TRUE, ambiguous |-> FALSE, operation |-> op, score |-> score]

Matches(operations, seed, role) ==
    LET siblings == SelectSeq(operations, LAMBDA op : ~SameOperation(op, seed) /\ SameSource(op, seed))
        scored == [i \in DOMAIN siblings |-> Found(siblings[i], SiblingScore(siblings[i], seed, role))]
    IN SortSeq(SelectSeq(scored, LAMBDA m : m.score >= MinimumSiblingScore), LAMBDA m, n : m.score > n.score)
\* A variant with a bug: the first of the best is taken.
BestSiblingFirst(operations, seed, role) ==
    LET matches == Matches(operations, seed, role) IN IF matches = <<>> THEN None ELSE matches[1]
\* The order by IDs among equal scores decides nothing: two that are best
\* make the role ambiguous.
BestSibling(operations, seed, role) ==
    LET matches == Matches(operations, seed, role)
    IN IF matches = <<>> THEN None
       ELSE IF Len(matches) > 1 /\ matches[1].score = matches[2].score THEN Ambiguous
       ELSE matches[1]

(***************************************************************************)
(* Expand: the seed in its role, with its siblings, unless it only reads.  *)
(***************************************************************************)
MethodRole(op) ==
    CASE op.method \in {"GET", "HEAD"} -> "read" [] op.method = "DELETE" -> "delete" [] op.method = "PUT" -> "put"
      [] op.method = "PATCH" -> "patch" [] OTHER -> "post"
PrimaryRole(seed, desired, expanded) ==
    IF ~(desired /\ expanded) THEN MethodRole(seed)
    ELSE CASE seed.method = "POST" -> "create"
           [] seed.method = "PUT" -> IF HasAny(seed, {"create", "createorupdate", "insert"}) THEN "create" ELSE "update"
           [] seed.method = "PATCH" -> "update"
           [] OTHER -> MethodRole(seed)
Confidence(score) == IF score >= 90 THEN "high" ELSE IF score >= 70 THEN "medium" ELSE "low"

NormalizeSeed(operations, seed) ==
    LET same == SelectSeq(operations, LAMBDA op : SameOperation(op, seed)) IN IF same = <<>> THEN seed ELSE Head(same)
RoleOrder(goal) == SelectSeq(<<"read", "update", "delete">>, LAMBDA r : r = "update" => goal)
Expand(operations, given, goal, desired) ==
    LET seed == NormalizeSeed(operations, given)
        best(r) == BestSibling(operations, seed, r)
        primary == PrimaryRole(seed, desired, \E r \in ToSet(RoleOrder(goal)) : best(r).found)
        others == SelectSeq(RoleOrder(goal), LAMBDA r : primary # "read" /\ r # primary /\ best(r).found)
        unclear == SelectSeq(RoleOrder(goal), LAMBDA r : best(r).ambiguous)
        sibling(r) == [role |-> r, operation |-> best(r).operation, confidence |-> Confidence(best(r).score)]
    IN IF seed.id = "" THEN [roles |-> <<>>, diagnostics |-> <<"seed_missing">>]
       ELSE [diagnostics |-> unclear,
             roles |-> <<[role |-> primary, operation |-> seed, confidence |-> "high"]>>
                       \o [i \in DOMAIN others |-> sibling(others[i])]]

(***************************************************************************)
(* The operation whose ID and path overlap a text the most.                *)
(***************************************************************************)
Both(words) == words \cup {Singular[w] : w \in words \cap DOMAIN Singular}
TokenSet(op) == Both((op.named \cup {op.path[i].name : i \in DOMAIN op.path}) \ {""})
Overlap(left, right) ==
    Cardinality(left \cap right) + Cardinality({w \in left \cap DOMAIN Singular : Singular[w] \in right})
SelectByText(target, candidates) ==
    LET score(op) == Overlap(Both(target), TokenSet(op))
        look(s, op) ==
            CASE score(op) > s.score -> [score |-> score(op), best |-> <<op>>, ambiguous |-> FALSE]
              [] score(op) = s.score -> [s EXCEPT !.ambiguous = TRUE]
              [] OTHER -> s
        end == FoldLeft(look, [score |-> -1, best |-> <<>>, ambiguous |-> FALSE], candidates)
    IN CASE end.score <= 0 -> None
         [] end.score > 0 /\ end.ambiguous -> Ambiguous
         [] OTHER -> Found(end.best[1], end.score)

(***************************************************************************)
(* Purposes: by the verb of an AWS action, or else by the method.          *)
(***************************************************************************)
Methods == {"GET", "PUT", "POST", "DELETE", "OPTIONS", "HEAD", "PATCH", "TRACE"}
AWSOperationName(op) == IF op.aws # <<>> THEN op.aws ELSE IF op.prefix \in Methods THEN op.action ELSE <<>>
AWSMatchesAction(op, action) == action # <<>> /\ (AWSOperationName(op) = action \/ op.action = action)
VerbPurpose(verb) ==
    CASE verb \in {"describe", "get", "lookup"} -> "read"
      [] verb \in {"list", "search"} -> "list"
      [] verb \in {"create", "run", "allocate", "request", "purchase", "register"} -> "create"
      [] verb \in {"delete", "terminate", "release", "deregister"} -> "delete"
      [] verb \in {"update", "modify", "put", "attach", "detach", "associate", "disassociate", "start", "stop",
                   "reboot", "enable", "disable"} -> "update"
      [] OTHER -> ""
MethodPurpose(method) ==
    CASE method = "POST" -> "create" [] method = "GET" -> "read" [] method \in {"PATCH", "PUT"} -> "update"
      [] method = "DELETE" -> "delete" [] OTHER -> ""
IsAWS(hints, op) == hints.aws \/ op.aws # <<>>
AWSPurpose(op, hints) ==
    LET action == IF AWSOperationName(op) # <<>> THEN AWSOperationName(op) ELSE hints.action
    IN IF AWSMatchesAction(op, action) THEN VerbPurpose(action[1]) ELSE ""
Purpose(op, hints) ==
    IF IsAWS(hints, op) /\ AWSPurpose(op, hints) # "" THEN AWSPurpose(op, hints) ELSE MethodPurpose(op.method)

(***************************************************************************)
(* Hints [aws, action, purpose, target, method, path]; an AWS action is    *)
(* tried first, and if nothing has it the other hints decide.              *)
(***************************************************************************)
Fits(op, hints) ==
    /\ hints.method # "" => op.method = hints.method
    /\ hints.purpose # "" => Purpose(op, hints) = hints.purpose
AWSPathMatches(op, hints) ==
    hints.path = <<>> \/ (op.path = hints.path /\ op.fragment \in {<<>>, hints.action})
PreferredAWSMethod(purpose) ==
    CASE purpose \in {"read", "list"} -> "GET"
      [] purpose \in {"create", "update", "delete", "replace", "import"} -> "POST" [] OTHER -> ""
SelectAWS(hints, candidates) ==
    LET matches == SelectSeq(candidates, LAMBDA op :
            AWSPathMatches(op, hints) /\ Fits(op, hints) /\ AWSMatchesAction(op, hints.action))
        preferred == IF hints.method # "" THEN <<>>
                     ELSE SelectSeq(matches, LAMBDA op : op.method = PreferredAWSMethod(hints.purpose))
        left == IF preferred # <<>> THEN preferred ELSE matches
    IN CASE hints.action = <<>> \/ matches = <<>> -> None
         [] hints.action # <<>> /\ Len(left) = 1 -> Found(left[1], 100)
         [] OTHER -> Ambiguous
FilterByHints(hints, candidates) ==
    SelectSeq(candidates, LAMBDA op :
        Fits(op, hints) /\ (hints.path # <<>> => op.path = hints.path /\ op.fragment = <<>>))
SelectByHints(hints, candidates) ==
    LET aws == IF hints.aws THEN SelectAWS(hints, candidates) ELSE None
        filtered == FilterByHints(hints, candidates)
    IN CASE aws # None -> aws
         [] aws = None /\ filtered = <<>> -> None
         [] aws = None /\ filtered # <<>> /\ hints.target # {} -> SelectByText(hints.target, filtered)
         [] aws = None /\ hints.target = {} /\ Len(filtered) = 1 -> Found(filtered[1], 1)
         [] OTHER -> Ambiguous

(***************************************************************************)
(* NewOperationIndex: every ID once, and one at least.                     *)
(***************************************************************************)
Index(operations, hasErrors) ==
    LET identified == SelectSeq(operations, LAMBDA op : op.id # "")
        twice == \E i, j \in DOMAIN identified : i # j /\ identified[i].id = identified[j].id
    IN IF hasErrors \/ twice \/ identified = <<>> THEN <<>>
       ELSE [id \in {identified[i].id : i \in DOMAIN identified} |->
               identified[CHOOSE i \in DOMAIN identified : identified[i].id = id]]
====
