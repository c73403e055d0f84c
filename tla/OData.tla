---- MODULE OData ----
(***************************************************************************)
(* odata: CSDL metadata as XML or JSON, reduced to the operations of its   *)
(* containers, actions, functions and navigation properties (parse.go,     *)
(* selectors.go).                                                          *)
(*                                                                         *)
(* A dotted name is the tuple of its parts.  A type is <<name>>, or        *)
(* <<"Collection", name>>, or <<>> where there is none.  A schema          *)
(* [namespace, entityTypes, complexTypes, actions, functions, container]   *)
(* has types [name, full, base, properties, navigation], operations [name, *)
(* full, kind, bound, parameters, returns] and at most one container       *)
(* [name, sets, singletons, actionImports, functionImports].               *)
(***************************************************************************)
EXTENDS Integers, Sorting, SequencesExt

CONSTANTS MaxNestingDepth, MaxWorkItems

Failure == [failed |-> TRUE, schemas |-> <<>>]
NormalizeTypeName(type) == IF type = <<>> THEN "" ELSE Last(type)
IsCollectionType(type) == Len(type) = 2

NewSchema(namespace) ==
    [namespace |-> namespace, entityTypes |-> <<>>, complexTypes |-> <<>>, actions |-> <<>>,
     functions |-> <<>>, container |-> <<>>]
NewType(namespace, name, base) ==
    [name |-> name, full |-> <<namespace, name>>, base |-> NormalizeTypeName(base),
     properties |-> <<>>, navigation |-> <<>>]
NewContainer(name) ==
    [name |-> name, sets |-> <<>>, singletons |-> <<>>, actionImports |-> <<>>, functionImports |-> <<>>]
NewOperation(namespace, kind, name, bound) ==
    [name |-> name, full |-> <<namespace, name>>, kind |-> kind, bound |-> bound,
     parameters |-> <<>>, returns |-> ""]
Typed(name, type, nullable) ==
    [name |-> name, type |-> NormalizeTypeName(type), collection |-> IsCollectionType(type), nullable |-> nullable]
Import(kind, name, operation, set) == [name |-> name, kind |-> kind, operation |-> operation, set |-> set]

(***************************************************************************)
(* XML: a token opens or closes an element, or is a text.  The parser      *)
(* keeps where it is: the schema, the type, the operation and the          *)
(* container that were opened last, until an end tag of their kind.        *)
(***************************************************************************)
Nowhere == [schema |-> 0, list |-> "", index |-> 0]

Attr(token, name) == IF name \in DOMAIN token.attrs THEN token.attrs[name] ELSE ""
TypeAttr(token, name) == IF name \in DOMAIN token.attrs THEN token.attrs[name] ELSE <<>>
FlagAttr(token, name) == name \in DOMAIN token.attrs /\ token.attrs[name] = "true"
NullableXML(token) == Attr(token, "Nullable") # "false"

TypeLists == [EntityType |-> "entityTypes", ComplexType |-> "complexTypes"]
OperationLists == [Action |-> "actions", Function |-> "functions"]
OperationKinds == [Action |-> "action", Function |-> "function"]
ImportKinds == [ActionImport |-> "action-import", FunctionImport |-> "function-import"]
ImportLists == [ActionImport |-> "actionImports", FunctionImport |-> "functionImports"]

\* A new element of a list of the open schema, and where it is.
Opened(p, list, x) ==
    [p EXCEPT !.schemas[p.schema][list] = Append(@, x)]
Here(p, list) == [schema |-> p.schema, list |-> list, index |-> Len(p.schemas[p.schema][list]) + 1]
Within(p, at, field, x) ==
    [p EXCEPT !.schemas[at.schema][at.list][at.index][field] = Append(@, x)]
InContainer(p, list, x) == [p EXCEPT !.schemas[p.container].container[1][list] = Append(@, x)]

StartElement(p, token) ==
    LET element == token.element
        name == Attr(token, "Name")
        namespace == p.schemas[p.schema].namespace
        typed == Typed(name, TypeAttr(token, "Type"), NullableXML(token))
        type == NewType(namespace, name, TypeAttr(token, "BaseType"))
        operation == NewOperation(namespace, OperationKinds[element], name, FlagAttr(token, "IsBound"))
    IN CASE element = "Schema" ->
               [p EXCEPT !.schemas = Append(p.schemas, NewSchema(Attr(token, "Namespace"))),
                         !.schema = Len(p.schemas) + 1]
         [] element \in DOMAIN TypeLists /\ p.schema # 0 ->
               [Opened(p, TypeLists[element], type) EXCEPT !.type = Here(p, TypeLists[element])]
         [] element = "Property" /\ p.type # Nowhere -> Within(p, p.type, "properties", typed)
         [] element = "NavigationProperty" /\ p.type # Nowhere -> Within(p, p.type, "navigation", typed)
         [] element \in DOMAIN OperationLists /\ p.schema # 0 ->
               [Opened(p, OperationLists[element], operation) EXCEPT !.operation = Here(p, OperationLists[element])]
         [] element = "Parameter" /\ p.operation # Nowhere -> Within(p, p.operation, "parameters", typed)
         [] element = "ReturnType" /\ p.operation # Nowhere ->
               [p EXCEPT !.schemas[p.operation.schema][p.operation.list][p.operation.index].returns =
                             NormalizeTypeName(TypeAttr(token, "Type"))]
         [] element = "EntityContainer" /\ p.schema # 0 ->
               [p EXCEPT !.schemas[p.schema].container = <<NewContainer(name)>>, !.container = p.schema]
         [] element = "EntitySet" /\ p.container # 0 ->
               InContainer(p, "sets", [name |-> name, type |-> NormalizeTypeName(TypeAttr(token, "EntityType"))])
         [] element = "Singleton" /\ p.container # 0 ->
               InContainer(p, "singletons", [name |-> name, type |-> NormalizeTypeName(TypeAttr(token, "Type"))])
         [] element \in DOMAIN ImportLists /\ p.container # 0 ->
               LET kind == IF element = "ActionImport" THEN "Action" ELSE "Function" IN
               InContainer(p, ImportLists[element],
                   Import(ImportKinds[element], name, Attr(token, kind), Attr(token, "EntitySet")))
         [] OTHER -> p

EndElement(p, token) ==
    CASE token.element \in DOMAIN TypeLists -> [p EXCEPT !.type = Nowhere]
      [] token.element \in DOMAIN OperationLists -> [p EXCEPT !.operation = Nowhere]
      [] token.element = "EntityContainer" -> [p EXCEPT !.container = 0]
      [] token.element = "Schema" -> [p EXCEPT !.schema = 0]
      [] OTHER -> p

ParseXML(tokens) ==
    LET read(p, token) ==
            LET depth == p.depth + (CASE token.tag = "start" -> 1 [] token.tag = "end" -> -1 [] OTHER -> 0)
                q == [p EXCEPT !.work = p.work + 1, !.depth = depth]
            IN CASE p.failed -> p
                 [] ~p.failed /\ (q.work > MaxWorkItems \/ depth > MaxNestingDepth) -> [p EXCEPT !.failed = TRUE]
                 [] ~p.failed /\ q.work <= MaxWorkItems /\ token.tag = "start" /\ depth <= MaxNestingDepth ->
                        StartElement(q, token)
                 [] ~p.failed /\ q.work <= MaxWorkItems /\ token.tag = "end" -> EndElement(q, token)
                 [] OTHER -> q
        end == FoldLeft(read,
            [failed |-> FALSE, depth |-> 0, work |-> 0, schemas |-> <<>>, schema |-> 0, type |-> Nowhere,
             operation |-> Nowhere, container |-> 0], tokens)
    IN [failed |-> end.failed, schemas |-> end.schemas]

(***************************************************************************)
(* JSON: the members of an object come in any order, each [name, kind] and *)
(* what its kind has.  A member of another shape is passed over.           *)
(***************************************************************************)
OfKind(members, kind) == SelectSeq(members, LAMBDA m : m.kind = kind)
Each(items, Of(_)) == [i \in DOMAIN items |-> Of(items[i])]
TypedJSON(m) == Typed(m.name, m.type, m.nullable)

EntityTypeJSON(namespace, m) ==
    [NewType(namespace, m.name, m.base) EXCEPT
        !.navigation = Each(OfKind(m.members, "NavigationProperty"), TypedJSON),
        !.properties = Each(SelectSeq(m.members, LAMBDA x : x.kind # "NavigationProperty"), TypedJSON)]
OperationJSON(namespace, kind, m) ==
    [NewOperation(namespace, kind, m.name, m.bound) EXCEPT
        !.parameters = Each(m.parameters, TypedJSON), !.returns = NormalizeTypeName(m.returns)]
ContainerJSON(m) ==
    LET resource(x) == [name |-> x.name, type |-> NormalizeTypeName(x.type)]
        import(x) == Import(ImportKinds[x.kind], x.name, x.operation, x.set)
    IN [NewContainer(m.name) EXCEPT
           !.sets = Each(OfKind(m.members, "EntitySet"), resource),
           !.singletons = Each(OfKind(m.members, "Singleton"), resource),
           !.actionImports = Each(OfKind(m.members, "ActionImport"), import),
           !.functionImports = Each(OfKind(m.members, "FunctionImport"), import)]

\* A type may go without a kind if it has a key, a base or typed members; of
\* two containers the one met last stays.
SchemaJSON(root) ==
    LET namespace == root.name
        isType(m) == m.kind = "EntityType" \/ (m.kind = "" /\ (m.keyed \/ m.base # <<>>
                         \/ \E i \in DOMAIN m.members : m.members[i].type # <<>>))
        containers == OfKind(root.members, "EntityContainer")
    IN [NewSchema(namespace) EXCEPT
           !.entityTypes = Each(SelectSeq(root.members, isType), LAMBDA m : EntityTypeJSON(namespace, m)),
           !.complexTypes = Each(OfKind(root.members, "ComplexType"), LAMBDA m : EntityTypeJSON(namespace, m)),
           !.actions = Each(OfKind(root.members, "Action"), LAMBDA m : OperationJSON(namespace, "action", m)),
           !.functions = Each(OfKind(root.members, "Function"), LAMBDA m : OperationJSON(namespace, "function", m)),
           !.container = IF containers = <<>> THEN <<>> ELSE <<ContainerJSON(Last(containers))>>]

LooksLikeJSON(root) ==
    \/ root.version # ""
    \/ \E i \in DOMAIN root.members : \E j \in DOMAIN root.members[i].members : root.members[i].members[j].kind # ""
ParseJSON(root) ==
    [failed |-> ~LooksLikeJSON(root), schemas |-> Each(root.members, SchemaJSON)]

HasMetadata(schema) ==
    \/ \E list \in {"entityTypes", "complexTypes", "actions", "functions"} : schema[list] # <<>>
    \/ /\ schema.container # <<>>
       /\ \E list \in {"sets", "singletons", "actionImports", "functionImports"} : schema.container[1][list] # <<>>
FinalizeModel(model) ==
    IF model.failed \/ ~\E i \in DOMAIN model.schemas : HasMetadata(model.schemas[i]) THEN Failure
    ELSE [model EXCEPT !.schemas = SortedBy(model.schemas, LAMBDA s : <<s.namespace>>)]
Parse(document) == FinalizeModel(IF document.form = "xml" THEN ParseXML(document.source) ELSE ParseJSON(document.source))

(***************************************************************************)
(* Operations and selectors.                                               *)
(***************************************************************************)
Summary(id, name, kind, selector, type, returns, parameters, bound, collection) ==
    [id |-> id, name |-> name, kind |-> kind, selector |-> selector, type |-> type, returns |-> returns,
     parameters |-> parameters, bound |-> bound, collection |-> collection]
SetSummary(x) ==
    Summary(<<"entityset", x.name>>, x.name, "entity-set", <<"#/entitySets/", x.name>>, x.type, "", <<>>, FALSE, TRUE)
SingletonSummary(x) ==
    Summary(<<"singleton", x.name>>, x.name, "singleton", <<"#/singletons/", x.name>>, x.type, "", <<>>, FALSE, FALSE)
ImportSummary(x) ==
    Summary(<<x.kind, x.name>>, x.name, x.kind, <<"#/", x.kind, "s/", x.name>>,
            "", x.set, <<>>, FALSE, FALSE)
OperationSummary(x) ==
    Summary(<<x.kind>> \o x.full, x.name, x.kind, <<"#/", x.kind, "s/">> \o x.full, "", x.returns, x.parameters,
            x.bound, FALSE)
NavigationSummary(type, x) ==
    Summary(<<"navigation">> \o type.full \o <<x.name>>, x.name, "navigation",
            <<"#/entityTypes/">> \o type.full \o <<"/navigation/", x.name>>, x.type, "", <<>>, FALSE, x.collection)

\* Of two operations of one ID the first stays.
CompactSummaries(summaries) ==
    FoldLeft(LAMBDA kept, s : IF \E i \in DOMAIN kept : kept[i].id = s.id THEN kept ELSE Append(kept, s),
             <<>>, summaries)

OperationSummaries(model) ==
    LET named(items) == SelectSeq(items, LAMBDA x : x.name # "")
        ofContainer(c) ==
            Each(named(c.sets), SetSummary) \o Each(named(c.singletons), SingletonSummary)
            \o Each(c.actionImports, ImportSummary) \o Each(c.functionImports, ImportSummary)
        ofSchema(s) ==
            (IF s.container = <<>> THEN <<>> ELSE ofContainer(s.container[1]))
            \o Each(s.actions, OperationSummary) \o Each(s.functions, OperationSummary)
            \o FlattenSeq(Each(s.entityTypes, LAMBDA t : Each(named(t.navigation), LAMBDA x : NavigationSummary(t, x))))
    IN SortedBy(CompactSummaries(FlattenSeq(Each(model.schemas, ofSchema))), LAMBDA s : s.id)

Aliases(s) == {s.id, <<s.name>>, s.selector, <<"odata:">> \o s.id}
ResolveSelector(model, alias) == SelectSeq(OperationSummaries(model), LAMBDA s : alias \in Aliases(s))
====
