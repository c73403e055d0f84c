---- MODULE PublishedOData ----
(***************************************************************************)
(* OData services, and the metadata that describes them: XML, or JSON with *)
(* the members of its objects in any order.                                *)
(***************************************************************************)
EXTENDS OData, FiniteSets

(***************************************************************************)
(* A service is a sequence of schemas [name, members], and a member has    *)
(* the shape of a member of the JSON.                                      *)
(***************************************************************************)
Member(kind, name) ==
    [name |-> name, kind |-> kind, keyed |-> FALSE, base |-> <<>>, members |-> <<>>, type |-> <<>>, nullable |-> TRUE,
     parameters |-> <<>>, returns |-> <<>>, bound |-> FALSE, operation |-> "", set |-> ""]
Prop(name, type, nullable) == [Member("", name) EXCEPT !.type = type, !.nullable = nullable]
Navigation(name, type) == [Member("NavigationProperty", name) EXCEPT !.type = type]
Set(name, type) == [Member("EntitySet", name) EXCEPT !.type = <<type>>]
Holder(kind, name, members) == [Member(kind, name) EXCEPT !.members = members]
Callable(kind, name, bound, parameters, returns) ==
    [Member(kind, name) EXCEPT !.bound = bound, !.parameters = parameters, !.returns = returns]

Entity == Holder("EntityType", "A", <<Prop("a", <<"T">>, FALSE), Navigation("b", <<"Collection", "B">>), Navigation("a", <<"A">>)>>)
Derived == [Holder("EntityType", "B", <<Navigation("b", <<"T">>)>>) EXCEPT !.base = <<"A">>]
Complex == Holder("ComplexType", "T", <<Prop("a", <<"Collection", "T">>, TRUE), Navigation("b", <<"A">>)>>)
Action == Callable("Action", "a", TRUE, <<Prop("a", <<"A">>, TRUE), Prop("b", <<"Collection", "T">>, FALSE)>>, <<>>)
Function == Callable("Function", "a", FALSE, <<Prop("b", <<"B">>, TRUE)>>, <<"Collection", "T">>)
Container ==
    Holder("EntityContainer", "C", <<Set("A", "A"), [Set("b", "B") EXCEPT !.kind = "Singleton"],
        [Member("ActionImport", "a") EXCEPT !.operation = "a"],
        [Member("FunctionImport", "a") EXCEPT !.operation = "a", !.set = "A"]>>)
Lists == {<<Entity, Derived, Complex>>, <<Container, Entity, Action>>, <<Function, Action, Container>>, <<Derived, Function>>}
Services ==
    {<<[name |-> "p", members |-> l]>> : l \in Lists}
    \cup {<<[name |-> "q", members |-> k], [name |-> "p", members |-> l]>> : k \in {<<Container>>, <<Function>>}, l \in {<<Entity, Action>>, <<Complex, Function>>}}

(***************************************************************************)
(* XML.                                                                    *)
(***************************************************************************)
Token(tag, element, attrs) == [tag |-> tag, element |-> element, attrs |-> attrs]
Space == [tag |-> "text"]
Element(element, attrs, content) == <<Token("start", element, attrs), Space>> \o content \o <<Token("end", element, <<>>)>>
Nullable(m) == IF m.nullable THEN [Name |-> m.name, Type |-> m.type] ELSE [Name |-> m.name, Type |-> m.type, Nullable |-> "false"]
All(items, Of(_)) == FlattenSeq(Each(items, Of))
RECURSIVE MemberXML(_)
MemberXML(m) ==
    CASE m.kind = "" -> Element("Property", Nullable(m), <<>>)
      [] m.kind = "NavigationProperty" -> Element(m.kind, Nullable(m), <<>>)
      [] m.kind \in {"EntityType", "ComplexType"} ->
            Element(m.kind, IF m.base = <<>> THEN [Name |-> m.name] ELSE [Name |-> m.name, BaseType |-> m.base], All(m.members, MemberXML))
      [] m.kind \in {"Action", "Function"} ->
            Element(m.kind, IF m.bound THEN [Name |-> m.name, IsBound |-> "true"] ELSE [Name |-> m.name],
                All(m.parameters, LAMBDA p : Element("Parameter", Nullable(p), <<>>))
                \o IF m.returns = <<>> THEN <<>> ELSE Element("ReturnType", [Type |-> m.returns], <<>>))
      [] m.kind = "EntityContainer" -> Element(m.kind, [Name |-> m.name], All(m.members, MemberXML))
      [] m.kind = "EntitySet" -> Element(m.kind, [Name |-> m.name, EntityType |-> m.type], <<>>)
      [] m.kind = "Singleton" -> Element(m.kind, [Name |-> m.name, Type |-> m.type], <<>>)
      [] m.kind = "ActionImport" -> Element(m.kind, [Name |-> m.name, Action |-> m.operation, EntitySet |-> m.set], <<>>)
      [] m.kind = "FunctionImport" -> Element(m.kind, [Name |-> m.name, Function |-> m.operation, EntitySet |-> m.set], <<>>)
SchemaXML(s) == Element("Schema", [Namespace |-> s.name], All(s.members, MemberXML))
ServiceXML(service) == Element("Edmx", [Version |-> "4.0"], All(service, SchemaXML))

\* A decoder of JSON gives the members of an object in an order p.
Reordered(items, p) == [i \in DOMAIN items |-> items[p[i]]]
Rotated(items, n) == [i \in DOMAIN items |-> items[((i + n - 1) % Len(items)) + 1]]
RECURSIVE RotatedMember(_, _)
RotatedMember(m, n) == [m EXCEPT !.members = [i \in DOMAIN m.members |-> RotatedMember(Rotated(m.members, n)[i], n)]]
Permutations3 == {p \in [1..3 -> 1..3] : Cardinality({p[i] : i \in 1..3}) = 3}
ServiceJSON(service, order) ==
    LET schema(s) ==
            LET members == Each(s.members, LAMBDA m : RotatedMember(m, order[1]))
            IN [s EXCEPT !.members = IF Len(members) = 3 THEN Reordered(members, order) ELSE Rotated(members, order[1])]
    IN [version |-> "4.01", members |-> Rotated(Each(service, schema), order[2])]

Forms(service) == {[form |-> "xml", order |-> <<>>]} \cup {[form |-> "json", order |-> p] : p \in Permutations3}
Read(service, form) ==
    Parse([form |-> form.form, source |-> IF form.form = "xml" THEN ServiceXML(service) ELSE ServiceJSON(service, form.order)])

(***************************************************************************)
(* What the summaries have to tell of a service.                           *)
(***************************************************************************)
Told(kind, name, type, returns, parameters, bound, collection) ==
    [kind |-> kind, name |-> name, type |-> type, returns |-> returns, parameters |-> parameters, bound |-> bound,
     collection |-> collection]
ToldParameter(p) == <<p.name, NormalizeTypeName(p.type), IsCollectionType(p.type), p.nullable>>
OfMember(m) ==
    LET inner(Tells(_)) == {Tells(m.members[i]) : i \in DOMAIN m.members}
    IN CASE m.kind = "EntityType" ->
              {Told("navigation", x.name, NormalizeTypeName(x.type), "", <<>>, FALSE, IsCollectionType(x.type)) :
                  x \in {y \in {m.members[i] : i \in DOMAIN m.members} : y.kind = "NavigationProperty"}}
         [] m.kind \in {"Action", "Function"} ->
              {Told(OperationKinds[m.kind], m.name, "", NormalizeTypeName(m.returns), Each(m.parameters, ToldParameter), m.bound, FALSE)}
         [] m.kind = "EntityContainer" ->
              inner(LAMBDA x :
                  CASE x.kind = "EntitySet" -> Told("entity-set", x.name, NormalizeTypeName(x.type), "", <<>>, FALSE, TRUE)
                    [] x.kind = "Singleton" -> Told("singleton", x.name, NormalizeTypeName(x.type), "", <<>>, FALSE, FALSE)
                    [] x.kind = "ActionImport" -> Told("action-import", x.name, "", x.set, <<>>, FALSE, FALSE)
                    [] x.kind = "FunctionImport" -> Told("function-import", x.name, "", x.set, <<>>, FALSE, FALSE))
         [] OTHER -> {}
Promised(service) ==
    UNION {UNION {OfMember(s.members[i]) : i \in DOMAIN s.members} : s \in {service[i] : i \in DOMAIN service}}
Preserved(service, model) ==
    LET s == OperationSummaries(model)
    IN Promised(service) =
       {Told(s[i].kind, s[i].name, s[i].type, s[i].returns,
             Each(s[i].parameters, LAMBDA p : <<p.name, p.type, p.collection, p.nullable>>), s[i].bound, s[i].collection) :
           i \in DOMAIN s}
Resolves(model) ==
    LET s == OperationSummaries(model)
    IN \A i \in DOMAIN s :
           /\ \A j \in DOMAIN s : s[j].id = s[i].id => i = j
           /\ \A alias \in Aliases(s[i]) \ {<<s[i].name>>} : ResolveSelector(model, alias)[1] = s[i]
====
