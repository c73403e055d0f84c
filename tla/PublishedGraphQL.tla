---- MODULE PublishedGraphQL ----
(***************************************************************************)
(* GraphQL services, and the documents that describe them: SDL, SDL with   *)
(* extensions, an introspection, or operations.                            *)
(***************************************************************************)
EXTENDS GraphQL

(***************************************************************************)
(* A service [schema, types, operations].                                  *)
(***************************************************************************)
Ref(name) == [kind |-> "OBJECT", name |-> name, of |-> <<>>]
ListOf(r) == [kind |-> "LIST", name |-> "", of |-> r]
NonNull(r) == [kind |-> "NON_NULL", name |-> "", of |-> r]
Arg(name, type, value) == [name |-> name, note |-> "", type |-> type, value |-> value]
Fld(name, note, args, type) == [name |-> name, note |-> note, args |-> args, type |-> type]
Decl(kind, name, note) == Type(name, kind, note)
Object(name, fields) == [Decl("OBJECT", name, "") EXCEPT !.fields = fields]
Query(name, variables, selected) ==
    [kind |-> "query", name |-> name, variables |-> variables, selected |-> selected]

InputValue == <<Mark("{"), Word("b"), Mark(":"), Mark("["), Word("a"), Mark("]"), Mark("}")>>
FieldPool ==
    {Fld("a", "", <<>>, Ref("T")),
     Fld("input", "x", <<Arg("input", NonNull(Ref("T")), InputValue), Arg("b", Ref("T"), <<>>)>>, NonNull(ListOf(NonNull(Ref("T"))))),
     Fld("query", "", <<Arg("type", ListOf(Ref("T")), <<Mark("["), Word("1"), Mark("]")>>)>>, Ref("type"))}
FieldLists == {<<f>> : f \in FieldPool} \cup {<<f, g>> : f, g \in FieldPool}
Extras ==
    {<<>>,
     <<[Decl("INPUT_OBJECT", "T", "x") EXCEPT !.inputs = <<Arg("a", Ref("T"), InputValue), Arg("type", Ref("T"), <<>>)>>]>>,
     <<[Decl("ENUM", "T", "") EXCEPT !.values = <<[name |-> "a", note |-> "x"], [name |-> "query", note |-> ""]>>],
       Decl("SCALAR", "b", "x"), [Decl("INTERFACE", "type", "") EXCEPT !.fields = <<Fld("a", "", <<>>, Ref("T"))>>]>>}
Roots == {NoSchema, [NoSchema EXCEPT !.query = "T2"]}

QueryRoot(schema) == IF schema.query = "" THEN "Query" ELSE schema.query
Schemas ==
    {[schema |-> schema, operations |-> <<>>,
      types |-> extra \o mutation \o <<Object(QueryRoot(schema), fields)>>] :
        schema \in Roots, extra \in Extras, fields \in {l \in FieldLists : Len(l) = 1 \/ l[1] # l[2]},
        mutation \in {<<>>, <<Object("Mutation", <<Fld("a", "", <<>>, Ref("T"))>>)>>}}
\* A union stands before the root type.
UnionSchemas ==
    {[schema |-> NoSchema, operations |-> <<>>,
      types |-> <<[Decl("UNION", "U", "") EXCEPT !.members = <<"T", "b">>], Object("Query", fields)>>] : fields \in FieldLists}
Clients ==
    {[schema |-> NoSchema, types |-> <<>>, operations |-> operations] :
        operations \in {<<Query("a", <<Arg("a", NonNull(Ref("T")), InputValue), Arg("b", Ref("T"), <<>>)>>, {"a", "b"}),
                          Query("a", <<>>, {"query"}), Query("b", <<>>, {"a"})>>,
                        <<Query("", <<>>, {"a"}), Query("", <<Arg("b", Ref("T"), InputValue)>>, {"b"})>>}}
Services == Schemas \cup Clients

(***************************************************************************)
(* Their documents.                                                        *)
(***************************************************************************)
Each(items, Of(_)) == FlattenSeq([i \in DOMAIN items |-> Of(items[i])])
NoteTokens(note) == IF note = "" THEN <<>> ELSE <<Text(note)>>
Directive == <<Mark("@"), Word("deprecated"), Mark("("), Word("a"), Mark(":"), Text("x"), Mark(")")>>
RECURSIVE RefTokens(_)
RefTokens(r) ==
    CASE r.kind = "NON_NULL" -> RefTokens(r.of) \o <<Mark("!")>>
      [] r.kind = "LIST" -> <<Mark("[")>> \o RefTokens(r.of) \o <<Mark("]")>>
      [] OTHER -> <<Word(r.name)>>
ArgTokens(a) ==
    NoteTokens(a.note) \o <<Word(a.name), Mark(":")>> \o RefTokens(a.type)
    \o (IF a.value = <<>> THEN <<>> ELSE <<Mark("=")>> \o a.value)
ListTokens(items, Of(_)) ==
    IF items = <<>> THEN <<>> ELSE <<Mark("(")>> \o Each(items, Of) \o <<Mark(")")>>
FieldTokens(f) ==
    NoteTokens(f.note) \o <<Word(f.name)>> \o ListTokens(f.args, ArgTokens) \o <<Mark(":")>> \o RefTokens(f.type)
    \o Directive
ValueTokens(v) == NoteTokens(v.note) \o <<Word(v.name)>>
Keyword ==
    ("OBJECT" :> "type") @@ ("INTERFACE" :> "interface") @@ ("INPUT_OBJECT" :> "input") @@ ("ENUM" :> "enum")
    @@ ("SCALAR" :> "scalar") @@ ("UNION" :> "union")
TypeTokens(t) ==
    NoteTokens(t.note) \o <<Word(Keyword[t.kind]), Word(t.name)>> \o
    CASE t.kind = "SCALAR" -> Directive
      [] t.kind = "UNION" -> <<Mark("=")>> \o Each(t.members, LAMBDA n : <<Mark("|"), Word(n)>>)
      [] t.kind \in {"OBJECT", "INTERFACE"} ->
            <<Word("implements"), Word("b"), Mark("{")>> \o Each(t.fields, FieldTokens) \o <<Mark("}")>>
      [] t.kind = "INPUT_OBJECT" -> <<Mark("{")>> \o Each(t.inputs, ArgTokens) \o <<Mark("}")>>
      [] t.kind = "ENUM" -> <<Mark("{")>> \o Each(t.values, ValueTokens) \o <<Mark("}")>>
\* The last field of an object is left to an extension.
ExtendedTokens(t) ==
    IF t.kind # "OBJECT" \/ Len(t.fields) < 2 THEN TypeTokens(t)
    ELSE <<Word("extend")>> \o TypeTokens([t EXCEPT !.fields = <<Head(t.fields)>>])
         \o <<Word("extend")>> \o TypeTokens([t EXCEPT !.fields = Tail(t.fields)])
SchemaTokens(schema) ==
    IF schema = NoSchema THEN <<>>
    ELSE <<Word("schema"), Mark("{"), Word("query"), Mark(":"), Word(schema.query), Mark("}")>>
VariableTokens(a) == <<Mark("$")>> \o ArgTokens(a)
QueryTokens(q) ==
    (IF q.name = "" /\ q.variables = <<>> THEN <<>>
     ELSE <<Word("query")>> \o (IF q.name = "" THEN <<>> ELSE <<Word(q.name)>>) \o ListTokens(q.variables, VariableTokens))
    \o <<Mark("{")>> \o Each(SetToSeq(q.selected), LAMBDA n : <<Word("type"), Mark(":"), Word(n)>> \o Directive
                              \o <<Mark("{"), Word("b"), Mark("}")>>)
    \o <<Mark("..."), Word("b"), Mark("}")>>
FragmentTokens == <<Word("fragment"), Word("b"), Word("on"), Word("T"), Mark("{"), Word("a"), Mark("}")>>

Forms(service) == IF service \in Clients THEN {"operations"} ELSE {"sdl", "extended", "introspection"}
Read(service, form) ==
    CASE form = "operations" -> ParseText(FragmentTokens \o Each(service.operations, QueryTokens))
      [] form = "sdl" -> ParseText(SchemaTokens(service.schema) \o Each(service.types, TypeTokens))
      [] form = "extended" -> ParseText(Each(service.types, ExtendedTokens) \o SchemaTokens(service.schema))
      [] form = "introspection" ->
            ParseIntrospection([schema |-> [service.schema EXCEPT !.query = QueryRoot(service.schema)], types |-> service.types])

(***************************************************************************)
(* What the summaries have to tell of a service.                           *)
(***************************************************************************)
RECURSIVE DisplayOf(_)
DisplayOf(r) ==
    CASE r.kind = "NON_NULL" -> DisplayOf(r.of) \o <<"!">>
      [] r.kind = "LIST" -> <<"[">> \o DisplayOf(r.of) \o <<"]">>
      [] OTHER -> <<r.name>>
Told(kind, name, note, type, root, selected, variables) ==
    [kind |-> kind, name |-> name, note |-> note, type |-> type, root |-> root, selected |-> selected,
     variables |-> variables]
Promised(service) ==
    {Told(q.kind, IF q.name = "" THEN "anonymous" ELSE q.name, "", <<>>, "", q.selected,
          [i \in DOMAIN q.variables |-> <<q.variables[i].name, DisplayOf(q.variables[i].type)>>]) :
        q \in {service.operations[i] : i \in DOMAIN service.operations}}
    \cup UNION {
        {Told(kind, f.name, f.note, DisplayOf(f.type), t.name, {}, <<>>) : f \in {t.fields[i] : i \in DOMAIN t.fields}} :
        <<kind, t>> \in
            {x \in {"query", "mutation"} \X {service.types[i] : i \in DOMAIN service.types} :
                x[2].name = IF x[1] = "query" THEN QueryRoot(service.schema) ELSE "Mutation"}}
Preserved(service, model) ==
    LET s == OperationSummaries(model)
    IN Promised(service) =
       {Told(s[i].kind, s[i].name, s[i].note, s[i].type, s[i].root, s[i].selected,
             [v \in DOMAIN s[i].variables |-> <<s[i].variables[v].name, s[i].variables[v].type>>]) : i \in DOMAIN s}

Resolves(model) ==
    LET s == model.operations
    IN \A i \in DOMAIN s :
           /\ \A j \in DOMAIN s : s[j].id = s[i].id => i = j
           /\ \A alias \in {s[i].id, <<"operation:", s[i].id>>, Selector(s[i])} : ResolveSelector(model, alias) = s[i]
====
