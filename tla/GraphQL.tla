---- MODULE GraphQL ----
(***************************************************************************)
(* graphql/parse.go and graphql/selectors.go: a document of the schema     *)
(* language, the JSON of an introspection, or operations, reduced to       *)
(* operations with selectors.                                              *)
(*                                                                         *)
(* Text is a sequence of tokens (module Tokens), and JSON the records that *)
(* it decodes to.  An identifier that the code joins from strings is the   *)
(* tuple of those strings.  A type [name, kind, note, fields, inputs,      *)
(* values, members] has fields [name, note, args, type], where a type      *)
(* reference is [name, display, required].                                 *)
(***************************************************************************)
EXTENDS Tokens, Sorting, FiniteSets, SequencesExt

CONSTANTS MaxNestingDepth, MaxWorkItems

Failure == [failed |-> TRUE, schema |-> <<>>, types |-> <<>>, operations |-> <<>>]
Untyped == [name |-> "", display |-> <<>>, required |-> FALSE]
NoSchema == [query |-> "", mutation |-> "", subscription |-> ""]

Keywords ==
    {"schema", "type", "interface", "input", "enum", "scalar", "union", "query", "mutation",
     "subscription", "fragment", "extend"}
AtDefinition(s) == AtKind(s, "name") /\ Head(s.rest).value \in Keywords

SkipUntil(s, v) == While(s, LAMBDA p : ~At(p, v) /\ ~AtDefinition(p), Advance)

\* The descriptions of fields, values and definitions come before them.
Note(s) == Head(s.rest).value

(***************************************************************************)
(* Types, values and directives.                                           *)
(***************************************************************************)
RECURSIVE TypeRefAt(_, _)
TypeRefAt(s, depth) ==
    LET bang(p, name, display) ==
            [Past(p, "!") EXCEPT !.out =
                [name |-> name, required |-> At(p, "!"),
                 display |-> IF At(p, "!") THEN display \o <<"!">> ELSE display]]
    IN IF depth >= MaxNestingDepth THEN [s EXCEPT !.failed = TRUE, !.out = Untyped]
       ELSE IF At(s, "[")
       THEN LET inner == TypeRefAt(Advance(s), depth + 1)
            IN bang(Past(inner, "]"), "", <<"[">> \o inner.out.display \o <<"]">>)
       ELSE bang(PastName(s), NameAt(s), IF NameAt(s) = "" THEN <<>> ELSE <<NameAt(s)>>)

TypeAfterColon(s) ==
    IF At(s, ":") THEN TypeRefAt(Advance(s), 0) ELSE [s EXCEPT !.out = Untyped]

SkipDirectives(s) ==
    While(s, LAMBDA p : At(p, "@"), LAMBDA p : SkipBalanced(PastName(Advance(p)), "(", ")"))

\* A variant with a bug: the brackets within a value are not counted.
DefaultValueFlat(s) ==
    While([s EXCEPT !.out = [value |-> <<>>, depth |-> 0]],
        LAMBDA p : ~AtAny(p, {")", "}", "@"}) /\ ~(AtKind(p, "name") /\ At(Advance(p), ":")),
        LAMBDA p : [Advance(p) EXCEPT !.out.value = Append(p.out.value, Head(p.rest).value)])
\* Up to the end of the list or the next item of it.
DefaultValue(s) ==
    While([s EXCEPT !.out = [value |-> <<>>, depth |-> 0]],
        LAMBDA p : ~(p.out.depth = 0 /\ (\/ AtAny(p, {")", "}", "@", "]"})
                                         \/ AtKind(p, "name") /\ At(Advance(p), ":"))),
        LAMBDA p : [Advance(p) EXCEPT
            !.out.value = Append(p.out.value, Head(p.rest).value),
            !.out.depth = CASE AtAny(p, {"[", "{", "("}) -> p.out.depth + 1
                            [] AtAny(p, {"]", "}", ")"}) -> p.out.depth - 1
                            [] OTHER -> p.out.depth])

\* name : type = default @directives, of an argument, a variable or an input.
Argument(s, note) ==
    LET typed == TypeAfterColon(PastName(s))
        valued == IF At(typed, "=") THEN DefaultValue(Advance(typed)) ELSE typed
    IN [SkipDirectives(valued) EXCEPT !.out =
           [name |-> NameAt(s), note |-> note, type |-> typed.out,
            value |-> IF At(typed, "=") THEN valued.out.value ELSE <<>>]]

\* Items with a description before each; Item(s, note) reads one by its name.
Described(s, Item(_, _)) ==
    LET turn(p) ==
            CASE AtKind(p, "string") -> [Advance(p) EXCEPT !.out.note = Note(p)]
              [] ~AtKind(p, "string") /\ NameAt(p) = "" -> [Advance(p) EXCEPT !.out.note = ""]
              [] OTHER -> LET item == Item(p, p.out.note) IN
                    [item EXCEPT !.out = [note |-> "", items |-> Append(p.out.items, item.out)]]
        end == Items([s EXCEPT !.out = [note |-> "", items |-> <<>>]], "}", turn)
    IN [end EXCEPT !.out = end.out.items]

Listed(s, Item(_)) ==
    LET turn(p) == IF NameAt(p) = "" THEN Advance(p)
                   ELSE LET item == Item(p) IN [item EXCEPT !.out = Append(p.out, item.out)]
    IN Items([Advance(s) EXCEPT !.out = <<>>], ")", turn)

(***************************************************************************)
(* Definitions.                                                            *)
(***************************************************************************)
Type(name, kind, note) ==
    [name |-> name, kind |-> kind, note |-> note, fields |-> <<>>, inputs |-> <<>>,
     values |-> <<>>, members |-> <<>>]

Field(s, note) ==
    LET named == PastName(s)
        listed == IF At(named, "(") THEN Listed(named, LAMBDA p : Argument(p, ""))
                  ELSE [named EXCEPT !.out = <<>>]
        typed == TypeAfterColon(listed)
    IN [SkipDirectives(typed) EXCEPT !.out =
           [name |-> NameAt(s), note |-> note, args |-> listed.out, type |-> typed.out]]

EnumValue(s, note) ==
    [SkipDirectives(PastName(s)) EXCEPT !.out = [name |-> NameAt(s), note |-> note]]

\* The body of a type, an input or an enum: what follows is taken for it up
\* to the next definition.
Body(s, Item(_, _)) ==
    LET open == SkipUntil(PastName(s), "{")
    IN IF At(open, "{") THEN Described(Advance(open), Item) ELSE [open EXCEPT !.out = <<>>]

ObjectType(s, kind, note) ==
    LET body == Body(s, Field)
    IN [body EXCEPT !.out = [Type(NameAt(s), kind, note) EXCEPT !.fields = body.out]]
InputType(s, note) ==
    LET body == Body(s, Argument)
    IN [body EXCEPT !.out = [Type(NameAt(s), "INPUT_OBJECT", note) EXCEPT !.inputs = body.out]]
EnumType(s, note) ==
    LET body == Body(s, EnumValue)
    IN [body EXCEPT !.out = [Type(NameAt(s), "ENUM", note) EXCEPT !.values = body.out]]
ScalarType(s, note) == [PastName(s) EXCEPT !.out = Type(NameAt(s), "SCALAR", note)]

\* Every name is a member, a keyword too: only an opening brace ends it.
UnionType(s, note) ==
    LET turn(p) ==
            CASE AtAny(p, {"=", "|"}) -> Advance(p)
              [] NameAt(p) # "" -> [PastName(p) EXCEPT !.out = Append(p.out, NameAt(p))]
              [] OTHER -> Advance(p)
        end == While([PastName(s) EXCEPT !.out = <<>>], LAMBDA p : ~At(p, "{"), turn)
    IN [end EXCEPT !.out = [Type(NameAt(s), "UNION", note) EXCEPT !.members = end.out]]

SchemaType(s) ==
    LET open == SkipUntil(s, "{")
        turn(p) ==
            LET key == NameAt(p) named == PastName(p) value == Past(named, ":")
            IN CASE key = "" -> Advance(p)
                 [] key # "" /\ ~At(named, ":") -> named
                 [] OTHER -> [PastName(value) EXCEPT !.out =
                        IF key \in DOMAIN NoSchema THEN [p.out EXCEPT ![key] = NameAt(value)]
                        ELSE p.out]
    IN IF At(open, "{") THEN Items(Advance(open), "}", turn) ELSE open

(***************************************************************************)
(* Operations: the names they select, and their variables.                 *)
(***************************************************************************)
SelectionSet(s) ==
    LET select(p) ==
            LET target == IF At(PastName(p), ":") THEN Advance(PastName(p)) ELSE PastName(p)
                name == IF At(PastName(p), ":") /\ NameAt(target) # "" THEN NameAt(target) ELSE NameAt(p)
                after == IF At(PastName(p), ":") THEN PastName(target) ELSE target
            IN [SkipBalanced(SkipDirectives(SkipBalanced(after, "(", ")")), "{", "}")
                    EXCEPT !.out = p.out \cup {name}]
        turn(p) ==
            CASE At(p, "...") -> SkipDirectives(PastName(Advance(p)))
              [] ~At(p, "...") /\ NameAt(p) = "" -> Advance(p)
              [] OTHER -> select(p)
    IN Items([Advance(s) EXCEPT !.out = {}], "}", turn)

Variable(p) == Argument(p, "")
Operation(kind, name, variables, selected) ==
    [id |-> <<kind, name>>, kind |-> kind, name |-> name, variables |-> variables,
     selected |-> selected, field |-> "", type |-> Untyped, root |-> "", note |-> ""]
NoOperation == Operation("", "", <<>>, {})

\* Without a selection set there is no operation.
OperationAt(s) ==
    LET kind == Head(s.rest).value
        named == PastName(Advance(s))
        name == IF NameAt(Advance(s)) = "" THEN "anonymous" ELSE NameAt(Advance(s))
        listed == IF At(named, "(") THEN Listed(named, Variable) ELSE [named EXCEPT !.out = <<>>]
        open == SkipDirectives(listed)
        end == IF At(open, "{") THEN SelectionSet(open) ELSE open
    IN [end EXCEPT !.out =
           IF At(open, "{") THEN Operation(kind, name, listed.out, end.out) ELSE NoOperation]

AnonymousQuery(s) ==
    LET end == SelectionSet(s)
    IN [end EXCEPT !.out = Operation("query", "anonymous", <<>>, end.out)]

\* Up to its block, or to the next definition.
SkipDefinition(s) ==
    LET end == While(Advance(s), LAMBDA p : ~At(p, "{") /\ ~AtDefinition(p), Advance)
    IN SkipBalanced(end, "{", "}")

(***************************************************************************)
(* Documents.                                                              *)
(***************************************************************************)
Definition(p) ==
    LET s == IF At(p, "extend") THEN Advance(p) ELSE p
        note == p.out.note
        withType(q) == [q EXCEPT !.out = [p.out EXCEPT !.note = "", !.types = Append(p.out.types, q.out)]]
        withOperation(q) ==
            [q EXCEPT !.out = [p.out EXCEPT !.note = "", !.operations = Append(p.out.operations, q.out)]]
        without(q) == [q EXCEPT !.out = [p.out EXCEPT !.note = ""]]
    IN CASE AtKind(p, "string") -> [Advance(p) EXCEPT !.out.note = Note(p)]
         [] ~AtKind(p, "string") /\ ~AtKind(s, "name") /\ ~At(s, "{") -> without(Advance(s))
         [] At(s, "schema") ->
               LET q == SchemaType([Advance(s) EXCEPT !.out = p.out.schema])
               IN [q EXCEPT !.out = [p.out EXCEPT !.note = "", !.schema = q.out]]
         [] At(s, "type") -> withType(ObjectType(Advance(s), "TYPE", note))
         [] At(s, "interface") -> withType(ObjectType(Advance(s), "INTERFACE", note))
         [] At(s, "input") -> withType(InputType(Advance(s), note))
         [] At(s, "enum") -> withType(EnumType(Advance(s), note))
         [] At(s, "scalar") -> withType(ScalarType(Advance(s), note))
         [] At(s, "union") -> withType(UnionType(Advance(s), note))
         [] AtAny(s, {"query", "mutation", "subscription"}) -> withOperation(OperationAt(s))
         [] At(s, "{") -> withOperation(AnonymousQuery(s))
         [] OTHER -> without(SkipDefinition(s))

\* Types of one name are one, and a type without a name is none.
Merged(t, u) ==
    [t EXCEPT !.fields = t.fields \o u.fields, !.inputs = t.inputs \o u.inputs,
              !.values = t.values \o u.values, !.members = t.members \o u.members,
              !.note = IF t.note = "" THEN u.note ELSE t.note]
CompactTypes(types) == FoldLeft(LAMBDA kept, t :
    IF t.name = "" THEN kept
    ELSE IF \E i \in DOMAIN kept : kept[i].name = t.name
    THEN [i \in DOMAIN kept |-> IF kept[i].name = t.name THEN Merged(kept[i], t) ELSE kept[i]]
    ELSE Append(kept, t), <<>>, types)

Ordinals == <<"1", "2", "3", "4">>
\* A variant with a bug: operations of one name share an ID.
CompactOperationsByName(operations) == SelectSeq(operations, LAMBDA o : o # NoOperation)
\* The second operation of a kind and name has a 2 in its ID, and so on.
CompactOperations(operations) ==
    LET named == SelectSeq(operations, LAMBDA o : o # NoOperation)
        before(i) == {j \in 1..i-1 : named[j].id = named[i].id}
    IN [i \in DOMAIN named |->
           IF before(i) = {} THEN named[i]
           ELSE [named[i] EXCEPT !.id = Append(named[i].id, Ordinals[Cardinality(before(i)) + 1])]]

RootName(schema, kind) ==
    IF schema[kind] # "" THEN schema[kind]
    ELSE CASE kind = "query" -> "Query" [] kind = "mutation" -> "Mutation" [] OTHER -> "Subscription"

RootOperation(kind, root, field) ==
    [Operation(kind, field.name, <<>>, {}) EXCEPT
        !.field = field.name, !.type = field.type, !.root = root, !.note = field.note]

\* Every field of a root type is an operation, unless one has its ID already.
AddSchemaRootOperations(model) ==
    LET ofType(kind, name) ==
            LET found == SelectSeq(model.types, LAMBDA t : t.name = name)
            IN IF found = <<>> THEN <<>>
               ELSE [i \in DOMAIN Head(found).fields |-> RootOperation(kind, name, Head(found).fields[i])]
        all == FlattenSeq([i \in 1..3 |->
                   LET kind == <<"query", "mutation", "subscription">>[i]
                   IN ofType(kind, RootName(model.schema, kind))])
        add(operations, o) ==
            IF \E i \in DOMAIN operations : operations[i].id = o.id THEN operations
            ELSE Append(operations, o)
    IN [model EXCEPT !.operations = FoldLeft(add, model.operations, all)]

SortModel(model) ==
    [model EXCEPT !.types = SortedBy(model.types, LAMBDA t : <<t.name>>),
                  !.operations = SortedBy(model.operations, LAMBDA o : o.id)]

ParseText(tokens) ==
    LET end == While(Cursor(tokens, [note |-> "", schema |-> NoSchema, types |-> <<>>, operations |-> <<>>]),
                     LAMBDA p : TRUE, Definition)
        model == [failed |-> FALSE, schema |-> end.out.schema, types |-> CompactTypes(end.out.types),
                  operations |-> CompactOperations(end.out.operations)]
    IN IF \/ tokens = <<>> \/ end.failed
          \/ ~WithinLimits(tokens, {"{", "[", "("}, {"}", "]", ")"}, MaxWorkItems, MaxNestingDepth)
          \/ model.types = <<>> /\ model.operations = <<>>
       THEN Failure ELSE SortModel(AddSchemaRootOperations(model))

(***************************************************************************)
(* Introspection: a type reference is [kind, name, of], of a type or None. *)
(***************************************************************************)
RECURSIVE TypeRefFromJSON(_)
TypeRefFromJSON(json) ==
    IF json = <<>> THEN Untyped
    ELSE LET inner == TypeRefFromJSON(json.of) IN
         [name |-> json.name, required |-> json.kind = "NON_NULL",
          display |-> CASE json.kind = "NON_NULL" -> inner.display \o <<"!">>
                        [] json.kind = "LIST" -> <<"[">> \o inner.display \o <<"]">>
                        [] json.name # "" /\ json.kind \notin {"NON_NULL", "LIST"} -> <<json.name>>
                        [] OTHER -> inner.display]

ArgumentFromJSON(json) ==
    [name |-> json.name, note |-> json.note, type |-> TypeRefFromJSON(json.type), value |-> json.value]
FieldFromJSON(json) ==
    LET args == SelectSeq(json.args, LAMBDA a : a.name # "")
    IN [name |-> json.name, note |-> json.note, type |-> TypeRefFromJSON(json.type),
        args |-> [i \in DOMAIN args |-> ArgumentFromJSON(args[i])]]
TypeFromJSON(json) ==
    LET named(items) == SelectSeq(items, LAMBDA f : f.name # "")
    IN [Type(json.name, json.kind, json.note) EXCEPT
           !.fields = [i \in DOMAIN named(json.fields) |-> FieldFromJSON(named(json.fields)[i])],
           !.inputs = [i \in DOMAIN named(json.inputs) |-> ArgumentFromJSON(named(json.inputs)[i])],
           !.values = named(json.values)]

\* A type without a name, or with one that was there, is passed over.
ParseIntrospection(json) ==
    LET kept == FoldLeft(LAMBDA types, t :
            IF t.name = "" \/ \E i \in DOMAIN types : types[i].name = t.name THEN types
            ELSE Append(types, t), <<>>, [i \in DOMAIN json.types |-> TypeFromJSON(json.types[i])])
    IN SortModel(AddSchemaRootOperations(
           [failed |-> FALSE, schema |-> json.schema, types |-> kept, operations |-> <<>>]))

(***************************************************************************)
(* Selectors.                                                              *)
(***************************************************************************)
Selector(o) == IF o.root = "" THEN <<"#/operations/", o.id>> ELSE <<"#/schema/", o.root, o.name>>
Aliases(o) == {o.id, <<o.name>>, <<"operation:", o.id>>, Selector(o)}

\* The first operation that has the alias, in the order of the IDs.
Unresolved == NoOperation
ResolveSelector(model, alias) ==
    LET found == SelectSeq(model.operations, LAMBDA o : alias \in Aliases(o))
    IN IF found = <<>> THEN Unresolved ELSE Head(found)

\* What a summary tells of an operation.
Summary(o) ==
    [id |-> o.id, kind |-> o.kind, name |-> o.name, selector |-> Selector(o), note |-> o.note,
     type |-> o.type.display, root |-> o.root, selected |-> o.selected,
     variables |-> [i \in DOMAIN o.variables |->
         [name |-> o.variables[i].name, type |-> o.variables[i].type.display, value |-> o.variables[i].value]]]
OperationSummaries(model) == [i \in DOMAIN model.operations |-> Summary(model.operations[i])]
====
