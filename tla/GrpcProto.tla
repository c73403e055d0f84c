---- MODULE GrpcProto ----
(***************************************************************************)
(* grpcproto: a .proto file, the JSON of descriptors or the wire form of a *)
(* FileDescriptorSet, reduced to methods with selectors and the fields of  *)
(* their requests (parse.go, wire.go, selectors.go).                       *)
(*                                                                         *)
(* A dotted name is the tuple of its parts.  What may be missing is a      *)
(* sequence of at most one element.  A file [name, package, imports,       *)
(* syntax, services, messages, enums] has services [name, package, full,   *)
(* methods], messages [name, full, fields, messages, enums] and enums      *)
(* [name, full, values].                                                   *)
(***************************************************************************)
EXTENDS Tokens, Sorting, FiniteSets, SequencesExt

CONSTANTS
    MaxNestingDepth, MaxWorkItems, MaxDescriptorDepth,
    Capitalized,        \* the names that begin with a capital letter
    CamelCase           \* what lowerCamel makes of the names it changes

Failure == [failed |-> TRUE, files |-> <<>>]
LowerCamel(name) == IF name \in DOMAIN CamelCase THEN CamelCase[name] ELSE name

EmptyFile == [name |-> "", package |-> <<>>, imports |-> <<>>, syntax |-> "",
              services |-> <<>>, messages |-> <<>>, enums |-> <<>>]
NewService(name, package) ==
    [name |-> name, package |-> package, full |-> Append(package, name), methods |-> <<>>]
NewMethod(name, service, package) ==
    [name |-> name, service |-> service, package |-> package, request |-> <<>>, response |-> <<>>,
     clientStreaming |-> FALSE, serverStreaming |-> FALSE]
NewMessage(name, full) == [name |-> name, full |-> full, fields |-> <<>>, messages |-> <<>>, enums |-> <<>>]
NewField(name) == [name |-> name, number |-> 0, label |-> "", type |-> <<>>, typeName |-> <<>>, json |-> ""]

(***************************************************************************)
(* The text of a .proto file.                                              *)
(***************************************************************************)
\* A leading dot is dropped with the normalization of the name.
QualifiedName(s) ==
    LET turn(p) ==
            IF NameAt(p) = "" THEN [p EXCEPT !.out.more = FALSE]
            ELSE LET named == PastName(p) IN
                 [Past(named, ".") EXCEPT !.out = [parts |-> Append(p.out.parts, NameAt(p)), more |-> At(named, ".")]]
        end == While([Past(s, ".") EXCEPT !.out = [parts |-> <<>>, more |-> TRUE]], LAMBDA p : p.out.more, turn)
    IN [end EXCEPT !.out = end.out.parts]

\* Up to a semicolon, or over a block; a closing brace is an error.
SkipStatement(s) ==
    LET end == While(s, LAMBDA p : ~AtAny(p, {";", "{", "}"}), Advance)
    IN CASE At(end, ";") -> Advance(end)
         [] At(end, "{") -> SkipBalanced(end, "{", "}")
         [] At(end, "}") -> [Advance(end) EXCEPT !.failed = TRUE]
         [] OTHER -> end

Field(s) ==
    LET labelled == AtAny(s, {"optional", "required", "repeated"})
        start == IF labelled THEN Advance(s) ELSE s
        typed == IF At(start, "map") THEN [SkipBalanced(Advance(start), "<", ">") EXCEPT !.out = <<"map">>]
                 ELSE QualifiedName(start)
        type == typed.out
        numbered == Past(PastName(typed), "=")
        end == SkipStatement(SkipBalanced(Advance(numbered), "[", "]"))
        missing(p) == [p EXCEPT !.out = <<>>]
    IN CASE type = <<>> -> missing(typed)
         [] type # <<>> /\ (NameAt(typed) = "" \/ ~At(PastName(typed), "=")) -> missing(PastName(typed))
         [] type # <<>> /\ NameAt(typed) # "" /\ At(PastName(typed), "=")
                 /\ ~AtKind(numbered, "number") /\ ~AtKind(numbered, "name") -> missing(Advance(numbered))
         [] OTHER -> [end EXCEPT !.out = <<
                [NewField(NameAt(typed)) EXCEPT
                    !.number = IF AtKind(numbered, "number") THEN Head(numbered.rest).number ELSE 0,
                    !.label = IF labelled THEN Head(s.rest).value ELSE "",
                    !.type = type,
                    !.typeName = IF Len(type) > 1 \/ type[1] \in Capitalized THEN type ELSE <<>>]>>]

\* What is no field is skipped as a statement.
FieldOrSkip(s, fields) ==
    LET field == Field(s)
    IN IF field.out = <<>> THEN [SkipStatement(field) EXCEPT !.out = fields]
       ELSE [field EXCEPT !.out = fields \o field.out]
OneofFields(s) ==
    LET named == PastName(s)
        turn(p) == IF At(p, "option") THEN SkipStatement(p) ELSE FieldOrSkip(p, p.out)
    IN IF At(named, "{") THEN Items([Advance(named) EXCEPT !.out = <<>>], "}", turn)
       ELSE [named EXCEPT !.out = <<>>]

Enum(s, package, parent) ==
    LET name == NameAt(s)
        enum == [name |-> name, full |-> package \o Append(parent, name), values |-> <<>>]
        turn(p) ==
            LET named == PastName(p) numbered == Past(named, "=") IN
            CASE AtAny(p, {"option", "reserved"}) -> SkipStatement(p)
              [] ~AtAny(p, {"option", "reserved"}) /\ ~(NameAt(p) # "" /\ At(named, "=")) -> SkipStatement(named)
              [] OTHER -> [SkipStatement(Advance(numbered)) EXCEPT !.out.values =
                               Append(p.out.values, [name |-> NameAt(p),
                                   number |-> IF AtKind(numbered, "number") THEN Head(numbered.rest).number ELSE 0])]
        end == Items([Advance(PastName(s)) EXCEPT !.out = enum], "}", turn)
    IN CASE name = "" -> [s EXCEPT !.out = <<>>]
         [] name # "" /\ ~At(PastName(s), "{") -> [PastName(s) EXCEPT !.out = <<enum>>]
         [] OTHER -> [end EXCEPT !.out = <<end.out>>]

RECURSIVE Message(_, _, _, _)
Message(s, package, parent, depth) ==
    LET name == NameAt(s)
        path == Append(parent, name)
        message == NewMessage(name, package \o path)
        turn(p) ==
            LET nested == Message(Advance(p), package, path, depth + 1)
                enum == Enum(Advance(p), package, path)
                oneof == OneofFields(Advance(p))
                field == FieldOrSkip(p, p.out.fields)
            IN CASE At(p, "message") -> [nested EXCEPT !.out = [p.out EXCEPT !.messages = @ \o nested.out]]
                 [] At(p, "enum") -> [enum EXCEPT !.out = [p.out EXCEPT !.enums = @ \o enum.out]]
                 [] AtAny(p, {"reserved", "extensions", "option"}) -> SkipStatement(p)
                 [] At(p, "oneof") -> [oneof EXCEPT !.out = [p.out EXCEPT !.fields = @ \o oneof.out]]
                 [] OTHER -> [field EXCEPT !.out = [p.out EXCEPT !.fields = field.out]]
        end == Items([Advance(PastName(s)) EXCEPT !.out = message], "}", turn)
    IN CASE depth >= MaxNestingDepth -> [s EXCEPT !.failed = TRUE, !.out = <<>>]
         [] depth < MaxNestingDepth /\ name = "" -> [s EXCEPT !.out = <<>>]
         [] depth < MaxNestingDepth /\ name # "" /\ ~At(PastName(s), "{") -> [PastName(s) EXCEPT !.out = <<message>>]
         [] OTHER -> [end EXCEPT !.out = <<end.out>>]

\* ( stream? type )
RPCType(s) ==
    LET named == QualifiedName(Past(Advance(s), "stream"))
    IN IF At(s, "(") THEN [Past(named, ")") EXCEPT !.out = [stream |-> At(Advance(s), "stream"), type |-> named.out]]
       ELSE [s EXCEPT !.out = [stream |-> FALSE, type |-> <<>>]]
RPC(s, service) ==
    LET request == RPCType(PastName(s))
        response == IF At(request, "returns") THEN RPCType(Advance(request))
                    ELSE [request EXCEPT !.out = [stream |-> FALSE, type |-> <<>>]]
    IN IF NameAt(s) = "" THEN [SkipStatement(s) EXCEPT !.out = <<>>]
       ELSE [SkipStatement(response) EXCEPT !.out = <<
               [NewMethod(NameAt(s), service.full, service.package) EXCEPT
                   !.request = request.out.type, !.clientStreaming = request.out.stream,
                   !.response = response.out.type, !.serverStreaming = response.out.stream]>>]
Service(s, package) ==
    LET service == NewService(NameAt(s), package)
        turn(p) ==
            IF At(p, "rpc")
            THEN LET rpc == RPC(Advance(p), p.out) IN
                 [rpc EXCEPT !.out = [p.out EXCEPT !.methods = @ \o rpc.out]]
            ELSE SkipStatement(p)
        end == Items([Advance(PastName(s)) EXCEPT !.out = service], "}", turn)
    IN CASE NameAt(s) = "" -> [s EXCEPT !.out = <<>>]
         [] NameAt(s) # "" /\ ~At(PastName(s), "{") -> [PastName(s) EXCEPT !.out = <<service>>]
         [] OTHER -> [end EXCEPT !.out = <<end.out>>]

\* One statement of a file: names take the package that was read by then.
FileStatement(p) ==
    LET s == Advance(p)
        keep(q, file) == [q EXCEPT !.out = file]
        package == QualifiedName(s)
        import == IF AtAny(s, {"public", "weak"}) THEN Advance(s) ELSE s
        message == Message(s, p.out.package, <<>>, 0)
        enum == Enum(s, p.out.package, <<>>)
        service == Service(s, p.out.package)
    IN CASE At(p, "syntax") ->
               keep(SkipStatement(s), [p.out EXCEPT !.syntax =
                   IF At(s, "=") /\ AtKind(Advance(s), "string") THEN Head(Advance(s).rest).value ELSE @])
         [] At(p, "package") -> keep(SkipStatement(package), [p.out EXCEPT !.package = package.out])
         [] At(p, "import") ->
               keep(SkipStatement(import), [p.out EXCEPT !.imports =
                   IF AtKind(import, "string") THEN Append(@, Head(import.rest).value) ELSE @])
         [] At(p, "message") -> keep(message, [p.out EXCEPT !.messages = @ \o message.out])
         [] At(p, "enum") -> keep(enum, [p.out EXCEPT !.enums = @ \o enum.out])
         [] At(p, "service") -> keep(service, [p.out EXCEPT !.services = @ \o service.out])
         [] OTHER -> SkipStatement(p)

HasMetadata(file) == file.services # <<>> \/ file.messages # <<>> \/ file.enums # <<>>

(***************************************************************************)
(* What the three forms have in common: names of methods, and the order.   *)
(***************************************************************************)
RECURSIVE FinalMessage(_)
FinalMessage(m) ==
    [m EXCEPT !.fields = [i \in DOMAIN m.fields |->
                  IF m.fields[i].json = "" THEN [m.fields[i] EXCEPT !.json = LowerCamel(m.fields[i].name)] ELSE m.fields[i]],
              !.messages = [i \in DOMAIN m.messages |-> FinalMessage(m.messages[i])]]
FinalService(service, file) ==
    LET package == IF service.package = <<>> THEN file.package ELSE service.package
    IN [service EXCEPT !.package = package, !.methods = [i \in DOMAIN service.methods |->
           [service.methods[i] EXCEPT !.service = service.full,
               !.package = IF service.methods[i].package = <<>> THEN package ELSE @]]]
FinalizeModel(files) ==
    LET finalFile(f) ==
            [f EXCEPT
                !.services = SortedBy([i \in DOMAIN f.services |-> FinalService(f.services[i], f)], LAMBDA x : x.full),
                !.messages = SortedBy([i \in DOMAIN f.messages |-> FinalMessage(f.messages[i])], LAMBDA x : x.full)]
    IN [failed |-> FALSE, files |-> SortedBy([i \in DOMAIN files |-> finalFile(files[i])], LAMBDA f : <<f.name>>)]

ParseText(tokens) ==
    LET end == While(Cursor(tokens, EmptyFile), LAMBDA p : TRUE, FileStatement)
    IN IF \/ tokens = <<>> \/ end.failed \/ ~HasMetadata(end.out)
          \/ ~WithinLimits(tokens, {"{", "[", "(", "<"}, {"}", "]", ")", ">"}, MaxWorkItems, MaxNestingDepth)
       THEN Failure ELSE FinalizeModel(<<end.out>>)

(***************************************************************************)
(* The numbers of labels and types in descriptors.                         *)
(***************************************************************************)
LabelNames == <<"optional", "required", "repeated">>
TypeNames == <<"double", "float", "int64", "uint64", "int32", "fixed64", "fixed32", "bool", "string", "group",
               "message", "bytes", "uint32", "enum", "sfixed32", "sfixed64", "sint32", "sint64">>
NameOf(names, n) == IF n \in DOMAIN names THEN names[n] ELSE ""

(***************************************************************************)
(* Descriptors as JSON: what has no name is left out, with all it contains.*)
(* A label or type is [number] or [name], as the writer has it.            *)
(***************************************************************************)
EnumName(names, value) == IF "name" \in DOMAIN value THEN value.name ELSE NameOf(names, value.number)
Named(items) == SelectSeq(items, LAMBDA x : x.name # "")
Each(items, Of(_)) == [i \in DOMAIN Named(items) |-> Of(Named(items)[i])]

FieldFromJSON(f) ==
    [NewField(f.name) EXCEPT !.number = f.number, !.label = EnumName(LabelNames, f.label),
        !.type = <<EnumName(TypeNames, f.type)>>, !.typeName = f.typeName, !.json = f.json]
EnumFromJSON(e, package, parent) ==
    [name |-> e.name, full |-> package \o Append(parent, e.name), values |-> Named(e.values)]
RECURSIVE MessageFromJSON(_, _, _)
MessageFromJSON(m, package, parent) ==
    LET path == Append(parent, m.name)
    IN [NewMessage(m.name, package \o path) EXCEPT
           !.fields = Each(m.fields, FieldFromJSON),
           !.messages = Each(m.messages, LAMBDA n : MessageFromJSON(n, package, path)),
           !.enums = Each(m.enums, LAMBDA e : EnumFromJSON(e, package, path))]
ServiceFromJSON(s, package) ==
    [NewService(s.name, package) EXCEPT !.methods = Each(s.methods, LAMBDA m :
        [NewMethod(m.name, Append(package, s.name), package) EXCEPT !.request = m.request, !.response = m.response,
            !.clientStreaming = m.clientStreaming, !.serverStreaming = m.serverStreaming])]
FileFromJSON(f) ==
    [f EXCEPT !.messages = Each(f.messages, LAMBDA m : MessageFromJSON(m, f.package, <<>>)),
              !.enums = Each(f.enums, LAMBDA e : EnumFromJSON(e, f.package, <<>>)),
              !.services = Each(f.services, LAMBDA s : ServiceFromJSON(s, f.package))]
ParseDescriptorJSON(files) ==
    LET read == [i \in DOMAIN files |-> FileFromJSON(files[i])]
    IN IF \E i \in DOMAIN read : HasMetadata(read[i]) THEN FinalizeModel(read) ELSE Failure

(***************************************************************************)
(* The wire form: a message is the sequence of its fields [number, type,   *)
(* value, cut], where type is the wire type, and cut says that the data    *)
(* ends within the field.  Names are taken as they stand when a field is   *)
(* read, and every field costs one item of the budget.                     *)
(***************************************************************************)
Varint == 0
Delimited == 2
Skippable == {0, 1, 2, 5}

Decode(wire, used, empty, Turn(_, _)) ==
    FoldLeft(LAMBDA s, f :
        CASE s.failed -> s
          [] ~s.failed /\ (s.used + 1 > MaxWorkItems \/ f.cut) -> [s EXCEPT !.failed = TRUE]
          [] OTHER -> Turn([s EXCEPT !.used = s.used + 1], f),
        [failed |-> FALSE, used |-> used, out |-> empty], wire)
\* A field of the wire type that is due for it; any other is an error.
OfType(s, f, type, out) == IF f.type = type THEN [s EXCEPT !.out = out] ELSE [s EXCEPT !.failed = TRUE]
SkipField(s, f) == IF f.type \in Skippable THEN s ELSE [s EXCEPT !.failed = TRUE]
\* A field that holds a message: Read decodes it, Add puts it in.
Inner(s, f, Read(_, _), Add(_, _)) ==
    IF f.type # Delimited THEN [s EXCEPT !.failed = TRUE]
    ELSE LET read == Read(f.value, s.used) IN
         [failed |-> read.failed, used |-> read.used, out |-> IF read.failed THEN s.out ELSE Add(s.out, read.out)]
IfNamed(s) == [s EXCEPT !.out = IF s.out.name = "" THEN <<>> ELSE <<s.out>>]
Joined(parent, name) == IF name = "" THEN parent ELSE Append(parent, name)

FieldFromWire(wire, used) ==
    IfNamed(Decode(wire, used, NewField(""), LAMBDA s, f :
        CASE f.number = 1 -> OfType(s, f, Delimited, [s.out EXCEPT !.name = f.value])
          [] f.number = 3 -> OfType(s, f, Varint, [s.out EXCEPT !.number = f.value])
          [] f.number = 4 -> OfType(s, f, Varint, [s.out EXCEPT !.label = NameOf(LabelNames, f.value)])
          [] f.number = 5 -> OfType(s, f, Varint, [s.out EXCEPT !.type = <<NameOf(TypeNames, f.value)>>])
          [] f.number = 6 -> OfType(s, f, Delimited, [s.out EXCEPT !.typeName = f.value])
          [] f.number = 10 -> OfType(s, f, Delimited, [s.out EXCEPT !.json = f.value])
          [] OTHER -> SkipField(s, f)))
EnumValueFromWire(wire, used) ==
    IfNamed(Decode(wire, used, [name |-> "", number |-> 0], LAMBDA s, f :
        CASE f.number = 1 -> OfType(s, f, Delimited, [s.out EXCEPT !.name = f.value])
          [] f.number = 2 -> OfType(s, f, Varint, [s.out EXCEPT !.number = f.value])
          [] OTHER -> SkipField(s, f)))
EnumFromWire(wire, used, package, parent) ==
    LET s0 == Decode(wire, used, [name |-> "", full |-> <<>>, values |-> <<>>], LAMBDA s, f :
            CASE f.number = 1 -> OfType(s, f, Delimited, [s.out EXCEPT !.name = f.value])
              [] f.number = 2 -> Inner(s, f, EnumValueFromWire, LAMBDA e, v : [e EXCEPT !.values = @ \o v])
              [] OTHER -> SkipField(s, f))
    IN IfNamed([s0 EXCEPT !.out.full = package \o Append(parent, s0.out.name)])

RECURSIVE MessageFromWire(_, _, _, _, _)
MessageFromWire(wire, used, package, parent, depth) ==
    LET s0 == Decode(wire, used, NewMessage("", <<>>), LAMBDA s, f :
            CASE f.number = 1 -> OfType(s, f, Delimited, [s.out EXCEPT !.name = f.value])
              [] f.number = 2 -> Inner(s, f, FieldFromWire, LAMBDA m, x : [m EXCEPT !.fields = @ \o x])
              [] f.number = 3 ->
                    Inner(s, f, LAMBDA w, u : MessageFromWire(w, u, package, Joined(parent, s.out.name), depth + 1),
                          LAMBDA m, x : [m EXCEPT !.messages = @ \o x])
              [] f.number = 4 ->
                    Inner(s, f, LAMBDA w, u : EnumFromWire(w, u, package, Joined(parent, s.out.name)),
                          LAMBDA m, x : [m EXCEPT !.enums = @ \o x])
              [] OTHER -> SkipField(s, f))
    IN IF depth > MaxDescriptorDepth THEN [failed |-> TRUE, used |-> used, out |-> <<>>]
       ELSE IfNamed([s0 EXCEPT !.out.full = package \o Append(parent, s0.out.name)])

MethodFromWire(wire, used, package) ==
    IfNamed(Decode(wire, used, NewMethod("", <<>>, package), LAMBDA s, f :
        CASE f.number = 1 -> OfType(s, f, Delimited, [s.out EXCEPT !.name = f.value])
          [] f.number = 2 -> OfType(s, f, Delimited, [s.out EXCEPT !.request = f.value])
          [] f.number = 3 -> OfType(s, f, Delimited, [s.out EXCEPT !.response = f.value])
          [] f.number = 5 -> OfType(s, f, Varint, [s.out EXCEPT !.clientStreaming = f.value # 0])
          [] f.number = 6 -> OfType(s, f, Varint, [s.out EXCEPT !.serverStreaming = f.value # 0])
          [] OTHER -> SkipField(s, f)))
ServiceFromWire(wire, used, package) ==
    LET s0 == Decode(wire, used, NewService("", package), LAMBDA s, f :
            CASE f.number = 1 -> OfType(s, f, Delimited, [s.out EXCEPT !.name = f.value])
              [] f.number = 2 -> Inner(s, f, LAMBDA w, u : MethodFromWire(w, u, package),
                                       LAMBDA x, m : [x EXCEPT !.methods = @ \o m])
              [] OTHER -> SkipField(s, f))
    IN IfNamed([s0 EXCEPT !.out.full = Append(package, s0.out.name)])

FileFromWire(wire, used) ==
    Decode(wire, used, EmptyFile, LAMBDA s, f :
        CASE f.number = 1 -> OfType(s, f, Delimited, [s.out EXCEPT !.name = f.value])
          [] f.number = 2 -> OfType(s, f, Delimited, [s.out EXCEPT !.package = f.value])
          [] f.number = 3 -> OfType(s, f, Delimited, [s.out EXCEPT !.imports = Append(@, f.value)])
          [] f.number = 4 -> Inner(s, f, LAMBDA w, u : MessageFromWire(w, u, s.out.package, <<>>, 0),
                                   LAMBDA x, m : [x EXCEPT !.messages = @ \o m])
          [] f.number = 5 -> Inner(s, f, LAMBDA w, u : EnumFromWire(w, u, s.out.package, <<>>),
                                   LAMBDA x, e : [x EXCEPT !.enums = @ \o e])
          [] f.number = 6 -> Inner(s, f, LAMBDA w, u : ServiceFromWire(w, u, s.out.package),
                                   LAMBDA x, m : [x EXCEPT !.services = @ \o m])
          [] f.number = 12 -> OfType(s, f, Delimited, [s.out EXCEPT !.syntax = f.value])
          [] OTHER -> SkipField(s, f))
ParseDescriptorSet(wire) ==
    LET s0 == Decode(wire, 0, <<>>, LAMBDA s, f :
            IF f.number = 1 /\ f.type = Delimited
            THEN Inner(s, f, FileFromWire, LAMBDA files, x : Append(files, x))
            ELSE SkipField(s, f))
    IN IF s0.failed \/ ~\E i \in DOMAIN s0.out : HasMetadata(s0.out[i]) THEN Failure
       ELSE FinalizeModel(s0.out)

(***************************************************************************)
(* Methods, their selectors and the fields of their requests.              *)
(***************************************************************************)
RECURSIVE FlattenMessages(_)
FlattenMessages(messages) ==
    FlattenSeq([i \in DOMAIN messages |-> <<messages[i]>> \o FlattenMessages(messages[i].messages)])

\* The first message, outermost first, that has the name in full or in short.
MessageByName(model, name, package) ==
    LET candidates == {name} \cup IF package # <<>> /\ Len(name) = 1 THEN {package \o name} ELSE {}
        all == FlattenSeq([i \in DOMAIN model.files |-> FlattenMessages(model.files[i].messages)])
    IN SelectSeq(all, LAMBDA m : m.full \in candidates \/ <<m.name>> \in candidates)

\* Where a service is, the dot comes before its name and the slash after it.
ID(method) == <<method.service, method.name>>
Methods(model) ==
    FlattenSeq([i \in DOMAIN model.files |->
        FlattenSeq([j \in DOMAIN model.files[i].services |-> model.files[i].services[j].methods])])
MethodSummary(model, m) ==
    LET message == MessageByName(model, m.request, m.package)
    IN [id |-> ID(m), package |-> m.package, request |-> m.request, response |-> m.response,
        clientStreaming |-> m.clientStreaming, serverStreaming |-> m.serverStreaming,
        fields |-> IF message = <<>> THEN <<>> ELSE Head(message).fields]
MethodSummaries(model) ==
    SortedBy([i \in DOMAIN Methods(model) |-> MethodSummary(model, Methods(model)[i])],
             LAMBDA s : s.id[1] \o <<s.id[2]>>)

Aliases(m) ==
    {<<ID(m)>>, <<"/", ID(m)>>, <<"rpc:", ID(m)>>, <<"#/services/", m.service, "/methods/", m.name>>}
ResolveSelector(model, alias) == SelectSeq(Methods(model), LAMBDA m : alias \in Aliases(m))
====
