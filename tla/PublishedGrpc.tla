---- MODULE PublishedGrpc ----
(***************************************************************************)
(* gRPC services, and the files that describe them: a .proto text, JSON of *)
(* descriptors with names or with numbers, or a FileDescriptorSet.         *)
(***************************************************************************)
EXTENDS GrpcProto

(***************************************************************************)
(* A file in the shape of GrpcProto; a field has a label and the name of a *)
(* scalar, "message" or "enum", with the full name of its type.            *)
(***************************************************************************)
Scalar(name, number, label, type) ==
    [name |-> name, number |-> number, label |-> label, type |-> type, typeName |-> <<>>]
Typed(name, number, label, type, full) == [Scalar(name, number, label, type) EXCEPT !.typeName = full]
Msg(name, fields, messages, enums) == [NewMessage(name, <<>>) EXCEPT !.fields = fields, !.messages = messages, !.enums = enums]
Rpc(name, request, response, cs, ss) ==
    [NewMethod(name, <<>>, <<>>) EXCEPT !.request = request, !.response = response, !.clientStreaming = cs, !.serverStreaming = ss]
Svc(name, methods) == [NewService(name, <<>>) EXCEPT !.methods = methods]
Color == [name |-> "Color", values |-> <<[name |-> "a", number |-> 0], [name |-> "b", number |-> 1]>>]

\* B is asked for, and may hold a message with an enum; A may hold Bs.
File(package, nested, streams, enums, filled) ==
    LET inner == Msg("C", <<Typed("a", 1, "optional", "enum", package \o <<"B", "C", "Color">>)>>, <<>>, <<Color>>)
        b == Msg("B", <<Scalar("a_b", 1, "repeated", "string")>>, <<>>, <<>>)
        holder == [b EXCEPT !.messages = <<inner>>,
                            !.fields = Append(@, Typed("b", 2, "optional", "message", package \o <<"B", "C">>))]
        a == Msg("A", <<Scalar("service", 2, "optional", "int32"),
                        Typed("message", 1, "repeated", "message", package \o <<"B">>)>>, <<>>, <<>>)
        A == package \o <<"A">>
        B == package \o <<"B">>
        s == Svc("S", <<Rpc("B", B, A, FALSE, streams), Rpc("A", A, A, streams, TRUE)>>)
    IN [name |-> "f", package |-> package, imports |-> <<"g">>, syntax |-> "proto3", enums |-> enums,
        messages |-> <<IF nested THEN holder ELSE b, IF filled THEN a ELSE [a EXCEPT !.fields = <<>>]>>,
        services |-> IF streams THEN <<s, Svc("A", <<Rpc("A", B, B, FALSE, FALSE)>>)>> ELSE <<s>>]
PlainServices ==
    {File(package, nested, streams, enums, filled) :
        package \in {<<>>, <<"p", "q">>}, enums \in {<<>>, <<Color>>}, nested, streams, filled \in BOOLEAN}
\* A message within another has the short name of the one that is asked for.
\* Asked for by the short name alone, the code takes the first of that name,
\* which is the wrong one here (grpcproto/selectors.go:136-157).
ShadowedServices ==
    {[name |-> "f", package |-> <<"p", "q">>, imports |-> <<>>, syntax |-> "proto3", enums |-> <<>>,
      messages |-> <<Msg("B", <<>>, <<Msg("A", <<Scalar("a", 1, "optional", "string")>>, <<>>, <<>>)>>, <<>>), Msg("A", fields, <<>>, <<>>)>>,
      services |-> <<Svc("S", <<Rpc("A", <<"p", "q", "A">>, <<"p", "q", "A">>, FALSE, FALSE)>>)>>] :
        fields \in {<<>>, <<Scalar("service", 2, "optional", "int32")>>}}
Services == PlainServices \cup ShadowedServices

(***************************************************************************)
(* Text.  Names of types are full, or, if the form is "relative", short.   *)
(***************************************************************************)
Join(items, Of(_)) == FlattenSeq([i \in DOMAIN items |-> Of(items[i])])
Dotted(name) == Join(name, LAMBDA n : <<Word(n), Mark(".")>>)
NameTokens(name, form) ==
    IF form = "relative" THEN <<Word(Last(name))>>
    ELSE <<Mark(".")>> \o Dotted(Front(name)) \o <<Word(Last(name))>>
OptionTokens == <<Word("option"), Word("a"), Mark("="), Mark("{"), Word("b"), Mark(":"), Text("x"), Mark("}")>>
FieldText(f, form) ==
    <<Word(f.label)>> \o (IF f.typeName = <<>> THEN <<Word(f.type)>> ELSE NameTokens(f.typeName, form))
    \o <<Word(f.name), Mark("="), Number(f.number), Mark("["), Word("a"), Mark("="), Word("b"), Mark("]"), Mark(";")>>
EnumText(e) ==
    <<Word("enum"), Word(e.name), Mark("{")>> \o Join(e.values, LAMBDA v : <<Word(v.name), Mark("="), Number(v.number), Mark(";")>>)
    \o <<Mark("}")>>
RECURSIVE MessageText(_, _)
MessageText(m, form) ==
    <<Word("message"), Word(m.name), Mark("{")>> \o Join(m.messages, LAMBDA n : MessageText(n, form)) \o Join(m.enums, EnumText)
    \o Join(m.fields, LAMBDA f : FieldText(f, form)) \o <<Word("reserved"), Number(9), Mark(";"), Mark("}")>>
RPCTypeText(type, stream, form) ==
    <<Mark("(")>> \o (IF stream THEN <<Word("stream")>> ELSE <<>>) \o NameTokens(type, form) \o <<Mark(")")>>
ServiceText(s, form) ==
    <<Word("service"), Word(s.name), Mark("{")>> \o OptionTokens \o
    Join(s.methods, LAMBDA m : <<Word("rpc"), Word(m.name)>> \o RPCTypeText(m.request, m.clientStreaming, form)
        \o <<Word("returns")>> \o RPCTypeText(m.response, m.serverStreaming, form) \o <<Mark("{")>> \o OptionTokens \o <<Mark("}")>>)
    \o <<Mark("}")>>
FileText(f, form) ==
    <<Word("syntax"), Mark("="), Text(f.syntax), Mark(";")>>
    \o (IF f.package = <<>> THEN <<>> ELSE <<Word("package")>> \o Dotted(Front(f.package)) \o <<Word(Last(f.package)), Mark(";")>>)
    \o Join(f.imports, LAMBDA i : <<Word("import"), Text(i), Mark(";")>>)
    \o Join(f.services, LAMBDA s : ServiceText(s, form)) \o Join(f.messages, LAMBDA m : MessageText(m, form)) \o Join(f.enums, EnumText)

(***************************************************************************)
(* Descriptors.                                                            *)
(***************************************************************************)
NumberOf(names, name) == CHOOSE n \in DOMAIN names : names[n] = name
FieldJSON(f, form) ==
    [name |-> f.name, number |-> f.number, typeName |-> f.typeName, json |-> "",
     label |-> IF form = "names" THEN [name |-> f.label] ELSE [number |-> NumberOf(LabelNames, f.label)],
     type |-> IF form = "names" THEN [name |-> f.type] ELSE [number |-> NumberOf(TypeNames, f.type)]]
RECURSIVE MessageJSON(_, _)
MessageJSON(m, form) ==
    [m EXCEPT !.fields = [i \in DOMAIN m.fields |-> FieldJSON(m.fields[i], form)],
              !.messages = [i \in DOMAIN m.messages |-> MessageJSON(m.messages[i], form)]]
FileJSON(f, form) == [f EXCEPT !.messages = [i \in DOMAIN f.messages |-> MessageJSON(f.messages[i], form)]]

Wire(number, type, value) == [number |-> number, type |-> type, value |-> value, cut |-> FALSE]
Bytes(number, value) == Wire(number, Delimited, value)
Unknown == Wire(99, 5, 0)
FieldWire(f) ==
    <<Bytes(1, f.name), Wire(3, Varint, f.number), Wire(4, Varint, NumberOf(LabelNames, f.label)),
      Wire(5, Varint, NumberOf(TypeNames, f.type)), Bytes(6, f.typeName), Unknown, Bytes(10, LowerCamel(f.name))>>
EnumWire(e) == <<Bytes(1, e.name)>> \o [i \in DOMAIN e.values |-> Bytes(2, <<Bytes(1, e.values[i].name), Wire(2, Varint, e.values[i].number)>>)]
RECURSIVE MessageWire(_)
MessageWire(m) ==
    <<Bytes(1, m.name)>> \o [i \in DOMAIN m.fields |-> Bytes(2, FieldWire(m.fields[i]))]
    \o [i \in DOMAIN m.messages |-> Bytes(3, MessageWire(m.messages[i]))]
    \o [i \in DOMAIN m.enums |-> Bytes(4, EnumWire(m.enums[i]))]
Flag(b) == IF b THEN 1 ELSE 0
MethodWire(m) ==
    <<Bytes(1, m.name), Bytes(2, m.request), Bytes(3, m.response), Bytes(4, <<>>), Wire(5, Varint, Flag(m.clientStreaming)),
      Wire(6, Varint, Flag(m.serverStreaming))>>
ServiceWire(s) == <<Bytes(1, s.name)>> \o [i \in DOMAIN s.methods |-> Bytes(2, MethodWire(s.methods[i]))]
FileWire(f) ==
    <<Bytes(1, f.name)>> \o (IF f.package = <<>> THEN <<>> ELSE <<Bytes(2, f.package)>>)
    \o [i \in DOMAIN f.imports |-> Bytes(3, f.imports[i])] \o [i \in DOMAIN f.messages |-> Bytes(4, MessageWire(f.messages[i]))]
    \o [i \in DOMAIN f.enums |-> Bytes(5, EnumWire(f.enums[i]))] \o [i \in DOMAIN f.services |-> Bytes(6, ServiceWire(f.services[i]))]
    \o <<Unknown, Bytes(12, f.syntax)>>

Forms(service) ==
    {"text", "names", "numbers", "wire"} \cup IF service \in ShadowedServices THEN {} ELSE {"relative"}
Read(service, form) ==
    CASE form \in {"text", "relative"} -> ParseText(FileText(service, form))
      [] form \in {"names", "numbers"} -> ParseDescriptorJSON(<<FileJSON(service, form)>>)
      [] form = "wire" -> ParseDescriptorSet(<<Bytes(1, FileWire(service))>>)

(***************************************************************************)
(* What the summaries have to tell: the methods, and the fields of the     *)
(* requests by the last name of their types.                               *)
(***************************************************************************)
Told(service, m, fields) ==
    [id |-> <<service, m.name>>, request |-> Last(m.request), response |-> Last(m.response),
     clientStreaming |-> m.clientStreaming, serverStreaming |-> m.serverStreaming, fields |-> fields]
ToldField(f, type, json) == [name |-> f.name, number |-> f.number, label |-> f.label, type |-> type, json |-> json]
Promised(service) ==
    UNION {{Told(Append(service.package, s.name), m,
                 LET message == service.messages[CHOOSE i \in DOMAIN service.messages : service.messages[i].name = Last(m.request)]
                 IN [i \in DOMAIN message.fields |->
                        LET f == message.fields[i]
                        IN ToldField(f, IF f.typeName = <<>> THEN f.type ELSE Last(f.typeName), LowerCamel(f.name))]) :
            m \in {s.methods[i] : i \in DOMAIN s.methods}} : s \in {service.services[i] : i \in DOMAIN service.services}}
Preserved(service, model) ==
    LET s == MethodSummaries(model)
    IN Promised(service) =
       {Told(s[i].id[1], [s[i] EXCEPT !.id = <<>>] @@ [name |-> s[i].id[2]],
             [n \in DOMAIN s[i].fields |->
                 LET f == s[i].fields[n] IN ToldField(f, IF f.typeName = <<>> THEN Last(f.type) ELSE Last(f.typeName), f.json)]) :
           i \in DOMAIN s}
Resolves(model) ==
    LET m == Methods(model)
    IN \A i \in DOMAIN m :
           /\ \A j \in DOMAIN m : ID(m[j]) = ID(m[i]) => i = j
           /\ \A alias \in Aliases(m[i]) : ResolveSelector(model, alias)[1] = m[i]
====
