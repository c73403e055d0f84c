---- MODULE PublishedInventory ----
(***************************************************************************)
(* Documents for an inventory, and what it must tell of them.              *)
(***************************************************************************)
EXTENDS Inventory

(***************************************************************************)
(* One operation with a body.  The schemas A and B refer to each other and *)
(* to themselves; nothing is behind the reference #/lost.  No schema has    *)
(* keywords beside a reference: they replace those of the target, which    *)
(* neither version 3.0 nor 3.1 of OpenAPI says.                            *)
(***************************************************************************)
Leaf == [type |-> "string"]
To(ref) == [ref |-> ref]
Struct(properties, required) == [properties |-> properties, required |-> required]
Shapes(A, B) ==
    {Leaf, To(B), To("remote"), To("#/lost"), To(A),
     Struct([p |-> To(B), q |-> Leaf], {"p"}), Struct([p |-> Leaf, token |-> Leaf], {"p", "token"}),
     Struct([q |-> Struct([p |-> To(B)], {"p"})], {"q"}), Struct([id |-> To("remote"), p |-> To(A)], {"id"}),
     [items |-> To(B)], [items |-> Struct([q |-> To(B)], {"q"})],
     [allOf |-> <<To(B), Struct([q |-> Leaf], {"p", "q"})>>],
     [allOf |-> <<Struct([p |-> Struct([q |-> Leaf], {})], {}), Struct([p |-> Struct([id |-> Leaf], {"id"})], {"p"})>>],
     [oneOf |-> <<Struct([p |-> To(B)], {"p"}), To(B)>>],
     [anyOf |-> <<Struct([p |-> Leaf], {"p"})>>, properties |-> [q |-> To(B)], required |-> {"q"}]}
Operation(id, score) == [operationId |-> id, score |-> score]
Bundle(components, paths) == [components |-> components, paths |-> paths, schemes |-> <<>>]
OpenAPI(path, root) ==
    [kind |-> "openapi", path |-> path, name |-> path, fault |-> "", unsafe |-> FALSE, root |-> root, operations |-> <<>>]
WithBody(components, body, response) ==
    LET operation == [operationId |-> "a", requestBody |-> body, responses |-> response]
    IN [asked |-> "schema", limit |-> 0, max |-> 1,
        documents |-> <<OpenAPI("p", Bundle(components, [x |-> [post |-> operation]]))>>]
Json(schema) == [json |-> schema]
Inline(schema, required) == [content |-> Json(schema), required |-> required]
SchemaServices ==
    {WithBody(("#/A" :> a) @@ ("#/B" :> b), body, <<>>) :
        a \in Shapes("#/A", "#/B"), b \in Shapes("#/B", "#/A"),
        body \in {Inline(To("#/A"), TRUE), Inline([allOf |-> <<To("#/A"), To("#/B")>>], TRUE),
                  Inline(To("#/A"), FALSE), Inline(Struct([p |-> To("#/A")], {"p"}), TRUE)}}
    \cup {WithBody(("#/A" :> a) @@ ("#/response" :> r), To("#/lost"), s @@ ("201" :> To("#/response"))) :
             a \in Shapes("#/A", "#/A"),
             r \in {[schema |-> To("#/A")], [content |-> [text |-> To("#/lost"), json |-> To("#/A")]], To("remote")},
             s \in {<<>>, "404" :> [schema |-> Leaf], "200" :> [description |-> "none"], "200" :> [content |-> [xml |-> <<>>]]}}

(***************************************************************************)
(* Lists of documents.                                                     *)
(***************************************************************************)
Bearer == [NoScheme EXCEPT !.type = "http", !.scheme = "bearer"]
Keyed == [NoScheme EXCEPT !.type = "apiKey", !.in = "header", !.parameter = "Authorization"]
Schemes == [b |-> Bearer, B |-> Bearer, hmac |-> Keyed, q |-> [NoScheme EXCEPT !.type = "oauth2", !.google = TRUE]]
Said ==
    {<<>>, [security |-> <<>>], [security |-> << <<>>, [hmac |-> {}] >>],
     [security |-> <<[b |-> {}, B |-> {}], [hmac |-> {}, q |-> {"s"}], [undeclared |-> {}]>>]}
Body4(path, item, secured) ==
    OpenAPI(path, [Bundle("#/Item" :> [get |-> Operation("a", 1)], [x |-> item, y |-> To("#/Item")])
                       EXCEPT !.schemes = Schemes] @@ secured)
Parameters == <<[name |-> "q", in |-> "query"], [ref |-> "#/lost"], [name |-> "p", in |-> "body", schema |-> To("remote")]>>
Items ==
    {[post |-> Operation("", 0) @@ s, get |-> Operation("b", 0)] : s \in Said} \cup {To("#/lost")}
    \cup {[put |-> [parameters |-> Parameters] @@ Operation("c", 2), parameters |-> <<Head(Parameters)>>]}
OpenAPIs(path) ==
    {Body4(path, i, r) : i \in Items, r \in Said}
    \cup {[Body4(path, To("#/lost"), <<>>) EXCEPT !.fault = f] : f \in {"read", "parse"}}
Member(name, location, required) == [name |-> name, location |-> location, required |-> required]
Smithy(id) ==
    [id |-> id, method |-> "post", path |-> "x", score |-> 0,
     members |-> <<Member("q", "header", TRUE), Member("p", "", FALSE), Member("b", "payload", TRUE)>>]
Discovery(id) ==
    [id |-> id, method |-> "get", path |-> "x", score |-> 1, parameters |-> <<>>, request |-> "A", response |-> "A",
     scopes |-> {"s"}]
DiscoverySchema == Struct([id |-> Leaf, p |-> [annotated |-> {"a"}], q |-> To("B")], {"id"})
Native(kind, path, operations) ==
    [kind |-> kind, path |-> path, name |-> path, fault |-> "", unsafe |-> FALSE,
     root |-> Bundle([A |-> DiscoverySchema], <<>>), operations |-> operations]
Natives(path) ==
    {Native("smithy", path, l) : l \in {<<Smithy("a"), Smithy("b")>>, <<Smithy(""), Smithy("b")>>}}
    \cup {Native("google", path, <<Discovery("a")>>)}
    \cup {[Native("grpc", path, <<Smithy("a"), Smithy("b")>>) EXCEPT !.fault = f] : f \in {"", "read", "parse"}}
    \cup {Native("wsdl", path, <<Smithy("a")>>)}
\* Documents whose texts do not fit into a prompt.
Long(path) ==
    {[Body4(path, [post |-> Operation("", 0), get |-> [form |-> f] @@ Operation("b", 0)], <<>>) EXCEPT !.unsafe = u] :
        f \in {"whole", "safe", "minimal"}, u \in BOOLEAN}
LongNatives(path) ==
    {[Native(k, path, <<Smithy("a"), [form |-> f] @@ Smithy("b")>>) EXCEPT !.unsafe = u] :
        k \in {"smithy", "grpc"}, f \in {"safe", "minimal"}, u \in BOOLEAN}
Documents(kinds) == {<<>>} \cup {<<d>> : d \in kinds["p"]} \cup {<<d, e>> : d \in kinds["p"], e \in kinds["q"]}
Few(path) ==
    {Body4(path, [post |-> Operation("", 0), get |-> Operation("b", 0)], s) : s \in {<<>>, [security |-> <<[b |-> {}]>>]}}
Listings ==
    {[asked |-> "openapi", limit |-> l, max |-> m, documents |-> d] :
        l \in {0, 1}, m \in {1, 2, 3, 4, 9}, d \in Documents([p |-> OpenAPIs("p") \cup Long("p"), q |-> Few("q")])}
    \cup {[asked |-> "sources", limit |-> 0, max |-> m, documents |-> d] : m \in {1, 2, 3, 4, 9},
             d \in Documents([p |-> Natives("p") \cup LongNatives("p") \cup OpenAPIs("p") \cup Long("p"),
                              q |-> Natives("q") \cup Few("q")])}
Services == SchemaServices \cup Listings

Build(service, documents) ==
    IF service.asked = "sources" THEN BuildAPISourceOperationInventory(documents, service.max)
    ELSE BuildOperationInventory(documents, service.limit, service.max)
\* The inventory of the documents, and of them the other way round.
Read(service) ==
    [inventory |-> Build(service, service.documents), backward |-> Build(service, Reverse(service.documents))]

(***************************************************************************)
(* The fields by their definition.  A schema stands for itself, for what   *)
(* its reference names and for its branches; of these, those in all are    *)
(* the ones that hold of every value.                                      *)
(***************************************************************************)
RECURSIVE Views(_, _, _, _)
Views(root, schema, keywords, seen) ==
    LET ref == Get(schema, "ref", "")
        branches == UNION {ToSet(Object(schema, k)) : k \in keywords}
    IN {schema} \cup UNION {Views(root, b, keywords, seen) : b \in branches}
       \cup IF ref \in seen \/ IsEmpty(LocalObject(root, schema)) THEN {}
            ELSE Views(root, LocalObject(root, schema), keywords, seen \cup {ref})
AllViews(root, schemas) == UNION {Views(root, s, {"allOf", "oneOf", "anyOf"}, {}) : s \in schemas}
Sure(root, schema) == UNION {Get(v, "required", {}) : v \in Views(root, schema, {"allOf"}, {})}
RECURSIVE Unfold(_, _, _, _, _)
\* The fields below a path whose value one of the schemas describes: [path,
\* required, plain], plain unless the value is described twice on the way.
Unfold(root, schemas, path, required, plain) ==
    LET views == AllViews(root, schemas)
        with(name) == {v \in views : name \in DOMAIN Object(v, "properties")}
        names == UNION {DOMAIN Object(v, "properties") : v \in views}
        items == {v.items : v \in {v \in views : "items" \in DOMAIN v}}
        child(name) ==
            LET sure == required /\ \E s \in schemas : name \in Sure(root, s)
                below == Append(path, name)
                once == plain /\ Cardinality(with(name)) = 1
            IN {[path |-> below, required |-> sure, plain |-> once]}
               \cup Unfold(root, {v.properties[name] : v \in with(name)}, below, sure, once)
        element == IF path = <<>> THEN <<"body", "[]">> ELSE Append(path, "[]")
        simple == plain /\ Cardinality(items) = 1 /\ names = {}
    IN IF Cardinality({i \in DOMAIN path : path[i] # "body"}) >= MaxRequestFieldDepth THEN {}
       ELSE UNION {child(n) : n \in names}
            \cup IF items = {} THEN {}
                 ELSE {[path |-> element, required |-> required, plain |-> simple]}
                      \cup Unfold(root, items, element, required, simple)

RECURSIVE Mentioned(_)
Mentioned(schema) ==
    ({Get(schema, "ref", "")} \ {""}) \cup (IF "items" \in DOMAIN schema THEN Mentioned(schema.items) ELSE {})
    \cup UNION {Mentioned(schema.properties[n]) : n \in DOMAIN Object(schema, "properties")}
    \cup UNION {Mentioned(b) : b \in UNION {ToSet(Object(schema, k)) : k \in {"allOf", "oneOf", "anyOf"}}}
RECURSIVE Reached(_, _)
Reached(root, refs) ==
    LET more == refs \cup UNION {Mentioned(Get(root.components, r, <<>>)) : r \in refs}
    IN IF more = refs THEN refs ELSE Reached(root, more)

\* A field is listed only if a value can have it, and as required only if
\* every value must, unless the resolution was told to have stopped: a branch
\* that was not expanded leaves its reference behind, which may later be
\* followed like one of the schema itself.  A field that is missing is a
\* credential or was told of, or stands below MaxRequestFieldDepth, or the list
\* of fields is full: of these two nothing is told (inventory_request.go:
\* 447-454).
FieldsAreTrue(root, schema, required, body, issues) ==
    LET expected == Unfold(root, {schema}, <<>>, required, TRUE)
        listed == ToSet(body.fields)
        whole == \E f \in listed : f.path = <<"body">>
        Told == \E i \in issues : i[1] # "operation.missing_id"
        Stopped == \E i \in issues : i[1] \in {"schema.ref_cycle", "schema.resolution_depth", "schema.resolution_limit"}
    IN /\ \A f \in listed :
            f.path = <<"body">> \/ \E e \in expected : e.path = f.path /\ (f.required => e.required \/ Stopped)
       /\ \A e \in expected : e.plain /\ ~IsCredential(e.path) =>
            (\E f \in listed : f.path = e.path /\ (e.required => f.required \/ Told)) \/ Told
            \/ Len(body.fields) >= MaxRequestFields
       /\ whole => \A e \in expected : IsCredential(e.path) \/ Told
       /\ \A i \in issues : i[1] = "schema.ref_cycle" =>
            i[2] \in Reached(root, Mentioned(Get(root.components, i[2], <<>>)))
BodiesAreTrue(service, op) ==
    LET root == Head(service.documents).root
        operation == root.paths["x"].post
        body == operation.requestBody
        ok == {s \in {"200", "201"} : s \in DOMAIN Object(operation, "responses")}
        response == Dereferenced(root, operation.responses["201"])
        media == Object(response, "content")
        schema == IF media = <<>> THEN Object(response, "schema") ELSE media.json
    IN /\ "content" \in DOMAIN body => FieldsAreTrue(root, body.content.json, body.required, op.request, op.issues)
       /\ "content" \notin DOMAIN body => op.issues # {} /\ op.request = NoBody
       /\ ok = {"201"} => FieldsAreTrue(root, schema, FALSE, op.response, op.issues)

(***************************************************************************)
(* The operations by their definition.                                     *)
(***************************************************************************)
Lesser(i, j) == IF i < j THEN i ELSE j
Works(doc) == doc.fault = "" /\ NormalizeAPISourceKind(doc.kind) # ""
OfPath(doc, path) ==
    LET item == Dereferenced(doc.root, doc.root.paths[path])
    IN {<<doc.path, m, path, Get(item[m], "operationId", "")>> : m \in DOMAIN item \ {"ref", "parameters"}}
Offers(doc) ==
    CASE ~Works(doc) -> {}
      [] Works(doc) /\ doc.kind = "openapi" -> UNION {OfPath(doc, p) : p \in DOMAIN doc.root.paths}
      [] OTHER -> {<<doc.path, op.method, op.path, op.id>> : op \in {op \in ToSet(doc.operations) : op.id # ""}}
Place4(op) == <<op.document, op.method, op.path, OperationId(op)>>
Broken(doc) == ~Works(doc) \/ (doc.kind = "openapi" /\ doc.root.paths["x"] = To("#/lost"))

(***************************************************************************)
(* The documents that are read.  Among API sources the first OpenAPI       *)
(* document with a text that does not fit into a prompt is the last one:   *)
(* those behind it are left out, and only the warning about the text and   *)
(* the mark of truncation say that something is missing.                   *)
(***************************************************************************)
FormOf(doc, op) ==
    IF doc.kind = "openapi" THEN Get(Dereferenced(doc.root, doc.root.paths[op.path])[op.method], "form", "whole")
    ELSE Get(CHOOSE o \in ToSet(doc.operations) : op.id = <<o.id>>, "form", "whole")
OpenAPIForms(doc) ==
    LET item(path) == Dereferenced(doc.root, doc.root.paths[path])
    IN {Get(item(p[1])[p[2]], "form", "whole") :
           p \in UNION {{path} \X ((DOMAIN item(path)) \ {"ref", "parameters"}) : path \in DOMAIN doc.root.paths}}
IsCleaned(doc) == Works(doc) /\ doc.kind = "openapi" /\ (doc.unsafe \/ OpenAPIForms(doc) # {"whole"})
Before(service) ==
    LET stops == {i \in DOMAIN service.documents : IsCleaned(service.documents[i])}
    IN IF service.asked # "sources" \/ stops = {} THEN service.documents
       ELSE SubSeq(service.documents, 1, CHOOSE i \in stops : \A j \in stops : i <= j)

\* As many as fit are listed, each once; that there are more is told of once,
\* and so is every document that does not work and every text that was cut.
\* Truncated is only what was told to be.
ListingIsWhole(service, inv) ==
    LET docs == ToSet(Before(service))
        offered == UNION {Offers(doc) : doc \in docs}
        listed == {Place4(op) : op \in ToSet(inv.operations)}
        fit == Lesser(Cardinality(offered), service.max)
        About(codes) == {i \in DOMAIN inv.diagnostics : inv.diagnostics[i][1] \in codes}
        cut == About({"inventory.limit.operations"})
        texts == About({"prompt.document_sanitized", "prompt.operation_sanitized", "prompt.operation_budget"})
        faults == About({"document.read", "document.parse", "document.kind", "document.ref_unresolved"})
        documentOf(op) == CHOOSE doc \in docs : doc.path = op.document
        code == [whole |-> "none", safe |-> "prompt.operation_sanitized", minimal |-> "prompt.operation_budget"]
    IN /\ Cardinality(listed) = Len(inv.operations) /\ listed \subseteq offered
       /\ Cardinality(listed) = IF service.limit = 0 THEN fit ELSE Lesser(fit, service.limit)
       /\ Cardinality(offered) > service.max => cut # {}
       /\ Cardinality(cut) <= 1 /\ (inv.truncated <=> cut \cup texts # {})
       /\ cut # {} => Cardinality(offered) >= service.max
       /\ \A doc \in docs : Broken(doc) /\ ~inv.truncated =>
            \E i \in faults : inv.diagnostics[i][2] \in {doc.path, "#/lost"}
       /\ \A doc \in docs : doc.unsafe /\ Works(doc) /\ cut = {} =>
            <<"prompt.document_sanitized", doc.path>> \in ToSet(inv.diagnostics)
       /\ \A op \in ToSet(inv.operations) :
            LET form == FormOf(documentOf(op), op)
            IN form # "whole" => <<code[form], Provenance(op)>> \in ToSet(inv.diagnostics)
       /\ service.limit = 0 /\ (\A doc \in docs : \A op \in ToSet(doc.operations) : op.id # "") =>
            FoldLeft(LAMBDA n, d : n + d.count, 0, inv.documents) = Len(inv.operations)
\* The order of the documents does not matter, unless some are left out.
OrderIsFree(inv, other) ==
    ~inv.truncated => other.operations = inv.operations /\ other.visited = inv.visited

\* Each alternative of the document stays one, and asks for the credentials of
\* all its schemes; nothing is open to all that the document does not open.
SecurityIsTrue(service, op) ==
    LET doc == CHOOSE d \in ToSet(service.documents) : d.path = op.document
        item == Dereferenced(doc.root, doc.root.paths[op.path])
        silent == "security" \notin (DOMAIN item[op.method]) \cup (DOMAIN doc.root)
        said == Get(item[op.method], "security", Object(doc.root, "security"))
        auth == AuthRequirementSets("aws", op)
        named(i) == {op.security[i][k].name : k \in DOMAIN op.security[i]}
        fields(i) == UNION {r.fields : r \in auth[i]}
    IN doc.kind = "openapi" /\ FormOf(doc, op) # "minimal" =>
         CASE silent -> op.security = <<>>
           [] ~silent /\ said = <<>> -> Len(auth) = 1 /\ auth[1] = {}
           [] OTHER ->
                /\ Len(auth) = Len(said)
                /\ \A i \in DOMAIN said :
                     /\ auth[i] = {} <=> DOMAIN said[i] = {}
                     /\ named(i) = DOMAIN said[i]
                     /\ "hmac" \in named(i) => "aws_secret_access_key" \in fields(i)
                     /\ {"b", "B"} \cap named(i) # {} => "access_token" \in fields(i)
                     /\ "q" \in named(i) => \E r \in auth[i] : "s" \in r.scopes /\ r.fields # {}

IsFaithful(service, read) ==
    LET inv == read.inventory
    IN CASE service.asked = "schema" -> BodiesAreTrue(service, Head(inv.operations))
         [] service.documents = <<>> -> inv.failed
         [] OTHER ->
              /\ ~inv.failed /\ ListingIsWhole(service, inv) /\ OrderIsFree(inv, read.backward)
              /\ \A op \in ToSet(inv.operations) :
                   /\ SecurityIsTrue(service, op)
                   /\ IF \E d \in ToSet(service.documents) : d.path = op.document /\ FormOf(d, op) = "minimal"
                      THEN op.issues = {<<"prompt.operation_budget", "">>}
                      ELSE OperationId(op) = "" <=> <<"operation.missing_id", "">> \in op.issues

\* Every operation of every document is listed, as long as there is room.
NothingIsDropped(service, inv) ==
    service.limit = 0 /\ Len(inv.operations) < service.max =>
        \A doc \in ToSet(service.documents) : \A place \in Offers(doc) : \E op \in ToSet(inv.operations) : Place4(op) = place
====
