---- MODULE Inventory ----
(***************************************************************************)
(* inventory.go, source_inventory.go and inventory_security.go, with       *)
(* inventory_request.go, which lists what they send and receive: the       *)
(* operations of a list of documents, and the credentials that auth.go     *)
(* derives for them.                                                       *)
(*                                                                         *)
(* A document is [kind, path, name, fault, unsafe, root, operations]:      *)
(* fault is the step that fails on it, "read" or "parse"; unsafe, whether  *)
(* its title or description is too long for a prompt or holds control      *)
(* characters; root is what an OpenAPI document or a Discovery model       *)
(* holds, and operations are those that the parser of a native source      *)
(* found.  How well an operation answers the query is data of the model,   *)
(* and so is the form in which its texts fit into a prompt: as they are,   *)
(* "safe" once they are cleaned and shortened, or "minimal"; what these    *)
(* forms are is the matter of Prompt.                                      *)
(***************************************************************************)
EXTENDS Integers, Sequences, FiniteSets, SequencesExt, TLC, Sorting

CONSTANTS
    MaxRequestFieldDepth,
    MaxRequestFields,
    MaxSchemaResolutionWork,
    CredentialNames,            \* the names that looksLikeCredentialName knows
    Lower                       \* names with capitals, in lower case

(***************************************************************************)
(* What an operation sends and receives (inventory_request.go).  A schema  *)
(* is resolved, that is its references and branches are merged into it,    *)
(* and its fields are then listed by their paths.                          *)
(*                                                                         *)
(* An object of a document is a function from those of its keywords that   *)
(* are present: ref, type, required, properties, allOf, oneOf, anyOf and   *)
(* items of a schema.  An absent object is <<>>.  A root holds what local  *)
(* references name.  A path is a sequence of names, [] for the elements of *)
(* an array.  The reference "remote" stands for those that do not begin    *)
(* with #/ and are never followed.  A cancelled context, which ends a call *)
(* with an error, is left out, and so are types and descriptions.          *)
(***************************************************************************)
Get(object, key, default) == IF key \in DOMAIN object THEN object[key] ELSE default
Object(object, key) == Get(object, key, <<>>)
IsEmpty(object) == DOMAIN object = {}
Without(object, keys) == [k \in DOMAIN object \ keys |-> object[k]]
SortedKeys(object) == SortedBy(SetToSeq(DOMAIN object), LAMBDA k : <<k>>)

(***************************************************************************)
(* References and merging.  What stands beside a reference replaces what   *)
(* the target says; of two branches the first counts, but properties are   *)
(* taken from the last, and required names from all of an allOf.           *)
(***************************************************************************)
LocalObject(root, object) == Get(root.components, Get(object, "ref", ""), <<>>)
MergeObjectRef(base, overlay) == Without(overlay, {"ref"}) @@ base
\* The object that stands behind a reference, and whether one was found.
Dereferenced(root, object) ==
    IF IsEmpty(LocalObject(root, object)) THEN object ELSE MergeObjectRef(LocalObject(root, object), object)
IsLocal(ref) == ref \notin {"", "remote"}
LostLocal(root, object) ==
    IF IsLocal(Get(object, "ref", "")) /\ IsEmpty(LocalObject(root, object))
    THEN {<<"schema.ref_unresolved", object.ref>>} ELSE {}
\* A reference that is still there is an issue.
Left(object) == IF "ref" \in DOMAIN object THEN {<<"schema.ref_unresolved", object.ref>>} ELSE {}

Part(condition, object) == IF condition THEN object ELSE <<>>
MergeSchema(base, addition, includeRequired) ==
    Part("properties" \in DOMAIN addition,
         [properties |-> Object(addition, "properties") @@ Object(base, "properties")])
    @@ Part(includeRequired /\ "required" \in DOMAIN addition,
            [required |-> Get(base, "required", {}) \cup Get(addition, "required", {})])
    @@ base @@ Without(addition, {"properties", "required"})

(***************************************************************************)
(* resolve.  Its state is the work done, the references that are being     *)
(* expanded and the issues raised: a set, since only one that comes again  *)
(* and again for cycles could be repeated.  After a reference is expanded  *)
(* the properties of its target are resolved once more, so that a cycle is *)
(* unrolled until the depth or the work is used up.                        *)
(***************************************************************************)
StartOfResolution(issues) == [work |-> 0, active |-> {}, issues |-> issues]
Raise(st, code, about) == [st EXCEPT !.issues = @ \cup {<<code, about>>}]

RECURSIVE Resolve(_, _, _, _)
Expand(root, schema, depth, st) ==
    LET ref == Get(schema, "ref", "")
        base == Resolve(root, LocalObject(root, schema), depth + 1, [st EXCEPT !.active = @ \cup {ref}])
    IN IF IsEmpty(LocalObject(root, schema))
       THEN [schema |-> schema, st |-> Raise(st, "schema.ref_unresolved", ref)]
       ELSE [schema |-> MergeObjectRef(base.schema, schema), st |-> [base.st EXCEPT !.active = st.active]]
MergeBranches(root, r, keyword, depth) ==
    LET Merge(s, branch) ==
            LET b == Resolve(root, branch, depth + 1, s.st)
            IN [schema |-> MergeSchema(s.schema, b.schema, keyword = "allOf"), st |-> b.st]
        told == IF keyword = "allOf" THEN r.st ELSE Raise(r.st, "schema.branch_selection_required", "")
    IN IF Object(r.schema, keyword) = <<>> THEN r
       ELSE FoldLeft(Merge, [schema |-> Without(r.schema, {keyword}), st |-> told], r.schema[keyword])
ResolveProperties(root, r, depth) ==
    LET properties == Object(r.schema, "properties")
        Add(s, name) ==
            LET p == Resolve(root, properties[name], depth + 1, s.st)
            IN [properties |-> (name :> p.schema) @@ s.properties, st |-> p.st]
        all == FoldLeft(Add, [properties |-> <<>>, st |-> r.st], SortedKeys(properties))
    IN IF IsEmpty(properties) THEN r
       ELSE [schema |-> [properties |-> all.properties] @@ r.schema, st |-> all.st]
ResolveItems(root, r, depth) ==
    LET items == Object(r.schema, "items") i == Resolve(root, items, depth + 1, r.st)
    IN IF IsEmpty(items) THEN r ELSE [schema |-> [items |-> i.schema] @@ r.schema, st |-> i.st]
Resolve(root, schema, depth, before) ==
    LET st == [before EXCEPT !.work = @ + 1]
        ref == Get(schema, "ref", "")
        expanded == IF ~IsLocal(ref) THEN [schema |-> schema, st |-> st] ELSE Expand(root, schema, depth, st)
        all == MergeBranches(root, expanded, "allOf", depth)
        one == MergeBranches(root, all, "oneOf", depth)
        any == MergeBranches(root, one, "anyOf", depth)
    IN IF IsEmpty(schema) THEN [schema |-> schema, st |-> before]
       ELSE IF depth > MaxRequestFieldDepth
       THEN [schema |-> schema, st |-> Raise(before, "schema.resolution_depth", "")]
       ELSE IF st.work > MaxSchemaResolutionWork
       THEN [schema |-> schema, st |-> Raise(st, "schema.resolution_limit", "")]
       ELSE IF ref \in st.active
       THEN [schema |-> schema, st |-> Raise(st, "schema.ref_cycle", ref)]
       ELSE ResolveItems(root, ResolveProperties(root, any, depth), depth)

(***************************************************************************)
(* The fields of a resolved schema, in the order they are found; the list  *)
(* is sorted by path at the end.                                           *)
(***************************************************************************)
IsCredential(path) == \E i \in DOMAIN path : path[i] \in CredentialNames
Field(path, required, schema) == [path |-> path, required |-> required, ref |-> Get(schema, "ref", "")]
RECURSIVE CollectRequestFields(_, _, _, _, _)
CollectRequestFields(schema, path, required, depth, found) ==
    LET listed == IF path = <<>> \/ IsCredential(path) THEN found ELSE Append(found, Field(path, required, schema))
        full == Len(listed) >= MaxRequestFields \/ (listed # found /\ depth = MaxRequestFieldDepth)
        properties == Object(schema, "properties")
        items == Object(schema, "items")
        Child(fields, name) ==
            CollectRequestFields(properties[name], Append(path, name),
                                 required /\ name \in Get(schema, "required", {}), depth + 1, fields)
    IN IF Len(found) >= MaxRequestFields \/ depth > MaxRequestFieldDepth THEN found
       ELSE IF IsEmpty(schema) \/ (listed # found /\ full) THEN listed
       ELSE IF ~IsEmpty(properties) THEN FoldLeft(Child, listed, SortedKeys(properties))
       ELSE IF ~IsEmpty(items)
       THEN CollectRequestFields(items, IF path = <<>> THEN <<"body", "[]">> ELSE Append(path, "[]"), required,
                                 depth + 1, listed)
       ELSE listed
\* A body without fields of its own is one field.
FieldsOrBody(fields, schema, required) ==
    IF fields = <<>> /\ ~IsEmpty(schema) THEN <<Field(<<"body">>, required, schema)>> ELSE fields
RequestFields(schema, required) ==
    FieldsOrBody(CollectRequestFields(schema, <<>>, required, 0, <<>>), schema, required)
\* A response always shows its name and its id.
AppendMissing(fields, schema) ==
    LET properties == Object(schema, "properties")
        listed == {fields[i].path : i \in DOMAIN fields}
        missing(name) == IF ~IsEmpty(Object(properties, name)) /\ <<name>> \notin listed
                         THEN <<Field(<<name>>, FALSE, properties[name])>> ELSE <<>>
    IN fields \o missing("name") \o missing("id")
ResponseFields(schema) ==
    FieldsOrBody(AppendMissing(CollectRequestFields(schema, <<>>, FALSE, 0, <<>>), schema), schema, FALSE)

(***************************************************************************)
(* Bodies.  Each comes with the issues raised for it.                      *)
(***************************************************************************)
Body(content, required, fields) == [content |-> content, required |-> required, fields |-> fields]
NoBody == Body(<<>>, FALSE, <<>>)
Unresolved(r) == r.st.issues \cup Left(r.schema)

\* The first content type of a request counts, and in Swagger the first
\* parameter of the operation that is its body.
RequestBody(root, operation) ==
    LET given == Object(operation, "requestBody")
        body == Dereferenced(root, given)
        required == Get(body, "required", FALSE)
        types == SortedKeys(Object(body, "content"))
        r == Resolve(root, body.content[Head(types)], 0, StartOfResolution(Left(body)))
        parameters == Object(operation, "parameters")
        bodies == {i \in DOMAIN parameters : Get(Dereferenced(root, parameters[i]), "in", "") = "body"}
        passed == UNION {LostLocal(root, parameters[i]) : i \in {i \in DOMAIN parameters : \A j \in bodies : i <= j}}
        parameter == Dereferenced(root, parameters[CHOOSE i \in bodies : \A j \in bodies : i <= j])
        needed == Get(parameter, "required", FALSE)
        s == Resolve(root, Object(parameter, "schema"), 0, StartOfResolution(passed))
    IN IF ~IsEmpty(given)
       THEN IF types = <<>> THEN [body |-> Body(<<>>, required, <<>>), issues |-> Left(body)]
            ELSE [body |-> Body(types, required, RequestFields(r.schema, required)), issues |-> Unresolved(r)]
       ELSE IF bodies = {} THEN [body |-> NoBody, issues |-> passed]
       ELSE [body |-> Body(<<>>, needed, RequestFields(s.schema, needed)), issues |-> Unresolved(s)]

ContentTypeScore(type) == CASE type = "json" -> 3 [] type \in {"xml", "yaml"} -> 2 [] OTHER -> 1
Prefer(types) == SortedBy(types, LAMBDA t : <<CASE ContentTypeScore(t) = 3 -> "1" [] ContentTypeScore(t) = 2 -> "2"
                                                [] OTHER -> "3">>)
\* The first type, in this order, with a schema; <<>> if there is none.
RECURSIVE FirstSchema(_, _, _, _)
FirstSchema(root, content, types, issues) ==
    LET r == Resolve(root, content[Head(types)], 0, StartOfResolution(issues))
    IN IF types = <<>> THEN [schema |-> <<>>, st |-> StartOfResolution(issues)]
       ELSE IF IsEmpty(r.schema) THEN FirstSchema(root, content, Tail(types), r.st.issues) ELSE r
IsSuccess(status) == status \in {"200", "201", "204"}
\* The first response that succeeds and has a schema or a content type counts.
RECURSIVE FirstResponse(_, _, _, _)
FirstResponse(root, responses, statuses, issues) ==
    LET given == responses[Head(statuses)]
        response == Dereferenced(root, given)
        content == Object(response, "content")
        types == SortedKeys(content)
        raised == issues \cup Left(response)
        r == IF types # <<>> THEN FirstSchema(root, content, Prefer(types), raised)
             ELSE Resolve(root, Object(response, "schema"), 0, StartOfResolution(raised))
    IN IF statuses = <<>> THEN [body |-> NoBody, issues |-> issues]
       ELSE IF IsEmpty(given) THEN FirstResponse(root, responses, Tail(statuses), issues)
       ELSE IF types = <<>> /\ IsEmpty(r.schema) THEN FirstResponse(root, responses, Tail(statuses), r.st.issues)
       ELSE [body |-> Body(types, FALSE, ResponseFields(r.schema)), issues |-> Unresolved(r)]
ResponseBody(root, operation) ==
    LET responses == Object(operation, "responses")
    IN FirstResponse(root, responses, SelectSeq(SortedKeys(responses), IsSuccess), {})

(***************************************************************************)
(* Security.  A requirement is a function from the names of schemes to     *)
(* scopes.  A scheme that nothing declares has no type.                    *)
(***************************************************************************)
NoScheme == [type |-> "", scheme |-> "", in |-> "", parameter |-> "", aws |-> FALSE, google |-> FALSE]
SecuritySummary(schemes, name, scopes) == [name |-> name, scopes |-> scopes] @@ Get(schemes, name, NoScheme)
SecurityRequirementSets(security, schemes) ==
    LET alternative(requirement) ==
            LET names == SortedKeys(requirement)
            IN [i \in DOMAIN names |-> SecuritySummary(schemes, names[i], requirement[names[i]])]
    IN IF security = <<>> THEN << <<>> >> ELSE [i \in DOMAIN security |-> alternative(security[i])]
\* A variant with a bug: an operation that is open to all is closed again.
ClosedAgain(root, operation) ==
    LET said == IF Object(operation, "security") = <<>> THEN root ELSE operation
    IN IF "security" \in DOMAIN said THEN SecurityRequirementSets(said.security, root.schemes) ELSE <<>>
\* What the operation says counts, the empty list included.
OperationSecurity(root, operation) ==
    CASE "security" \in DOMAIN operation -> SecurityRequirementSets(operation.security, root.schemes)
      [] "security" \notin DOMAIN operation /\ "security" \in DOMAIN root ->
             SecurityRequirementSets(root.security, root.schemes)
      [] OTHER -> <<>>

IsAWSSignature(provider, s) ==
    s.aws \/ (provider = "aws" /\ (s.name = "hmac" \/ (s.type = "apiKey" /\ s.parameter = "Authorization")))
IsGCPOAuth2(provider, s) == s.type = "oauth2" /\ (provider = "google" \/ s.google)
AuthKind(provider, s) ==
    CASE IsAWSSignature(provider, s) -> "aws_signature"
      [] ~IsAWSSignature(provider, s) /\ s.type = "apiKey" -> "api_key"
      [] ~IsAWSSignature(provider, s) /\ s.type = "http" -> IF s.scheme \in {"bearer", "basic"} THEN s.scheme ELSE "http"
      [] ~IsAWSSignature(provider, s) /\ s.type \notin {"apiKey", "http"} -> IF s.type = "" THEN "credential" ELSE s.type
CredentialFields(provider, s) ==
    CASE AuthKind(provider, s) = "aws_signature" -> {"aws_access_key_id", "aws_secret_access_key"}
      [] AuthKind(provider, s) = "api_key" -> {IF s.parameter = "" THEN s.name ELSE s.parameter}
      [] AuthKind(provider, s) = "bearer" -> {"access_token"}
      [] AuthKind(provider, s) = "basic" -> {"username", "password"}
      [] AuthKind(provider, s) = "oauth2" /\ IsGCPOAuth2(provider, s) -> {"oauth_client_id", "oauth_client_secret"}
      [] OTHER -> {}
LowerCase(name) == Get(Lower, name, name)
AuthRequirementKey(provider, s) ==
    <<AuthKind(provider, s), LowerCase(s.name), LowerCase(s.type), s.in, LowerCase(s.parameter)>>
\* Requirements with one key become one: a set of [key, fields, scopes].
MergeAuthRequirements(provider, alternative) ==
    LET keys == {AuthRequirementKey(provider, alternative[i]) : i \in DOMAIN alternative}
        of(key) == {s \in ToSet(alternative) : AuthRequirementKey(provider, s) = key}
    IN {[key |-> k, fields |-> UNION {CredentialFields(provider, s) : s \in of(k)},
         scopes |-> UNION {s.scopes : s \in of(k)}] : k \in keys}
AuthRequirementSets(provider, operation) ==
    [i \in DOMAIN operation.security |-> MergeAuthRequirements(provider, operation.security[i])]

(***************************************************************************)
(* Operations and parameters of an OpenAPI document.                       *)
(***************************************************************************)
OperationSummary(doc, id, method, path, score) ==
    [id |-> id, document |-> doc.path, name |-> doc.name, method |-> method, path |-> path, score |-> score,
     parameters |-> <<>>, request |-> NoBody, response |-> NoBody, security |-> <<>>, issues |-> {},
     form |-> "whole"]

ParameterRef(parameter) == Get(parameter, "ref", Get(Object(parameter, "schema"), "ref", ""))
ParameterIssues(root, values) ==
    UNION {LostLocal(root, values[i]) : i \in DOMAIN values}
    \cup {<<"schema.ref_unresolved", ParameterRef(Dereferenced(root, values[i]))>> :
            i \in {i \in DOMAIN values : ParameterRef(Dereferenced(root, values[i])) # ""}}
ParameterSummaries(root, values) ==
    LET present == SelectSeq([i \in DOMAIN values |-> Dereferenced(root, values[i])], LAMBDA p : ~IsEmpty(p))
        summary(p) == [name |-> Get(p, "name", ""), in |-> Get(p, "in", ""), required |-> Get(p, "required", FALSE)]
    IN SortedBy([i \in DOMAIN present |-> summary(present[i])], LAMBDA p : <<p.in, p.name>>)

Methods == <<"get", "put", "post", "delete", "options", "head", "patch", "trace">>
OperationMethods(item) == SelectSeq(Methods, LAMBDA m : m \in DOMAIN item)
OpenAPIOperation(doc, item, method, path) ==
    LET root == doc.root
        operation == item[method]
        shared == Object(item, "parameters")
        own == Object(operation, "parameters")
        id == Get(operation, "operationId", "")
        request == RequestBody(root, operation)
        response == ResponseBody(root, operation)
    IN [OperationSummary(doc, IF id = "" THEN <<doc.name, method, path>> ELSE <<id>>, method, path,
                         Get(operation, "score", 0)) EXCEPT
          !.form = Get(operation, "form", "whole"),
          !.parameters = ParameterSummaries(root, shared) \o ParameterSummaries(root, own),
          !.request = request.body, !.response = response.body,
          !.security = OperationSecurity(root, operation),
          !.issues = ParameterIssues(root, shared) \cup ParameterIssues(root, own) \cup request.issues
                     \cup response.issues \cup (IF id = "" THEN {<<"operation.missing_id", "">>} ELSE {})]

OperationId(op) == IF Len(op.id) = 1 THEN Head(op.id) ELSE ""

(***************************************************************************)
(* An inventory: [failed, documents, operations, diagnostics, issues,      *)
(* visited, truncated, done].  A diagnostic is <<code, about>>.            *)
(***************************************************************************)
NoInventory ==
    [failed |-> FALSE, documents |-> <<>>, operations |-> <<>>, diagnostics |-> <<>>, issues |-> {}, visited |-> 0,
     truncated |-> FALSE, done |-> FALSE]
Diagnose(inv, code, about) == [inv EXCEPT !.diagnostics = Append(@, <<code, about>>)]
Truncate(inv) ==
    [(IF inv.truncated THEN inv ELSE Diagnose(inv, "inventory.limit.operations", "")) EXCEPT
        !.truncated = TRUE, !.done = TRUE]
DocumentSummary(doc, count) == [path |-> doc.path, name |-> doc.name, count |-> count, unsafe |-> doc.unsafe]

\* What the texts of an inventory lose is told, and the inventory then counts
\* as truncated, as if it had reached its limit.
Provenance(op) == <<op.document, op.method, op.path>>
SanitizedOperation(op) ==
    IF op.form # "minimal" THEN [op EXCEPT !.form = "whole"]
    ELSE [op EXCEPT !.form = "whole", !.parameters = <<>>, !.request = NoBody, !.response = NoBody,
                    !.security = <<>>, !.issues = {<<"prompt.operation_budget", "">>}]
SanitizeInventory(inv) ==
    LET document(doc) == IF doc.unsafe THEN <<<<"prompt.document_sanitized", doc.path>>>> ELSE <<>>
        operation(op) ==
            CASE op.form = "whole" -> <<>>
              [] op.form = "safe" -> <<<<"prompt.operation_sanitized", Provenance(op)>>>>
              [] op.form = "minimal" -> <<<<"prompt.operation_budget", Provenance(op)>>>>
        told == FlattenSeq([i \in DOMAIN inv.documents |-> document(inv.documents[i])])
                \o FlattenSeq([i \in DOMAIN inv.operations |-> operation(inv.operations[i])])
    IN [inv EXCEPT !.diagnostics = @ \o told, !.truncated = @ \/ told # <<>>,
                   !.documents = [i \in DOMAIN @ |-> [@[i] EXCEPT !.unsafe = FALSE]],
                   !.operations = [i \in DOMAIN @ |-> SanitizedOperation(@[i])]]

\* The operations of a path, and the reference that was lost if its item is
\* not to be had.
Places(root) ==
    LET paths == SortedKeys(root.paths)
        places(path) ==
            LET given == root.paths[path] item == Dereferenced(root, given)
            IN IF LostLocal(root, given) # {} THEN <<[lost |-> given.ref]>>
               ELSE [i \in DOMAIN OperationMethods(item) |->
                       [lost |-> "", item |-> item, method |-> OperationMethods(item)[i], path |-> path]]
    IN FlattenSeq([i \in DOMAIN paths |-> places(paths[i])])
AddPlace(inv, doc, max, place) ==
    LET op == OpenAPIOperation(doc, place.item, place.method, place.path)
    IN IF inv.done THEN inv
       ELSE IF place.lost # "" THEN Diagnose(inv, "document.ref_unresolved", place.lost)
       ELSE IF Len(inv.operations) >= max THEN Truncate([inv EXCEPT !.visited = @ + 1])
       ELSE [inv EXCEPT !.visited = @ + 1, !.operations = Append(@, op), !.issues = @ \cup op.issues]
AddDocumentInventory(inv, doc, max) ==
    LET end == FoldLeft(LAMBDA i, place : AddPlace(i, doc, max, place), inv, Places(doc.root))
        added == Len(end.operations) - Len(inv.operations)
    IN [end EXCEPT !.documents = Append(@, DocumentSummary(doc, added))]
AddOpenAPI(inv, doc, max) ==
    CASE inv.done -> inv
      [] ~inv.done /\ doc.fault = "read" -> Diagnose(inv, "document.read", doc.path)
      [] ~inv.done /\ doc.fault = "parse" -> Diagnose(inv, "document.parse", doc.path)
      [] OTHER -> AddDocumentInventory(inv, doc, max)

\* By score, then document, path and the last key.
Rank(operations, Tie(_)) ==
    LET scores == SetToSortSeq({op.score : op \in ToSet(operations)}, >)
    IN FlattenSeq([i \in DOMAIN scores |->
           SortedBy(SelectSeq(operations, LAMBDA op : op.score = scores[i]),
                    LAMBDA op : <<op.document, op.name, op.path, Tie(op)>>)])
First(n, s) == IF n > 0 /\ Len(s) > n THEN SubSeq(s, 1, n) ELSE s
BuildOperationInventory(documents, limit, max) ==
    LET all == FoldLeft(LAMBDA inv, doc : AddOpenAPI(inv, doc, max), NoInventory, documents)
    IN IF documents = <<>> THEN [NoInventory EXCEPT !.failed = TRUE]
       ELSE SanitizeInventory([all EXCEPT !.operations = First(limit, Rank(all.operations, LAMBDA op : op.method))])

(***************************************************************************)
(* Native sources.                                                         *)
(***************************************************************************)
NormalizeAPISourceKind(kind) ==
    CASE kind \in {"openapi", "swagger"} -> "openapi"
      [] kind \in {"aws-smithy", "smithy", "smithy-json"} -> "aws-smithy"
      [] kind \in {"google-discovery", "discovery", "google"} -> "google-discovery"
      [] kind \in {"grpc-protobuf", "grpc", "protobuf", "proto"} -> "grpc-protobuf"
      [] kind \in {"asyncapi", "graphql", "openrpc", "odata"} -> kind
      [] OTHER -> ""

\* The members of a Smithy input, [name, location, required], are bound to a
\* place of the request or belong to its body.
IsBound(member) == member.location \in {"label", "path", "query", "queryParams", "header", "prefixHeaders"}
SmithyOperation(doc, op) ==
    LET bound == SelectSeq(op.members, IsBound)
        free == SelectSeq(op.members, LAMBDA m : ~IsBound(m))
        hmac == SecuritySummary("hmac" :> [NoScheme EXCEPT !.type = "apiKey", !.in = "header", !.parameter = "Authorization"],
                                "hmac", {})
    IN [OperationSummary(doc, <<op.id>>, op.method, op.path, op.score) EXCEPT
          !.parameters = [i \in DOMAIN bound |-> [name |-> bound[i].name, in |-> bound[i].location,
                                                  required |-> bound[i].required]],
          !.request = IF free = <<>> THEN NoBody
                      ELSE Body(<<"json">>, \E i \in DOMAIN free : free[i].required,
                                [i \in DOMAIN free |-> Field(<<free[i].name>>, free[i].required, <<>>)]),
          !.security = << <<hmac>> >>]
\* A Discovery body shows its own properties, required by the schema or for
\* this operation by an annotation; references are left as they are.
DiscoveryFields(schema, id) ==
    LET properties == Object(schema, "properties")
        names == SelectSeq(SortedKeys(properties), LAMBDA n : ~IsEmpty(properties[n]))
        required(n) == n \in Get(schema, "required", {}) \/ id \in Get(properties[n], "annotated", {})
    IN [i \in DOMAIN names |-> Field(<<names[i]>>, required(names[i]), properties[names[i]])]
DiscoveryOperation(doc, op) ==
    LET request == Object(doc.root.components, op.request)
        response == Object(doc.root.components, op.response)
        google == [name |-> "googleOAuth2", scopes |-> op.scopes] @@ [NoScheme EXCEPT !.type = "oauth2"]
    IN [OperationSummary(doc, <<op.id>>, op.method, op.path, op.score) EXCEPT
          !.parameters = op.parameters,
          !.request = IF op.request = "" THEN NoBody ELSE Body(<<"json">>, TRUE, DiscoveryFields(request, op.id)),
          !.response = IF op.response = "" THEN NoBody
                       ELSE Body(<<"json">>, FALSE,
                                 AppendMissing(CollectRequestFields(response, <<>>, FALSE, 0, <<>>), response)),
          !.security = << <<google>> >>]
NativeOperations(doc, kind) ==
    LET named == SelectSeq(doc.operations, LAMBDA op : op.id # "")
        Plain(op) == OperationSummary(doc, <<op.id>>, op.method, op.path, op.score)
        InForm(ops, Summary(_)) ==
            [i \in DOMAIN ops |-> [Summary(ops[i]) EXCEPT !.form = Get(ops[i], "form", "whole")]]
    IN CASE kind = "aws-smithy" -> InForm(named, LAMBDA op : SmithyOperation(doc, op))
         [] kind = "google-discovery" -> InForm(named, LAMBDA op : DiscoveryOperation(doc, op))
         [] OTHER -> InForm(doc.operations, Plain)
\* All operations are added, the nameless ones to the count only, and those
\* beyond the limit are taken back.
AddNative(inv, doc, kind, max) ==
    LET added == NativeOperations(doc, kind)
        before == Len(inv.operations)
        all == [inv EXCEPT !.operations = @ \o added, !.visited = @ + Len(added),
                           !.documents = Append(@, DocumentSummary(doc, Len(doc.operations)))]
    IN IF Len(all.operations) <= max THEN all
       ELSE [Truncate(all) EXCEPT !.operations = First(max, @),
                                  !.documents[Len(all.documents)].count = max - before]
\* An OpenAPI document is an inventory of its own; when that one is truncated,
\* be it for a text, the documents behind it are not read.
AddSource(inv, doc, max) ==
    LET kind == NormalizeAPISourceKind(doc.kind)
        openapi == BuildOperationInventory(<<doc>>, 0, max - Len(inv.operations))
    IN IF inv.done THEN inv
       ELSE IF Len(inv.operations) >= max THEN Truncate(inv)
       ELSE IF kind = "" THEN Diagnose(inv, "document.kind", doc.path)
       ELSE IF kind = "openapi"
       THEN [inv EXCEPT !.documents = @ \o openapi.documents, !.operations = @ \o openapi.operations,
                        !.diagnostics = @ \o openapi.diagnostics, !.issues = @ \cup openapi.issues,
                        !.visited = @ + openapi.visited, !.truncated = openapi.truncated, !.done = openapi.truncated]
       ELSE IF doc.fault = "read" THEN Diagnose(inv, "document.read", doc.path)
       ELSE IF doc.fault = "parse" THEN Diagnose(inv, "document.parse", doc.path)
       ELSE AddNative(inv, doc, kind, max)
BuildAPISourceOperationInventory(documents, max) ==
    LET all == FoldLeft(LAMBDA inv, doc : AddSource(inv, doc, max), NoInventory, documents)
    IN IF documents = <<>> THEN [NoInventory EXCEPT !.failed = TRUE]
       ELSE SanitizeInventory([all EXCEPT !.operations = Rank(all.operations, OperationId)])
====
