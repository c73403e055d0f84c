---- MODULE MCDocuments ----
(***************************************************************************)
(* What becomes of a document: the guard that measures it (SourceGuard,    *)
(* step by step), and the parsers, which read what a service publishes in  *)
(* one step.  A scenario is one of these; the guard stands still in the    *)
(* others.                                                                 *)
(***************************************************************************)
EXTENDS SourceGuard, SequencesExt, TLC

CONSTANTS Alphabet, Capitalized, NoObject, WithUnions, Reading(_, _, _)
ASSUME WithUnions \in BOOLEAN
MCAlphabet ==
    <<".json", ".tar.gz", ".yaml", "1", "2", "200", "201", "3", "4", "404", "A", "B", "C", "Color", "Mutation", "Query", "S", "T", "T2",
      "U", "a", "action", "action-import", "anonymous", "b", "demo", "entityset", "f", "function",
      "function-import", "get", "graphql", "hmac", "id", "input", "json", "lost", "mutation", "navigation", "o", "openapi", "other", "p",
      "post", "put", "q", "query", "r", "s", "singleton", "text", "token", "type", "undeclared", "x", "x!",
      "xml", "y">>

GraphQL == INSTANCE PublishedGraphQL WITH MaxNestingDepth <- 8, MaxWorkItems <- 200
Grpc == INSTANCE PublishedGrpc
    WITH MaxNestingDepth <- 8, MaxWorkItems <- 300, MaxDescriptorDepth <- 8, CamelCase <- [a_b |-> "aB"]
OData == INSTANCE PublishedOData WITH MaxNestingDepth <- 8, MaxWorkItems <- 100
OpenRPC == INSTANCE PublishedOpenRPC
MCSingular == [things |-> "thing"]
Operations == INSTANCE PublishedOperations WITH Singular <- MCSingular
MCDefault == [text |-> 2, items |-> 2, fields |-> 2, operations |-> 3, operation |-> 7, context |-> 13]
MCCompact == [summary |-> 1, fields |-> 1, items |-> 1]
Prompts == INSTANCE PublishedPrompts
    WITH Default <- MCDefault, Compact <- MCCompact, Minimal <- 1, IssueBytes <- 3, Shortlist <- 2
Inventories == INSTANCE PublishedInventory
    WITH MaxRequestFieldDepth <- 3, MaxRequestFields <- 4, MaxSchemaResolutionWork <- 12,
         CredentialNames <- {"token"}, Lower <- [B |-> "b", apiKey |-> "apikey"]
MCKey == "Demo" :> "demo" @@ "Other Name" :> "other-name"
MCStem == "x!" :> "x"
Catalogs == INSTANCE PublishedCatalog WITH Key <- MCKey, Ids <- {"demo", "other", "a", "b", "p", "q"}, Stem <- MCStem

\* What the reader of a scenario makes of a document or of a question.
MCReading(kind, source, shape) ==
    LET result ==
            CASE kind = "graphql" -> GraphQL!Read(source, shape)
              [] kind = "grpc" -> Grpc!Read(source, shape)
              [] kind = "odata" -> OData!Read(source, shape)
              [] kind = "openrpc" -> OpenRPC!Read(source, shape)
              [] kind = "operations" -> Operations!Read(source)
              [] kind = "prompts" -> Prompts!Read(source)
              [] kind = "inventory" -> Inventories!Read(source)
              [] kind = "catalog" -> Catalogs!Read(source)
    IN result

VARIABLES scenario, service, published, model
reading == <<scenario, service, published, model>>

(***************************************************************************)
(* Documents for the guard: graphs of three nodes, cyclic ones among the   *)
(* values.                                                                 *)
(***************************************************************************)
MCNodes == {1, 2, 3}
Shapes(n, cyclic) ==
    LET below == IF cyclic THEN MCNodes ELSE {m \in MCNodes : m > n}
    IN {[kind |-> "text", bytes |-> b, children |-> <<>>] : b \in {0, 2}}
       \cup {[kind |-> k, bytes |-> IF k = "mapping" THEN Len(c) \div 2 ELSE 0, children |-> c] :
               k \in {"sequence", "mapping"}, c \in UNION {[1..l -> below] : l \in 0..2}}
       \cup (IF cyclic THEN {} ELSE {[kind |-> "alias", bytes |-> 0, children |-> <<>>]})
MCValues ==
    {<<a, b, c>> : a \in Shapes(1, TRUE), b \in Shapes(2, TRUE), c \in {s \in Shapes(3, TRUE) : Len(s.children) < 2}}
MCTexts == {<<a, b, c>> : a \in Shapes(1, FALSE), b \in Shapes(2, FALSE), c \in Shapes(3, FALSE)}

Idle ==
    /\ form = "value" /\ document = CHOOSE d \in MCTexts : TRUE
    /\ size = 0 /\ trailing = FALSE /\ stack = <<>> /\ work = 0 /\ depth = 0 /\ retained = 0
    /\ verdict = "accepted"

MCInit ==
    \/ /\ scenario = "guard" /\ ~WithUnions /\ Init
       /\ service = <<>> /\ published = <<>> /\ model = <<>>
    \/ /\ Idle /\ model = <<>>
       /\ \/ /\ scenario = "graphql"
             /\ service \in IF WithUnions THEN GraphQL!UnionSchemas ELSE GraphQL!Services
             /\ published \in GraphQL!Forms(service)
          \/ /\ scenario = "grpc" /\ ~WithUnions
             /\ service \in Grpc!Services /\ published \in Grpc!Forms(service)
          \/ /\ scenario = "odata" /\ ~WithUnions
             /\ service \in OData!Services /\ published \in OData!Forms(service)
          \/ /\ scenario = "openrpc" /\ ~WithUnions
             /\ service \in OpenRPC!Services /\ published \in OpenRPC!Forms(service)
          \/ /\ scenario = "operations" /\ ~WithUnions
             /\ service \in Operations!Services /\ published = <<>>
          \/ /\ scenario = "prompts" /\ ~WithUnions
             /\ service \in Prompts!Services /\ published = <<>>
          \/ /\ scenario = "inventory" /\ ~WithUnions
             /\ service \in Inventories!Services /\ published = <<>>
          \/ /\ scenario = "catalog" /\ ~WithUnions
             /\ service \in Catalogs!Services /\ published = <<>>

Guard == scenario = "guard" /\ Next /\ UNCHANGED reading
Parse(kind) ==
    /\ scenario = kind /\ model = <<>>
    /\ model' = Reading(kind, service, published)
    /\ UNCHANGED <<vars, scenario, service, published>>
ParseGraphQL == Parse("graphql")
ParseGrpc == Parse("grpc")
ParseOData == Parse("odata")
ParseOpenRPC == Parse("openrpc")
ChooseOperations == Parse("operations")
FillPrompt == Parse("prompts")
BuildInventory == Parse("inventory")
ReadCatalog == Parse("catalog")

MCNext ==
    \/ Guard \/ ParseGraphQL \/ ParseGrpc \/ ParseOData \/ ParseOpenRPC
    \/ ChooseOperations \/ FillPrompt \/ BuildInventory \/ ReadCatalog
MCSpec == MCInit /\ [][MCNext]_<<vars, reading>>

(***************************************************************************)
(* What a document weighs, by its definition: the tree that its graph      *)
(* unfolds to, as deep as the guard may walk.                              *)
(***************************************************************************)
Total(s, Of(_)) == FoldLeft(LAMBDA sum, x : sum + Of(x), 0, s)
Highest(s, Of(_)) == FoldLeft(LAMBDA h, x : IF Of(x) > h THEN Of(x) ELSE h, 0, s)
IsHolder(n) == document[n].kind \in {"mapping", "sequence"}
Unfolded(Weight(_)) ==
    LET weight[d \in 0..(MaxNestingDepth + 1)] ==
            [n \in Nodes |-> Weight(n) +
                IF d = 0 \/ ~IsHolder(n) THEN 0 ELSE Total(document[n].children, LAMBDA c : weight[d - 1][c])]
    IN weight[MaxNestingDepth + 1][Root]
Levels(Counts(_)) ==
    LET height[d \in 0..(MaxNestingDepth + 1)] ==
            [n \in Nodes |-> (IF Counts(n) THEN 1 ELSE 0) +
                IF d = 0 \/ ~IsHolder(n) THEN 0 ELSE Highest(document[n].children, LAMBDA c : height[d - 1][c])]
    IN height[MaxNestingDepth + 1][Root]
Fits ==
    CASE form = "value" ->
            /\ Levels(LAMBDA n : TRUE) <= MaxNestingDepth + 1
            /\ Unfolded(LAMBDA n : 1) <= MaxWorkItems
            /\ Unfolded(LAMBDA n : document[n].bytes) <= MaxDocumentBytes
      [] form = "yaml" ->
            /\ size <= MaxDocumentBytes /\ ~trailing
            /\ Levels(LAMBDA n : TRUE) <= MaxNestingDepth
            /\ 1 + Unfolded(LAMBDA n : 1) <= MaxStructuralItems
            /\ Unfolded(LAMBDA n : IF document[n].kind = "alias" THEN 1 ELSE 0) = 0
      [] form = "json" ->
            /\ size <= MaxDocumentBytes
            /\ Levels(IsHolder) <= MaxNestingDepth
            /\ Unfolded(LAMBDA n : IF IsHolder(n) THEN 2 ELSE 1) * (IF trailing THEN 2 ELSE 1) <= MaxStructuralItems

\* The guard accepts exactly the documents whose unfolding keeps the limits,
\* whatever order the keys of a map come in: a shared node counts each time it
\* is reached and a cycle is never accepted (guard.go:41-181).
GuardIsExact == verdict # "none" => (verdict = "accepted" <=> scenario # "guard" \/ Fits)

\* What the summaries tell of the operations is what the service offers, in
\* whichever of its forms it was published: names, kinds, types, parameters
\* and bindings, in their order (graphql/summaries.go, grpcproto/selectors.go,
\* odata/summaries.go, openrpc/summaries.go).
OperationsArePreserved ==
    model # <<>> =>
        CASE scenario = "graphql" -> GraphQL!Preserved(service, model)
          [] scenario = "grpc" -> Grpc!Preserved(service, model)
          [] scenario = "odata" -> OData!Preserved(service, model)
          [] scenario = "openrpc" -> OpenRPC!Preserved(service, model)
          [] OTHER -> TRUE

\* Every operation that is summarised has an identifier of its own, and each
\* of the selectors that are given for it leads back to it alone
\* (ResolveSelector of the four packages).
SelectorsResolve ==
    model # <<>> =>
        CASE scenario = "graphql" -> GraphQL!Resolves(model)
          [] scenario = "grpc" -> Grpc!Resolves(model)
          [] scenario = "odata" -> OData!Resolves(model)
          [] scenario = "openrpc" -> OpenRPC!Resolves(model)
          [] OTHER -> TRUE

\* Which operations go together, and which one is meant, does not hang on the
\* order of the inventory: a role gets the operation that is better than all
\* others and no other one, and it is diagnosed when two are best.  An index
\* never takes one of two operations for the other (operationlifecycle.go:
\* 87-123, operation_selection.go:51-139, operation_index.go:29-53).
ChoicesAreClear == scenario = "operations" /\ model # <<>> => Operations!IsClear(service, model)

\* A prompt keeps its budget, holds each operation that was selected, by its
\* place, and of the others, best first, each one for which there is still
\* room; whatever is left out or cut off is told, about that operation, and
\* nothing else is.  It is refused exactly when something blocks it.  That a
\* field is cut with no more than a warning (prompt_safety.go:344-347) is not
\* what README.md:521-523 promises (README.md:517-523, prompt_safety.go:
\* 162-219, authoring_api.go:133-308).
PromptsFit == scenario = "prompts" /\ model # <<>> => Prompts!Fits(service, model)

\* An inventory lists every operation of the documents it reads, up to its
\* limit and whatever their order, and tells of the limit, of each document
\* that does not work and of each text that it cut.  A field is listed only if
\* a value can have it and as required only if every value must; one that is
\* left out while the list has room is told of.  The alternatives of security
\* are those of the document, each with the credentials of all its schemes, if
\* the operation is not cut to its minimal form (inventory.go:20-175,
\* source_inventory.go:41-160, prompt_safety.go:115-219, inventory_request.go,
\* auth.go:36-200).
InventoryIsFaithful == scenario = "inventory" /\ model # <<>> => Inventories!IsFaithful(service, model)

\* Every name of a provider leads to it.  What is known of the security of an
\* interface is what the evidence about it says, whatever the order in which
\* evidence is listed: that about another interface is of no account, and when
\* some disagrees, none is followed.  A reviewer is told of all that an overlay
\* leaves open (catalog.go:58-99, index.go:99-260, resolve.go:80-228,
\* report.go:44-211, inspection.go:160-430).
EvidenceIsSettled ==
    scenario = "catalog" /\ model # <<>> /\ service.asked = "security" => Catalogs!IsSettled(service, model)

\* The reports about a catalog say the same of the same evidence, in any
\* order: what loads has no fault, what the audit takes as settled is settled,
\* what was exported is there for the review, and whatever is told of a file is
\* what reading it would tell (advisory.go:60-210, quality.go:60-330,
\* catalog_security_audit.go, catalog_refresh_review.go, catalog_stats.go).
ReportsAgree == scenario = "catalog" /\ model # <<>> => Catalogs!ReportsAgree(service, model)

\* An export holds the content of every artifact of its providers and of their
\* overlays, where its report says; it is the same whatever the order of the
\* keys and rows, and once more it changes nothing.  Or it fails and leaves
\* what was there (materialize.go:233-600).
ExportIsWhole ==
    scenario = "catalog" /\ model # <<>> /\ service.asked = "export" => Catalogs!IsExported(service, model)

\* README.md:520-521: "ANSI/control removal and non-semantic shortening produce
\* visible warnings", and source_inventory.go:38-41: an inventory "extracts
\* prompt-safe operation summaries from" its documents.  A text that is cleaned
\* costs the operations of all later documents (source_inventory.go:93-96).
NothingIsDropped ==
    scenario = "inventory" /\ model # <<>> => Inventories!NothingIsDropped(service, model.inventory)
====
