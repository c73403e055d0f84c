---- MODULE PublishedCatalog ----
(***************************************************************************)
(* Catalogs with evidence and artifacts, and what may be told of them.     *)
(***************************************************************************)
EXTENDS CatalogReports

Spec(id, kind) == [id |-> id, kind |-> kind, swagger |-> FALSE, sourced |-> TRUE, noted |-> TRUE, verified |-> "fresh"]
Provider(id, name, aliases, specs) ==
    [id |-> id, name |-> name, aliases |-> aliases, review |-> "reviewed-catalog-entry", candidate |-> id,
     openapi |-> "unknown", machine |-> "unknown", specs |-> specs, filled |-> TRUE,
     need |-> "unknown", hinted |-> TRUE]
Candidate(p) ==
    [id |-> p.id, name |-> p.name, aliases |-> p.aliases, filled |-> TRUE, fixture |-> "", evidence |-> <<>>,
     machineKind |-> "", machineStatus |-> "unknown"]
SpecLists ==
    {<<>>, <<Spec("a", "openapi")>>, <<Spec("b", "graphql"), Spec("a", "openapi")>>, <<Spec("b", "graphql"), Spec("a", "odata")>>,
     <<Spec("a", "human-docs"), Spec("b", "smithy-json")>>}
Other == Provider("other", "Other Name", <<>>, <<Spec("a", "openapi")>>)
Demo(specs) == Provider("demo", "Demo", <<"dm">>, specs)
CatalogOf(providers, classifications, overlays) ==
    [candidates |-> [i \in DOMAIN providers |-> Candidate(providers[i])], providers |-> providers,
     classifications |-> classifications, overlays |-> overlays]

Class(provider, spec, status) == [provider |-> provider, spec |-> spec, status |-> status, sourced |-> TRUE]
Scheme(name) == [name |-> name, valid |-> TRUE]
Body(schemes, root, sets, operations) == [schemes |-> schemes, root |-> root, rootSets |-> sets, operations |-> operations]
Overlay(id, provider, spec, status, body) ==
    [id |-> id, provider |-> provider, spec |-> spec, status |-> status, sourced |-> TRUE, cites |-> {}] @@ body
Sound == Body(<<Scheme("p")>>, <<"p">>, <<>>, <<>>)

(***************************************************************************)
(* Evidence of two statuses about two specifications and the provider.     *)
(***************************************************************************)
NoOptions == [key |-> "Demo", user |-> "", userOverlay |-> "", local |-> ""]
Asked(cat, options, known) == [asked |-> "security", cat |-> cat, options |-> options, known |-> known]
Scopes == {"", "a", "b"}
Statuses == {"complete", "absent"}
Classifications ==
    LET one == {Class("demo", s, t) : s \in Scopes, t \in Statuses}
    IN {<<>>} \cup {<<c>> : c \in one} \cup {<<c, d>> : c \in one, d \in {d \in one : d.status = "absent"}}
OverlayLists ==
    LET of(id) == {Overlay(id, "demo", s, t, Sound) : s \in Scopes, t \in Statuses}
    IN {<<>>} \cup {<<o>> : o \in of("p")} \cup {<<o, o2>> : o \in of("p"), o2 \in of("q")}
Evidence ==
    {Asked(CatalogOf(<<Demo(s), Other>>, c, o), NoOptions, {}) : s \in SpecLists, c \in Classifications, o \in OverlayLists}

UserChoices ==
    {Asked(CatalogOf(<<Demo(s), Other>>, <<Class("demo", "", "unknown"), Class("other", "a", t)>>, o),
           [key |-> k, user |-> u, userOverlay |-> v, local |-> l], {}) :
        s \in SpecLists, t \in {"complete", "mixed"}, o \in {<<>>, <<Overlay("p", "demo", "", "absent", Sound)>>},
        k \in {"demo", "dm", "Other Name", "lost"}, u \in {"", "https", "other"}, v \in {"", "path"}, l \in {"", "http"}}

\* Names and keys of providers and candidates, and what makes them invalid.
Named ==
    LET others == {Provider("other", "Demo", <<>>, <<>>), Provider("other", "Other Name", <<"Demo">>, <<>>),
                   Provider("demo", "Other Name", <<>>, <<>>), Provider("Demo", "Other Name", <<>>, <<>>), Other,
                   [Other EXCEPT !.specs = <<Spec("a", "openapi"), Spec("a", "odata")>>], [Other EXCEPT !.machine = "known"],
                   [Other EXCEPT !.openapi = "known"], [Other EXCEPT !.candidate = ""], [Other EXCEPT !.candidate = "demo"],
                   [Other EXCEPT !.need = "likely", !.openapi = "known", !.hinted = FALSE],
                   [Other EXCEPT !.need = "not-expected", !.specs = <<Spec("b", "human-docs")>>]}
                  \cup {[Other EXCEPT !.specs = <<[Spec("a", "openapi") EXCEPT !.noted = n, !.verified = v]>>] :
                            n \in BOOLEAN, v \in {"", "fresh", "stale", "invalid"}}
        one(p) == [Candidate(p) EXCEPT !.fixture = "x", !.evidence = <<<<"local-openapi-fixture", "x">>>>]
        lists(p, q) ==
            LET cat == CatalogOf(<<p, q>>, <<>>, <<>>)
            IN {cat, [cat EXCEPT !.candidates = <<one(p), Candidate(q)>>],
                [cat EXCEPT !.candidates = <<[one(p) EXCEPT !.evidence = <<>>], Candidate(q)>>],
                [cat EXCEPT !.candidates = <<[one(p) EXCEPT !.machineKind = "x"], Candidate(q)>>]}
    IN {Asked(cat, NoOptions, {}) :
          cat \in UNION {lists(Demo(<<>>), o) \cup lists(o, Demo(<<>>)) : o \in others}}

\* What an overlay may declare and require.
Match(id, method, path, tags) == [id |-> id, method |-> method, path |-> path, tags |-> tags]
Op(match, security, sets) == [match |-> match, security |-> security, sets |-> sets]
Bodies ==
    {Body(s, r, t, o) :
        s \in {<<>>, <<Scheme("p")>>, <<Scheme("p"), Scheme("q")>>, <<Scheme("p"), Scheme("p")>>, <<[Scheme("p") EXCEPT !.valid = FALSE]>>},
        r \in {<<>>, <<"p">>, <<"q">>}, t \in {<<>>, <<<<"p", "q">>>>, << <<>> >>, <<<<"q", "q">>>>},
        o \in {<<>>, <<Op(Match("a", "", "", {}), <<"q">>, <<>>)>>, <<Op(Match("", "get", "x", {"T"}), <<"p">>, <<<<"q">>>>)>>,
               <<Op(Match("", "", "", {}), <<>>, <<>>)>>}}
Described ==
    {Asked(CatalogOf(<<Demo(<<Spec("a", "openapi")>>)>>, <<>>, o), NoOptions, k) :
        k \in {{}, {Match("a", "get", "x", {})}, {Match("b", "put", "x", {})}, {Match("b", "put", "x", {"T", "S"})}},
        o \in {<<Overlay("p", "demo", "a", "complete", b)>> : b \in Bodies}
              \cup {<<Overlay("q", "demo", "", "complete", b), Overlay("p", "demo", "a", "complete", Sound)>> : b \in Bodies}}

(***************************************************************************)
(* Artifacts of two providers, in a cache.                                 *)
(***************************************************************************)
Path(dir, name, ext) == [dir |-> dir, name |-> name, ext |-> ext, local |-> TRUE]
Row(provider, spec, id, kind, path, digest) ==
    [provider |-> provider, spec |-> spec, id |-> id, kind |-> kind, path |-> path, digest |-> digest, validation |-> ""]
Cache == Path("openapi", "x", ".json") :> "one" @@ Path("openapi", "y", ".json") :> "two" @@ Path("graphql", "x", "") :> "one"
Rows ==
    {Row("demo", "a", "x", "openapi", Path("openapi", "x", ".json"), "one"),
     Row("demo", "b", "", "graphql", Path("graphql", "x", ""), "one"),
     Row("demo", "", "x", "advisory-overlay", Path("openapi", "y", ".json"), "two"),
     Row("demo", "a", "x!", "swagger", Path("openapi", "x", ".json"), "one"),
     Row("demo", "b", "b", "graphql", Path("openapi", "y", ".json"), "two"),
     Row("demo", "", "", "other", Path("graphql", "x", ""), "one"),
     Row("other", "a", "x", "openapi", Path("openapi", "y", ".json"), "two"),
     Row("other", "a", "y", "openapi", Path("openapi", "x", ".json"), "two"),
     Row("other", "a", "y", "openapi", Path("openapi", "x", ".json"), ""),
     Row("demo", "a", "y", "openapi", NoPath, "one"),
     [Row("demo", "a", "y", "openapi", Path("openapi", "x", ".json"), "one") EXCEPT !.validation = "invalid"]}
RowLists == {<<>>} \cup {<<r>> : r \in Rows} \cup {<<r, s>> : r, s \in Rows}
Families == {"google-discovery", "smithy-json", "openrpc", "graphql", "odata", "human-docs", "asyncapi"}
ExportCatalog(specs) == CatalogOf(<<Demo(specs), Other>>, <<>>, <<Overlay("p", "demo", "", "complete", Sound)>>)
\* What the files hold.
Document(valid, version, strict, schemes, root, operations) ==
    [valid |-> valid, structured |-> TRUE, strict |-> strict, version |-> version, schemes |-> schemes, root |-> root,
     operations |-> operations]
Model == Document({"graphql", "odata"}, "", FALSE, {}, {}, {})
Documents ==
    {Model, [Model EXCEPT !.structured = FALSE, !.valid = {}], Document({}, "openapi", FALSE, {"p"}, {}, {{}, {"p"}})}
    \cup {Document({}, v, TRUE, s, r, o) :
             v \in {"openapi", "swagger"}, s \in {{}, {"p"}}, r \in {{}, {"p"}}, o \in {{}, {{"q"}}, {{"p"}, {}}}}
Order == [documents |-> [d \in {"one", "two"} |-> Document({}, "openapi", TRUE, {"p"}, {"p"}, {})], contains |-> {}] @@
         [asked |-> "export", cat |-> ExportCatalog(<<Spec("a", "openapi")>>), keys |-> <<"Demo">>, artifacts |-> <<>>,
          cache |-> Cache, overlays |-> TRUE, manifest |-> TRUE, force |-> FALSE, target |-> NoTree, confined |-> TRUE,
          checks |-> 9]
Orders ==
    {[Order EXCEPT !.cat = ExportCatalog(s), !.artifacts = r, !.keys = k] :
        s \in SpecLists, r \in RowLists, k \in {<<"dm">>, <<"Demo", "Other Name", "dm">>, <<"dm", "lost">>}}
    \cup {[Order EXCEPT !.artifacts = <<r>>, !.force = f, !.target = t, !.manifest = m, !.overlays = m, !.checks = c] :
             r \in Rows, f \in BOOLEAN, m \in BOOLEAN, c \in {0, 1, 2, 9},
             t \in {NoTree, ManifestPlace("") :> <<"manifest", "">>, ManifestPlace("demo") :> <<"manifest", "demo">>}}
    \cup {[Order EXCEPT !.cat = ExportCatalog(<<Spec("a", f), Spec("b", g)>>), !.confined = (f # g)] : f, g \in Families}
\* Files with and without a row, for two references of one provider and one
\* of another, some of which share a file.
Saved ==
    LET a(kind, verified) == [Spec("a", kind) EXCEPT !.verified = verified]
        cat(specs) ==
            CatalogOf(<<[Demo(specs) EXCEPT !.need = "likely"], Other>>, <<Class("demo", "", "complete")>>,
                      <<[Overlay("p", "other", "", "present-incomplete", Sound) EXCEPT !.cites = {"a"}],
                        Overlay("q", "other", "a", "present-incomplete", Sound)>>)
        row(p, spec, name) == Row(p, spec, "", "openapi", Path("openapi", name, ".json"), "one")
        cache(content) ==
            [f \in {Path(d, n, ".json") : d \in {"openapi", "graphql"}, n \in {"a", "x"}} |-> IF f.name = "a" THEN content ELSE "two"]
    IN {[Order EXCEPT !.cat = cat(<<a(k, v), Spec("b", l)>>), !.artifacts = r, !.cache = cache(d[1]), !.contains = c,
                      !.documents = [one |-> d[2], two |-> Model]] :
           k \in {"openapi", "graphql"}, l \in {"openapi", "graphql", "openapi-index"}, v \in {"fresh", ""},
           c \in {{}, {<<"x", "b">>}, {<<"x", "demo">>, <<"a", "demo">>}}, d \in ({"one"} \X Documents) \cup {<<Unreadable, Model>>},
           r \in {<<>>, <<row("demo", "a", "x")>>, <<[row("demo", "a", "x") EXCEPT !.path.local = FALSE]>>,
                  <<row("demo", "a", "lost"), row("demo", "b", "lost")>>, <<row("demo", "a", "a"), row("demo", "b", "a"), row("other", "a", "a")>>,
                  <<row("other", "a", "lost"), [row("demo", "b", "a") EXCEPT !.kind = "advisory-overlay"]>>,
                  <<row("other", "b", "x"), row("other", "a", "x"), row("demo", "b", "x")>>}}
Services == Evidence \cup UserChoices \cup Named \cup Described \cup Orders \cup Saved

Reversed(cat) ==
    [cat EXCEPT !.providers = Reverse(@), !.classifications = Reverse(@), !.overlays = Reverse(@)]
Resolved(cat, options) ==
    LET index == NewCatalogIndex(cat) IN IF index.failed THEN Unresolved ELSE ResolveProvider(index, options)
Read(service) ==
    IF service.asked = "security"
    THEN [index |-> NewCatalogIndex(service.cat), resolved |-> Resolved(service.cat, service.options),
          view |-> BuildSecurityInspectionView(service.cat, service.options.key, service.known),
          valid |-> ValidateCatalogBundle(service.cat),
          advisory |-> BuildProviderAdvisoryReport(service.cat, "", <<>>),
          quality |-> BuildCatalogQualityReport(service.cat, IF service.known = {} THEN <<>> ELSE "demo" :> service.known),
          audit |-> BuildCatalogSecurityAuditReport(service.cat, <<>>, <<>>, <<>>),
          again |-> [audit |-> BuildCatalogSecurityAuditReport(Reversed(service.cat), <<>>, <<>>, <<>>),
                     advisory |-> BuildProviderAdvisoryReport(Reversed(service.cat), "", <<>>)]]
    ELSE [advisory |-> BuildProviderAdvisoryReport(service.cat, "", service.artifacts),
          audit |-> BuildCatalogSecurityAuditReport(service.cat, service.artifacts, service.cache, service.documents),
          again |-> BuildCatalogSecurityAuditReport(service.cat, Reverse(service.artifacts), service.cache, service.documents),
          review |-> BuildCatalogSpecRefreshReview(RefreshableSpecReferences(service.cat.providers, service.artifacts),
                                                   service.cache, service.documents, service.contains),
          export |-> ExportWorkflowArtifacts(service), single |-> MaterializeProvider(service),
          known |-> ResolveProviders(service.cat, service.artifacts, service.keys),
          rows |-> RefreshableSpecReferences(service.cat.providers, service.artifacts)]

(***************************************************************************)
(* Every name of a provider leads to that provider, in the catalog and in  *)
(* its index.                                                              *)
(***************************************************************************)
NamesLead(cat, index) ==
    \A i \in DOMAIN cat.providers :
        LET p == cat.providers[i]
        IN /\ \A name \in {p.id, p.name} \cup ToSet(p.aliases) :
                FindProvider(cat.providers, name) = <<p>> /\ Indexed(index, name) = <<p>>
           /\ \A r \in DOMAIN p.specs :
                /\ FindSpecReference(index, p.id, p.specs[r].id) = <<p.specs[r]>>
                /\ p.name # p.id => FindSpecReference(index, p.name, p.specs[r].id) = <<>>

(***************************************************************************)
(* Evidence: the order in which it is listed does not matter; that about   *)
(* another specification than the one that was chosen is of no account;    *)
(* and when some of it disagrees, none is followed.                        *)
(***************************************************************************)
About(cat, provider, scopes) ==
    LET near(e) == e.provider = provider /\ e.spec \in scopes
    IN [cat EXCEPT !.classifications = SelectSeq(@, near), !.overlays = SelectSeq(@, near)]
Disagree(evidence, scope) == Cardinality({e.status : e \in {e \in ToSet(evidence) : Scope(e) = scope}}) > 1
EvidenceIsOwn(service, model) ==
    LET cat == service.cat
        resolved == model.resolved
        spec == resolved.openapi.spec
        own == [resolved |-> Resolved(About(cat, resolved.provider, {spec, ""}), service.options),
                exact |-> Resolved(About(cat, resolved.provider, {spec}), service.options)]
        said == {o.status : o \in {o \in ToSet(cat.overlays) : Scope(o) = <<resolved.provider, spec>>}}
        builtIn == {"built-in-security-overlay", "security-classification"}
        \* The overlays and classifications that bear on what was chosen.
        all(evidence) == {e \in ToSet(evidence) : e.provider = resolved.provider}
        source == IF resolved.security.overlay # "" THEN {o \in all(cat.overlays) : o.id = resolved.security.overlay}
                  ELSE {c \in all(cat.classifications) : c.spec = resolved.security.spec}
    IN /\ Resolved(Reversed(cat), service.options) = resolved
       /\ resolved.openapi.source = "built-in-spec-reference" => own.resolved = resolved
       /\ (/\ resolved.openapi.source = "built-in-spec-reference"
           /\ said # {} /\ ~Disagree(cat.overlays, <<resolved.provider, spec>>))
          => resolved.status \in said \/ service.options.userOverlay # ""
       /\ own.exact.status # "unknown" /\ spec # "" => own.exact = resolved
       /\ resolved.security.source \in builtIn =>
            /\ service.options.user = "" /\ service.options.userOverlay = "" /\ service.options.local = ""
            /\ \E e \in source : e.status = resolved.status /\ ~Disagree(cat.overlays, Scope(e))
       /\ resolved.status \notin {"unknown", "mixed", "conflict"} => resolved.security.source \in builtIn
       /\ spec = "" /\ resolved.security.source \in builtIn =>
            LET told == ProviderReport(resolved.provider, cat.classifications, cat.overlays).dispositions
            IN (\E i \in DOMAIN told : told[i].spec = "") \/ \A i \in DOMAIN told : told[i].status = resolved.status

(***************************************************************************)
(* The view says of the status what the report says, and leaves nothing    *)
(* for a reviewer to find.                                                 *)
(***************************************************************************)
Required(o) == RequirementNames([o EXCEPT !.root = Plain(o.root, o.rootSets), !.operations =
                    [i \in DOMAIN @ |-> [@[i] EXCEPT !.security = Plain(@, o.operations[i].sets)]]])
ViewTells(service, index, view) ==
    LET cat == service.cat
        mine == {o \in ToSet(cat.overlays) : o.provider = view.provider}
        told(type) == {c \in view.conflicts : c.type = type}
        declared == UNION {SchemeNames(o.schemes) : o \in mine}
        unresolved == {e \in view.operations : e.provenance = "unresolved"}
    IN /\ ~index.failed => view.status = index.reports[view.provider].status
       /\ BuildSecurityInspectionView(Reversed(cat), service.options.key, service.known) = view
       /\ \A o \in mine :
            /\ \A s \in Required(o) \ declared : \E c \in told("missing-referenced-scheme") : c.overlay = o.id /\ c.scheme = s
            /\ \A c \in told("missing-referenced-scheme") : c.overlay = o.id => c.scheme \in Required(o) \ SchemeNames(o.schemes)
       /\ ~index.failed => told("missing-referenced-scheme") = {}
       /\ Cardinality(declared) < Len(view.schemes) <=> told("duplicate-scheme-name") # {}
       /\ {<<c.overlay, c.match>> : c \in told("unresolved-operation-match")} = {<<e.overlay, e.match>> : e \in unresolved}
       /\ service.known = {} => unresolved = view.operations

\* Whatever indexes come with a bundle that is valid: if they hold, they lead
\* to the same as the walks do, only the overlays may be in another order.
Seqs(n) == UNION {[1..l -> 0..n] : l \in 0..n}
Groupings(n) == UNION {[l -> Seqs(n)] : l \in SUBSET {"demo", "other"}}
BuiltInAgrees(cat, index) ==
    /\ \A l \in SUBSET {"demo", "other", "a"} : \A ids \in [l -> 0..2] :
         IdIndexHolds(ids, IdsOf(cat.providers)) <=>
             l = ToSet(IdsOf(cat.providers)) /\ \A p \in l : \E i \in DOMAIN cat.providers : i = ids[p] /\ FindProvider(cat.providers, p) = <<cat.providers[i]>>
    /\ \A groups \in Groupings(Len(cat.overlays)) :
         GroupIndexHolds(groups, OwnersOf(cat.overlays)) =>
             \A p \in ToSet(cat.providers) : \A name \in {p.id, p.name} :
                 LET given == SecurityOverlaysForProvider(cat, groups, name)
                 IN ToSet(given) = ToSet(index.overlays[p.id]) /\ Len(given) = Len(index.overlays[p.id])

IsSettled(service, model) ==
    LET cat == service.cat
    IN /\ model.valid => BuiltInAgrees(cat, model.index)
       /\ ~model.index.failed => NamesLead(cat, model.index) /\ EvidenceIsOwn(service, model)
       /\ ~model.index.failed /\ FindProvider(cat.providers, service.options.key) # <<>> => ~model.view.failed
       /\ ~model.view.failed => ViewTells(service, model.index, model.view)
       /\ model.valid => ~model.index.failed /\ model.resolved.status # "conflict"
       /\ \A i \in DOMAIN cat.overlays :
            LET o == cat.overlays[i]
                class == ClassifyAuthCompleteness(o, FALSE)
            IN /\ class = "complete" => SchemesHold(o.schemes) /\ o.schemes # <<>> /\ RootHolds(o, SchemeNames(o.schemes))
               /\ ValidOverlay(o, cat.providers) /\ class = "present-incomplete" =>
                      o.schemes = <<>> \/ Required(o) = {}

(***************************************************************************)
(* An export gives every row of its providers a file with its content, and *)
(* nothing else but what it reports; or it leaves what was there.          *)
(***************************************************************************)
Cut(tree, prefix) == [place \in {<<"", q[2], q[3]>> : q \in {q \in DOMAIN tree : q[1] = prefix}} |-> tree[<<prefix, place[2], place[3]>>]]
Clash(rows) ==
    \E r, s \in rows : r.provider = s.provider /\ ArtifactPlace("", r) = ArtifactPlace("", s) /\ r.digest # s.digest
TreeIsWhole(service, result) ==
    LET tree == result.target
        reported(report) ==
            {[place |-> a.target, content |-> <<"data", a.digest>>] : a \in ToSet(report.artifacts)}
            \cup {[place |-> o.target, content |-> <<"overlay", o.id>>] : o \in ToSet(report.overlays)}
        files == UNION {reported(result.reports[i]) : i \in DOMAIN result.reports}
        manifests == {place \in DOMAIN tree : place[2] = ""}
        rows == {r \in ToSet(service.artifacts) : \E i \in DOMAIN result.reports : result.reports[i].provider = r.provider}
    IN /\ {[place |-> p, content |-> tree[p]] : p \in DOMAIN tree \ manifests} = files
       /\ \A r \in rows : \E i \in DOMAIN result.reports :
            /\ result.reports[i].provider = r.provider
            /\ \E a \in ToSet(result.reports[i].artifacts) : a.digest = r.digest /\ a.id = ArtifactId(r)
IsExported(service, model) ==
    LET export == model.export
        named == UNION {ToSet(FindProvider(service.cat.providers, service.keys[i])) : i \in DOMAIN service.keys}
        rows == {r \in ToSet(service.artifacts) : \E p \in named : p.id = r.provider}
        lost == \E i \in DOMAIN service.keys : FindProvider(service.cat.providers, service.keys[i]) = <<>>
        again == [service EXCEPT !.keys = Reverse(@), !.artifacts = Reverse(@), !.target = NoTree]
        repeated == ExportWorkflowArtifacts([service EXCEPT !.target = export.target, !.force = FALSE])
        ready == \A r \in rows : IsReadable(service.cache, r)
        enough == service.checks = 9 /\ service.confined
    IN /\ export.failed => export.target = service.target /\ export.reports = <<>>
       /\ ~export.failed =>
            /\ TreeIsWhole(service, export) /\ ready /\ ~Clash(rows) /\ ~lost
            /\ {export.reports[i].provider : i \in DOMAIN export.reports} = {p.id : p \in named}
            /\ Len(export.reports) = Cardinality(named)
            /\ ExportWorkflowArtifacts(again).target = export.target
            /\ repeated.reused /\ repeated.target = export.target
       /\ enough /\ ready /\ ~Clash(rows) /\ ~lost /\ (service.target = NoTree \/ service.force) => ~export.failed
       /\ ~model.single.failed => TreeIsWhole(service, model.single)
       /\ ~model.single.failed /\ ~export.failed /\ service.manifest =>
            model.single.target = Cut(export.target, Head(model.single.reports).provider)
       /\ ~export.failed => [i \in DOMAIN model.known |-> model.known[i].capability]
                            = [i \in DOMAIN export.reports |-> export.reports[i].capability]
       /\ \A i \in DOMAIN model.rows :
            \A r \in ToSet(service.artifacts) :
                 (/\ r.provider = model.rows[i].provider /\ r.spec = model.rows[i].spec
                  /\ Len(SelectSeq(service.artifacts, LAMBDA s : s.spec = r.spec /\ s.provider = r.provider)) = 1
                  /\ ArtifactKindProtocol(r.kind) = model.rows[i].protocol /\ r.path.dir = "openapi")
                 => model.rows[i].path.dir = SourceDir(r)

(***************************************************************************)
(* The reports say the same of the same evidence.  The quality report has  *)
(* no fault to find with a bundle that may be loaded, and a bundle without *)
(* one may be; it and the view miss the same operations.  What the audit   *)
(* takes as settled is settled whichever specification is chosen, and when *)
(* the advisory asks for a choice, choosing helps.                         *)
(***************************************************************************)
Faults == {"invalid-providers", "invalid-candidates", "invalid-security-overlays", "invalid-security-classifications",
           "conflicting-security-status"}
Linked(cat) == \A i \in DOMAIN cat.providers : cat.providers[i].candidate \in ToSet(IdsOf(cat.candidates))
ChosenStatuses(report, provider) ==
    {BuiltInSecurity(report, spec).status : spec \in {""} \cup ToSet(IdsOf(provider.specs))}
QualityAgrees(service, model) ==
    LET cat == service.cat
        told(code) == {f \in model.quality : f.code = code}
        missed == {f.about : f \in told("unresolved-overlay-operation")}
        codes == {f.code : f \in model.quality}
    IN /\ model.valid <=> codes \cap Faults = {} /\ Linked(cat) /\ IsOrdered(cat)
       /\ model.valid => codes \cap {"missing-spec-source-note", "provider-candidate-lookup-conflict"} = {}
       /\ service.known # {} /\ ~model.view.failed =>
            missed = {c.overlay : c \in {c \in model.view.conflicts : c.type = "unresolved-operation-match"}}
AuditAgrees(service, model) ==
    LET cat == service.cat
    IN /\ model.index.failed => model.audit = <<>> /\ model.advisory = <<>>
       /\ ~model.index.failed => \A i \in DOMAIN model.index.providers :
            LET provider == model.index.providers[i]
                report == model.index.reports[provider.id]
                audited == model.audit[i]
                advised == model.advisory[i]
                statuses == ChosenStatuses(report, provider)
            IN /\ audited.provider = provider.id /\ advised.provider = provider.id
               /\ ~audited.review => statuses \subseteq {report.status, "unknown"}
               /\ <<"select", "">> \in advised.followUps =>
                    \A d \in ToSet(report.dispositions) : BuiltInSecurity(report, d.spec).status \notin {"mixed", "conflict"}
               /\ <<"reconcile", "">> \in advised.followUps <=>
                    \E d \in ToSet(report.dispositions) : Disagree(cat.overlays, <<provider.id, d.spec>>)
       /\ model.again = [audit |-> model.audit, advisory |-> model.advisory]

(***************************************************************************)
(* A review tells of each reference what reading its own file would tell,  *)
(* but for another reference of another kind having been read first.  What *)
(* was exported can be read by the review and the audit, and both call a   *)
(* registered file unusable if one does.  Nothing is lost when it is       *)
(* counted: a file that exists but cannot be read counts as existing and   *)
(* as invalid, and of the invalid ones only those without a file stand     *)
(* beside the others.                                                      *)
(***************************************************************************)
Sum(f) == FoldFunction(+, 0, f)
ReviewAgrees(service, model) ==
    LET refs == model.rows
        results == model.review
        stats == BuildCatalogStatsReport(service.cat.providers, results)
        lost == {<<"replace", "">>}
        own(i) == SelectSeq(service.artifacts, LAMBDA a : a.provider = refs[i].provider)
        advice(id) == CHOOSE a \in ToSet(model.advisory) : a.provider = id
        audited(i) == UNION {{row.status : row \in {row \in ToSet(a.artifacts) : row.spec = refs[i].spec}} :
                                 a \in {a \in ToSet(model.audit) : a.provider = refs[i].provider}}
    IN /\ \A i \in DOMAIN refs :
            LET alone == ReviewArtifact(refs[i], service.cache, service.documents, service.contains)
                others == {j \in 1..(i - 1) : refs[j].path = refs[i].path /\ refs[i].path # NoPath}
            IN /\ [results[i] EXCEPT !.raw = alone.raw, !.protocol = alone.protocol, !.followUps = {}] = [alone EXCEPT !.followUps = {}]
               /\ (\A j \in others : refs[j].kind = refs[i].kind) =>
                    results[i].raw = alone.raw /\ results[i].protocol = alone.protocol
                    /\ results[i].followUps \cup lost = alone.followUps \cup lost
               /\ others = {} => results[i] = alone
               /\ model.advisory # <<>> =>
                    (<<"refresh", refs[i].spec>> \in advice(refs[i].provider).followUps <=> refs[i].path = NoPath)
               /\ Len(own(i)) = 1 /\ own(i)[1].path = refs[i].path =>
                    /\ ~model.export.failed /\ (\E r \in ToSet(model.export.reports) : r.provider = refs[i].provider) =>
                          results[i].status = "available" /\ "missing-file" \notin audited(i)
                    /\ "missing-file" \in audited(i) => results[i].status = "missing-file"
                    /\ results[i].status = "missing-file" => audited(i) \subseteq {"missing-file"}
                    /\ results[i].status = "invalid" /\ refs[i].path # NoPath => audited(i) \subseteq {"unparseable"}
       /\ model.again = model.audit
       /\ stats.existing + stats.unregistered + stats.missing
            + Tally(results, LAMBDA r : r.status = "invalid" /\ ~r.exists) = Len(refs)
       /\ \A i \in DOMAIN results :
            results[i].exists <=> results[i].saved \in DOMAIN service.cache /\ results[i].saved.local
       /\ Sum(stats.statuses) = Len(refs) /\ Sum(stats.protocols) = Len(refs)
       /\ UNION {stats.providers[p] : p \in DOMAIN stats.providers} = ToSet(IdsOf(service.cat.providers))
ReportsAgree(service, model) ==
    IF service.asked = "security" THEN QualityAgrees(service, model) /\ AuditAgrees(service, model)
    ELSE ReviewAgrees(service, model)
====
