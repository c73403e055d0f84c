---- MODULE Materialize ----
(***************************************************************************)
(* materialize.go: what is known of the artifacts of a provider, and the   *)
(* tree that is made of them.  An artifact is the row of Catalog; its      *)
(* digest stands for the content it has to have.  The tree goes through a  *)
(* directory transaction: DirTransaction models how that is published, and *)
(* here it happens in one step.                                            *)
(***************************************************************************)
EXTENDS Catalog

CONSTANT Stem       \* identifiers that are no file name, with what is made of them

(***************************************************************************)
(* Capability.  A provider with one model only has the name of the model.  *)
(***************************************************************************)
ArtifactKindProtocol(kind) ==
    CASE kind = "advisory-overlay" -> "openapi"
      [] kind = "swagger" -> "swagger"
      [] OTHER -> KindProtocol(kind)
ArtifactProtocol(artifact, provider) ==
    LET refs == SelectSeq(provider.specs, LAMBDA ref : ref.id = artifact.spec)
    IN IF refs = <<>> THEN ArtifactKindProtocol(artifact.kind) ELSE Protocol(Last(refs))
IsExecutable(artifact, provider) ==
    /\ artifact.kind # "advisory-overlay" /\ ArtifactProtocol(artifact, provider) \in {"openapi", "swagger"}
    /\ artifact.validation \in {"", "valid"}
\* The families of models, each with those beside which it is still called
\* the only one.
Models == {"google-discovery", "smithy", "openrpc", "graphql", "grpc-protobuf", "odata"}
Beside(model) == IF model \in {"google-discovery", "smithy"} THEN {model, "openrpc"} ELSE {model}
ProviderArtifactCapability(provider, artifacts) ==
    LET protocols == {Protocol(provider.specs[i]) : i \in DOMAIN provider.specs}
        models == protocols \cap Models
        sole == {m \in models : models \subseteq Beside(m)}
    IN IF \E i \in DOMAIN artifacts : IsExecutable(artifacts[i], provider) THEN "executable-openapi"
       ELSE IF protocols \cap {"openapi", "swagger"} # {} THEN "openapi-reference-only"
       ELSE IF \E i \in DOMAIN artifacts : artifacts[i].kind = "advisory-overlay" THEN "advisory-overlay-only"
       ELSE IF sole # {} THEN CHOOSE m \in sole : TRUE
       ELSE IF models # {} THEN "mixed-metadata"
       ELSE IF "human-docs" \in protocols THEN "docs-only"
       ELSE "unknown"

(***************************************************************************)
(* Resolution of providers.                                                *)
(***************************************************************************)
Artifacts(rows, provider) ==
    SortedBy(SelectSeq(rows, LAMBDA a : a.provider = provider), LAMBDA a : <<a.spec, a.id>>)
Overlays(overlays, provider) == SelectSeq(SortSecurityOverlays(overlays), LAMBDA o : o.provider = provider)
ProviderResolution(provider, artifacts, overlays) ==
    [provider |-> provider.id, capability |-> ProviderArtifactCapability(provider, artifacts),
     specs |-> SortedBy([i \in DOMAIN provider.specs |-> <<provider.specs[i].id, Protocol(provider.specs[i])>>], LAMBDA r : <<r[1]>>),
     artifacts |-> [i \in DOMAIN artifacts |->
                      [id |-> artifacts[i].id, protocol |-> ArtifactProtocol(artifacts[i], provider),
                       materializable |-> artifacts[i].path # NoPath]],
     overlays |-> IdsOf(overlays), followUp |-> artifacts = <<>>]
Keyed(cat, keys, i) == FindProvider(cat.providers, keys[i])
IsRepeated(cat, keys, i) == \E j \in 1..(i - 1) : Head(Keyed(cat, keys, j)).id = Head(Keyed(cat, keys, i)).id
\* The providers of the keys, each once; nothing if a key is unknown.
ProvidersOf(cat, keys) ==
    LET kept == SelectSeq([i \in DOMAIN keys |-> i], LAMBDA i : ~IsRepeated(cat, keys, i))
    IN IF \E i \in DOMAIN keys : Keyed(cat, keys, i) = <<>> THEN <<>>
       ELSE [n \in DOMAIN kept |-> Head(Keyed(cat, keys, kept[n]))]
ResolveProviders(cat, artifacts, keys) ==
    LET providers == ProvidersOf(cat, keys)
    IN IF ~ValidCatalog(cat) \/ providers = <<>> THEN <<>>
       ELSE SortedBy([i \in DOMAIN providers |->
                        ProviderResolution(providers[i], Artifacts(artifacts, providers[i].id),
                                           Overlays(cat.overlays, providers[i].id))], LAMBDA r : <<r.provider>>)

(***************************************************************************)
(* Staging.  A tree is a function from places <<prefix, directory, file>>  *)
(* to contents; a stage is [failed, tree, checks], where checks counts how *)
(* often the context is still found to be alive.                           *)
(***************************************************************************)
ArtifactId(artifact) ==
    CASE artifact.id # "" -> artifact.id
      [] artifact.id = "" /\ artifact.spec # "" -> artifact.spec
      [] OTHER -> "artifact"
SafeFileStem(id) == IF id \in DOMAIN Stem THEN Stem[id] ELSE id
FileName(artifact) ==
    <<SafeFileStem(ArtifactId(artifact)),
      CASE artifact.path.ext # "" -> artifact.path.ext
        [] artifact.path.ext = "" /\ artifact.kind \in RefreshableKinds \cup {"advisory-overlay", "swagger"}
                                     /\ artifact.kind # "dropbox-stone" -> ".json"
        [] OTHER -> ".artifact">>
SourceDir(artifact) ==
    LET dir == SourceAlignedArtifactDir(ArtifactKindProtocol(artifact.kind)) IN IF dir = "" THEN "artifacts" ELSE dir

FailStage(stage) == [stage EXCEPT !.failed = TRUE]
CheckContext(stage) == IF stage.checks = 0 THEN FailStage(stage) ELSE [stage EXCEPT !.checks = @ - 1]
\* A variant with a bug: the later artifact replaces the earlier one.
ReplaceFile(stage, place, content) ==
    IF stage.failed THEN stage ELSE [stage EXCEPT !.tree = (place :> content) @@ @]
\* A file that exists must have the content that is staged.
StageFile(stage, place, content) ==
    IF stage.failed \/ (place \in DOMAIN stage.tree /\ stage.tree[place] # content) THEN FailStage(stage)
    ELSE [stage EXCEPT !.tree = (place :> content) @@ @]
ArtifactPlace(prefix, artifact) == <<prefix, SourceDir(artifact), FileName(artifact)>>
OverlayPlace(prefix, overlay) == <<prefix, "security-overlays", <<overlay.id, ".json">> >>
ManifestPlace(prefix) == <<prefix, "", <<"provenance", ".json">> >>
IsReadable(cache, artifact) ==
    /\ artifact.path.local /\ artifact.digest # ""
    /\ artifact.path \in DOMAIN cache /\ cache[artifact.path] = artifact.digest
StageArtifact(stage, prefix, cache, artifact) ==
    LET checked == CheckContext(stage)
    IN IF ~IsReadable(cache, artifact) THEN FailStage(checked)
       ELSE StageFile(checked, ArtifactPlace(prefix, artifact), <<"data", cache[artifact.path]>>)
StageProvider(stage, prefix, cache, provider, artifacts, overlays, manifest) ==
    LET copied == FoldLeft(LAMBDA s, a : StageArtifact(s, prefix, cache, a), stage, artifacts)
        supplied == FoldLeft(LAMBDA s, o : StageFile(CheckContext(s), OverlayPlace(prefix, o), <<"overlay", o.id>>),
                             copied, overlays)
    IN IF manifest THEN StageFile(supplied, ManifestPlace(prefix), <<"manifest", provider.id>>) ELSE supplied
MaterializationReport(provider, prefix, artifacts, overlays, rows) ==
    [provider |-> provider.id, capability |-> ProviderArtifactCapability(provider, rows),
     artifacts |-> [i \in DOMAIN artifacts |->
         [id |-> ArtifactId(artifacts[i]), target |-> ArtifactPlace(prefix, artifacts[i]), digest |-> artifacts[i].digest]],
     overlays |-> [i \in DOMAIN overlays |-> [id |-> overlays[i].id, target |-> OverlayPlace(prefix, overlays[i])]],
     followUp |-> artifacts = <<>>]

\* What was there stays when it is the same; it is replaced only by force.
NoTree == <<>>
Publish(options, stage, reports) ==
    LET same == stage.tree = options.target
    IN IF stage.failed \/ (options.target # NoTree /\ ~same /\ ~options.force)
       THEN [failed |-> TRUE, target |-> options.target, reports |-> <<>>, reused |-> FALSE]
       ELSE [failed |-> FALSE, target |-> stage.tree, reports |-> reports, reused |-> same /\ options.target # NoTree]
\* The options are [cat, keys, artifacts, cache, overlays, manifest, force,
\* target, confined, checks]; target is the tree at the destination, confined
\* says that this is a place below the workflow.
Included(options, id) == IF options.overlays THEN Overlays(options.cat.overlays, id) ELSE <<>>
StageExport(options, stage, i) ==
    LET provider == Head(Keyed(options.cat, options.keys, i))
        checked == CheckContext(stage)
    IN IF checked.failed \/ IsRepeated(options.cat, options.keys, i) THEN checked
       ELSE StageProvider(checked, provider.id, options.cache, provider, Artifacts(options.artifacts, provider.id),
                          Included(options, provider.id), TRUE)
ExportWorkflowArtifacts(options) ==
    LET providers == ProvidersOf(options.cat, options.keys)
        start == [failed |-> ~options.confined \/ ~ValidCatalog(options.cat) \/ providers = <<>>, tree |-> NoTree,
                  checks |-> options.checks]
        staged == FoldLeft(LAMBDA s, i : StageExport(options, s, i), start, [i \in DOMAIN options.keys |-> i])
        all == IF options.manifest THEN StageFile(staged, ManifestPlace(""), <<"manifest", "">>) ELSE staged
        report(p) == MaterializationReport(p, p.id, Artifacts(options.artifacts, p.id), Included(options, p.id),
                                           Artifacts(options.artifacts, p.id))
    IN Publish(options, all, SortedBy([i \in DOMAIN providers |-> report(providers[i])], LAMBDA r : <<r.provider>>))
MaterializeProvider(options) ==
    LET providers == ProvidersOf(options.cat, SubSeq(options.keys, 1, 1))
        provider == Head(providers)
        rows == Artifacts(options.artifacts, provider.id)
        start == [failed |-> options.checks = 0, tree |-> NoTree, checks |-> options.checks - 1]
        stage == StageProvider(start, "", options.cache, provider, rows, Included(options, provider.id), options.manifest)
        report == MaterializationReport(provider, "", rows, Included(options, provider.id), rows)
    IN IF ~options.confined \/ ~ValidCatalog(options.cat) \/ providers = <<>>
       THEN Publish(options, [failed |-> TRUE, tree |-> NoTree, checks |-> 0], <<>>)
       ELSE Publish(options, stage, <<report>>)
====
