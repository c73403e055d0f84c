---- MODULE CatalogReports ----
(***************************************************************************)
(* What the maintainers of the catalog are told: advisory.go and           *)
(* quality.go of the package catalog, catalog_security_audit.go,           *)
(* catalog_refresh_review.go and catalog_stats.go.  All of them only read: *)
(* a catalog, the rows of its artifacts, and a cache, which maps the paths *)
(* of files to their digests, or to Unreadable, what is there but is not   *)
(* read: a file that is too large, a link, a directory.  Documents maps a digest to [valid,          *)
(* structured, strict, version, schemes, root, operations]: the kinds the  *)
(* content is valid as, whether it is JSON or YAML at all, whether it is   *)
(* valid beyond its structure, "openapi", "swagger" or "", the schemes it  *)
(* declares and those required at its root and by each of its operations.  *)
(***************************************************************************)
EXTENDS Materialize

Unreadable == "unreadable"
PathText(path) == <<path.dir, path.name, path.ext>>

(***************************************************************************)
(* The advisory: what stands of each provider, and what is left to do.     *)
(***************************************************************************)
AdvisoryId(artifact) == IF artifact.id # "" THEN artifact.id ELSE artifact.spec
EndpointOverlays(artifacts, provider) ==
    SortedBy(SelectSeq(artifacts, LAMBDA a : /\ a.kind = "advisory-overlay" /\ a.provider = provider
                                             /\ a.path # NoPath /\ AdvisoryId(a) # ""),
             LAMBDA a : <<AdvisoryId(a)>> \o PathText(a.path))
Unregistered(provider, artifacts) ==
    {r \in ToSet(provider.specs) : r.kind \in RefreshableKinds /\ RegisteredPath(artifacts, provider.id, r.id) = NoPath}
FollowUps(provider, report, overlays, artifacts) ==
    (IF provider.need # "likely" THEN {}
     ELSE IF EndpointOverlays(artifacts, provider.id) # <<>> THEN {<<"endpoint overlay", "">>} ELSE {<<"user document", "">>})
    \cup (IF report.overlays # <<>> THEN {<<"security overlay", "">>} ELSE {})
    \cup (CASE report.status = "mixed" -> {<<"select", "">>}
            [] report.status = "conflict" -> {<<"reconcile", "">>}
            [] OTHER -> {})
    \cup {<<"refresh", ref.id>> : ref \in Unregistered(provider, artifacts)}
    \cup {<<"incomplete", o.id>> : o \in {o \in ToSet(overlays) : o.status = "present-incomplete"}}
ProviderAdvisory(index, provider, artifacts) ==
    LET report == index.reports[provider.id]
        resolved == ResolveProvider(index, [key |-> provider.id, user |-> "", userOverlay |-> "", local |-> ""])
    IN [provider |-> provider.id, status |-> report.status, overlays |-> report.overlays, dispositions |-> report.dispositions,
        openapi |-> resolved.openapi, security |-> resolved.security,
        paths |-> [i \in DOMAIN provider.specs |-> RegisteredPath(artifacts, provider.id, provider.specs[i].id)],
        endpoints |-> EndpointOverlays(artifacts, provider.id),
        followUps |-> FollowUps(provider, report, index.overlays[provider.id], artifacts)]
\* All providers, or the one that a key leads to.
BuildProviderAdvisoryReport(cat, key, artifacts) ==
    LET index == NewCatalogIndex(cat)
        providers == IF key = "" THEN index.providers ELSE Indexed(index, key)
    IN IF index.failed THEN <<>> ELSE [i \in DOMAIN providers |-> ProviderAdvisory(index, providers[i], artifacts)]

(***************************************************************************)
(* Quality: findings [code, provider, about].  Known are the operations of *)
(* some providers.                                                         *)
(***************************************************************************)
Warnings ==
    {"missing-provider-source-hints", "missing-verification-date", "stale-verification-date", "unexpected-user-openapi-need",
     "provider-candidate-lookup-conflict"}
Finding(code, provider, about) == [code |-> code, provider |-> provider, about |-> about]
Unless(holds, finding) == IF holds THEN {} ELSE {finding}
VerificationCode == [missing |-> "missing-verification-date", invalid |-> "invalid-verification-date", stale |-> "stale-verification-date"]
SpecReferenceQuality(provider, ref) ==
    LET date == IF ref.verified = "" THEN "missing" ELSE ref.verified
    IN Unless(ref.noted, Finding("missing-spec-source-note", provider.id, ref.id))
       \cup (IF date = "fresh" THEN {} ELSE {Finding(VerificationCode[date], provider.id, ref.id)})
NeedQuality(provider) ==
    Unless(HasSpecKind(provider, OpenAPIKinds \cup MachineKinds) \/ provider.need # "not-expected",
           Finding("inconsistent-user-openapi-need", provider.id, ""))
    \cup Unless(provider.openapi # "known" \/ provider.need # "likely", Finding("unexpected-user-openapi-need", provider.id, ""))
\* The statuses are those of the report, none if it could not be made.
ProviderQuality(provider, statuses) ==
    LET status == IF provider.id \in DOMAIN statuses THEN statuses[provider.id] ELSE "unknown"
    IN Unless(provider.hinted, Finding("missing-provider-source-hints", provider.id, ""))
       \cup Unless(provider.specs # <<>>, Finding("missing-spec-reference", provider.id, ""))
       \cup UNION {SpecReferenceQuality(provider, ref) : ref \in ToSet(provider.specs)}
       \cup NeedQuality(provider)
       \cup Unless(status # "unknown", Finding("missing-security-status", provider.id, ""))
       \cup Unless(status # "conflict", Finding("conflicting-security-status", provider.id, ""))
OverlayQuality(overlay, known) ==
    IF overlay.provider \notin DOMAIN known THEN {}
    ELSE {Finding("unresolved-overlay-operation", overlay.provider, overlay.id) :
             op \in {op \in ToSet(overlay.operations) : ~OperationMatchResolved(op.match, known[overlay.provider])}}
CandidateConflicts(providers, candidates) ==
    LET holders(key) == {i \in DOMAIN providers : key \in LookupKeys(providers[i])}
        conflicts(c) ==
            {providers[Max(holders(key))].id : key \in {key \in LookupKeys(c) : holders(key) # {}}} \ {c.id}
    IN UNION {{Finding("provider-candidate-lookup-conflict", id, c.id) : id \in conflicts(c)} : c \in ToSet(candidates)}
BuildCatalogQualityReport(cat, known) ==
    LET reported == ValidCatalog(cat) /\ ValidateSecurityClassifications(cat.classifications, cat.providers)
        statuses == IF ~reported THEN <<>>
                    ELSE [id \in ToSet(IdsOf(cat.providers)) |-> ProviderReport(id, cat.classifications, cat.overlays).status]
    IN Unless(ValidateProviders(cat.providers), Finding("invalid-providers", "", ""))
       \cup Unless(ValidateCandidates(cat.candidates), Finding("invalid-candidates", "", ""))
       \cup Unless(ValidateSecurityOverlays(cat.overlays, cat.providers), Finding("invalid-security-overlays", "", ""))
       \cup Unless(reported, Finding("invalid-security-classifications", "", ""))
       \cup UNION {ProviderQuality(p, statuses) : p \in ToSet(cat.providers)}
       \cup UNION {OverlayQuality(o, known) : o \in ToSet(cat.overlays)}
       \cup CandidateConflicts(cat.providers, cat.candidates)

(***************************************************************************)
(* The audit: what the documents in the cache say of their security, and   *)
(* whether that of a provider is settled.                                  *)
(***************************************************************************)
PrimaryProtocol(provider) ==
    LET ranked == SelectSeq(provider.specs, LAMBDA r : r.kind # "human-docs") \o provider.specs
    IN IF ranked = <<>> THEN "unknown" ELSE Protocol(Head(ranked))
AuditArtifactOf(artifacts, provider, spec) ==
    SelectSeq(SortedBy(SelectSeq(artifacts, LAMBDA a : a.provider = provider), LAMBDA a : <<a.spec>> \o PathText(a.path)),
              LAMBDA a : a.spec = spec \/ a.id = spec)
ArtifactSecurity(document) ==
    LET used == document.root \cup UNION document.operations
    IN CASE document.schemes = {} /\ used = {} -> "missing-security-metadata"
         [] document.schemes = {} /\ used # {} -> "missing-security-schemes"
         [] document.schemes # {} /\ used = {} -> "missing-security-requirements"
         [] document.schemes # {} /\ ~(used \subseteq document.schemes) -> "undeclared-security-schemes"
         [] OTHER -> "has-security-metadata"
SecurityFindings ==
    {"missing-security-metadata", "missing-security-schemes", "missing-security-requirements", "undeclared-security-schemes"}
ArtifactStatus(found, cache, documents) ==
    LET path == Head(found).path
        document == documents[cache[path]]
    IN IF found = <<>> \/ path = NoPath THEN "no-local-artifact"
       ELSE IF ~path.local THEN "unparseable"
       ELSE IF path \notin DOMAIN cache THEN "missing-file"
       ELSE IF cache[path] = Unreadable \/ ~document.structured THEN "unparseable"
       ELSE IF document.version = "" THEN "not-openapi-or-swagger"
       ELSE ArtifactSecurity(document)
\* The overlays about a specification, or that cite its address.
CoveringOverlays(ref, overlays) == {o.id : o \in {o \in overlays : o.spec = ref.id \/ ref.id \in o.cites}}
AuditedArtifact(provider, ref, cat, artifacts, cache, documents) ==
    LET status == ArtifactStatus(AuditArtifactOf(artifacts, provider.id, ref.id), cache, documents)
        mine == {o \in ToSet(cat.overlays) : o.provider = provider.id}
    IN [spec |-> ref.id, status |-> status,
        covered |-> IF status \in SecurityFindings THEN CoveringOverlays(ref, mine) ELSE {}]
Disposition(report) ==
    CASE report.status = "complete" /\ report.overlays = <<>> -> "complete-upstream"
      [] report.status = "present-incomplete" -> "present-incomplete-reviewed"
      [] report.status = "intentionally-anonymous" -> "intentionally-anonymous"
      [] report.status \notin {"present-incomplete", "intentionally-anonymous", "mixed", "conflict"} /\ report.overlays # <<>> ->
             "complete-via-overlay"
      [] OTHER -> "queued-source-re-review"
AuditedProvider(provider, cat, artifacts, cache, documents) ==
    LET report == ProviderReport(provider.id, cat.classifications, cat.overlays)
        refs == SelectSeq(provider.specs, LAMBDA r : Protocol(r) \in {"openapi", "swagger"})
        rows == [i \in DOMAIN refs |-> AuditedArtifact(provider, refs[i], cat, artifacts, cache, documents)]
    IN [provider |-> provider.id, protocol |-> PrimaryProtocol(provider), status |-> report.status, artifacts |-> rows,
        disposition |-> Disposition(report),
        review |-> \/ Disposition(report) = "queued-source-re-review"
                   \/ report.status = "present-incomplete" /\ \E i \in DOMAIN rows : rows[i].status \in SecurityFindings]
BuildCatalogSecurityAuditReport(cat, artifacts, cache, documents) ==
    LET providers == ListProviders(cat.providers)
    IN IF ~ValidCatalog(cat) \/ ~ValidateSecurityClassifications(cat.classifications, cat.providers) THEN <<>>
       ELSE [i \in DOMAIN providers |-> AuditedProvider(providers[i], cat, artifacts, cache, documents)]

(***************************************************************************)
(* The review: each reference that may be refreshed with the file that is  *)
(* saved for it.  A file nobody registered is found by its name: contains  *)
(* has the pairs of a name and another one it contains.                    *)
(***************************************************************************)
ReviewExtensions == {".json", ".yaml", ".tar.gz"}
Score(file, ref, contains) ==
    CASE file.name = ref.spec -> 3
      [] file.name # ref.spec /\ <<file.name, ref.spec>> \in contains -> 2
      [] file.name # ref.spec /\ <<file.name, ref.spec>> \notin contains
         /\ (file.name = ref.provider \/ <<file.name, ref.provider>> \in contains) -> 1
      [] OTHER -> 0
Discovered(ref, cache, contains) ==
    LET dir == SourceAlignedArtifactDir(ref.protocol)
        files == {f \in DOMAIN cache : /\ f.dir = IF dir = "" THEN "openapi" ELSE dir
                                       /\ f.ext \in ReviewExtensions /\ Score(f, ref, contains) > 0}
        better(f, g) == \/ Score(f, ref, contains) > Score(g, ref, contains)
                        \/ Score(f, ref, contains) = Score(g, ref, contains) /\ Precedes(PathText(f), PathText(g))
    IN IF files = {} THEN NoPath ELSE CHOOSE f \in files : \A g \in files \ {f} : better(f, g)
ValidationStatus(kind, document) ==
    CASE kind = "openapi" /\ document.version # "" -> <<IF document.strict THEN "valid" ELSE "parseable", document.version>>
      [] kind \in {"google-discovery", "openapi-index", "smithy-json", "asyncapi"} /\ document.structured -> <<"valid", "structured">>
      [] kind \in {"openrpc", "graphql", "grpc-protobuf", "odata"} /\ kind \in document.valid -> <<"valid", "structured">>
      [] kind = "dropbox-stone" -> <<"skipped", "">>
      [] OTHER -> <<"invalid", "">>
DateFollowUps(verified) == IF verified = "fresh" THEN {} ELSE {<<"date", verified>>}
StatusFollowUps(raw) ==
    CASE raw[1] \in {"valid", "skipped"} -> {<<"update", "">>}
      [] raw[1] = "parseable" -> {<<"strict", "">>}
      [] OTHER -> {}
Reviewed(ref, path, exists, status, raw, protocol, followUps) ==
    [provider |-> ref.provider, spec |-> ref.spec, kind |-> ref.kind, registered |-> ref.path, saved |-> path,
     exists |-> exists, status |-> status, raw |-> raw, protocol |-> protocol, stale |-> ref.verified = "stale",
     followUps |-> followUps \cup DateFollowUps(ref.verified) \cup StatusFollowUps(raw)]
ReviewArtifact(ref, cache, documents, contains) ==
    LET found == IF ref.path # NoPath THEN ref.path ELSE Discovered(ref, cache, contains)
        register == IF ref.path = NoPath THEN {<<"register", "">>} ELSE {}
        document == documents[cache[found]]
        raw == ValidationStatus(ref.kind, document)
        none(status, followUp) == Reviewed(ref, found, FALSE, status, <<"">>, ref.protocol, {<<followUp, "">>})
    IN IF found = NoPath THEN none("missing-registration", "refresh")
       ELSE IF ~found.local THEN none("invalid", "path")
       ELSE IF found \notin DOMAIN cache THEN none("missing-file", "restore")
       ELSE IF cache[found] = Unreadable
       THEN Reviewed(ref, found, TRUE, "invalid", <<"">>, ref.protocol, register \cup {<<"replace", "">>})
       ELSE Reviewed(ref, found, TRUE, "available", raw,
                     IF raw[1] \in {"valid", "parseable"} /\ raw[2] # "structured" THEN raw[2] ELSE ref.protocol,
                     register \cup IF raw[1] = "invalid" THEN {<<"replace", "">>} ELSE {})
\* A variant with a bug: the date and what is left to do stay those of the first.
ReusedWhole(ref, first) == [first EXCEPT !.provider = ref.provider, !.spec = ref.spec, !.kind = ref.kind]
\* A file that was read for one reference is not read for another: all but
\* the names, the kind and the dates are those of the first.
Reused(ref, first) == Reviewed(ref, first.saved, first.exists, first.status, first.raw, first.protocol, {})
\* The references are those of RefreshableSpecReferences, in its order, which
\* is the one the review sorts them by.
BuildCatalogSpecRefreshReview(refs, cache, documents, contains) ==
    LET review(results, ref) ==
            LET earlier == SelectSeq(results, LAMBDA r : ref.path # NoPath /\ r.registered = ref.path /\ r.exists)
            IN Append(results, IF earlier = <<>> THEN ReviewArtifact(ref, cache, documents, contains)
                               ELSE Reused(ref, Head(earlier)))
    IN FoldLeft(review, <<>>, refs)

(***************************************************************************)
(* Statistics: how many there are of each, and which.                      *)
(***************************************************************************)
ProtocolOrder == {KindProtocol(kind) : kind \in SpecKinds} \cup {"swagger", "unknown"}
StatusOf(result) == IF result.raw = <<"">> THEN <<result.status>> ELSE result.raw
Tally(results, Holds(_)) == Len(SelectSeq(results, Holds))
BuildCatalogStatsReport(providers, results) ==
    [providers |-> [protocol \in ProtocolOrder |-> {p.id : p \in {p \in ToSet(providers) : PrimaryProtocol(p) = protocol}}],
     registered |-> Tally(results, LAMBDA r : r.registered # NoPath),
     existing |-> Tally(results, LAMBDA r : r.exists),
     unregistered |-> Tally(results, LAMBDA r : r.status = "missing-registration"),
     missing |-> Tally(results, LAMBDA r : r.status = "missing-file"),
     invalid |-> Tally(results, LAMBDA r : r.status = "invalid" \/ r.raw[1] = "invalid"),
     stale |-> Tally(results, LAMBDA r : r.stale),
     statuses |-> [s \in {StatusOf(r) : r \in ToSet(results)} |-> Tally(results, LAMBDA r : StatusOf(r) = s)],
     protocols |-> [p \in ProtocolOrder |-> Tally(results, LAMBDA r : r.protocol = p)]]
====
