---- MODULE Catalog ----
(***************************************************************************)
(* The records of the provider catalog: provider.go, candidate.go and      *)
(* spec_protocol.go of the package catalog, and the rows of refresh.go.    *)
(*                                                                         *)
(* A provider is [id, name, aliases, review, candidate, openapi, machine,  *)
(* specs, filled]; filled says that its mandatory texts are there and the  *)
(* values of its enumerations exist.  It also has a need for interfaces of *)
(* its users, and hinted says that its sources are named.  A reference to  *)
(* a specification is [id, kind, swagger, sourced, noted, verified];       *)
(* swagger says that its id, version or note names Swagger or OpenAPI 2.0, *)
(* sourced that it has an https URL and an authority, noted that it has a  *)
(* note, and verified is "" or what there is to say of its date: "fresh",  *)
(* "stale" or "invalid".                                                   *)
(***************************************************************************)
EXTENDS Sorting, SequencesExt

CONSTANTS
    Key,    \* names that are not their own lookup key, with their key
    Ids     \* the well-formed identifiers

NormalizeKey(name) == IF name \in DOMAIN Key THEN Key[name] ELSE name
LookupKeys(entry) == {NormalizeKey(n) : n \in {entry.id, entry.name} \cup ToSet(entry.aliases)} \ {""}
ValidId(id) == id \in Ids

\* No key leads to two entries; the identifier is among the keys of its entry.
KeysDiffer(entries) ==
    \A i, j \in DOMAIN entries : i # j => LookupKeys(entries[i]) \cap LookupKeys(entries[j]) = {}

IdsOf(entries) == [i \in DOMAIN entries |-> entries[i].id]
IsSortedBy(s, SortKey(_)) == \A i \in 1..(Len(s) - 1) : ~Precedes(SortKey(s[i + 1]), SortKey(s[i]))
SortedStrings(S) == SetToSortSeq(S, LAMBDA s, t : Precedes(<<s>>, <<t>>))

(***************************************************************************)
(* References, providers and candidates.                                   *)
(***************************************************************************)
OpenAPIKinds == {"openapi", "openapi-index"}
MachineKinds ==
    {"dropbox-stone", "google-discovery", "smithy-json", "asyncapi", "openrpc", "graphql", "grpc-protobuf", "odata"}
RefreshableKinds == OpenAPIKinds \cup MachineKinds
SpecKinds == RefreshableKinds \cup {"human-docs"}

ValidSpecReference(ref) == ValidId(ref.id) /\ ref.kind \in SpecKinds /\ ref.sourced /\ ref.noted
HasSpecKind(provider, kinds) == \E i \in DOMAIN provider.specs : provider.specs[i].kind \in kinds
HasSpecRef(provider, id) == \E i \in DOMAIN provider.specs : provider.specs[i].id = id
ValidProvider(provider) ==
    /\ ValidId(provider.id) /\ provider.filled
    /\ provider.review = "reviewed-catalog-entry" => provider.candidate # ""
    /\ provider.candidate # "" => ValidId(provider.candidate)
    /\ \A i \in DOMAIN provider.specs : ValidSpecReference(provider.specs[i])
    /\ IsInjective(IdsOf(provider.specs))
    /\ provider.openapi = "known" => HasSpecKind(provider, OpenAPIKinds)
    /\ provider.machine = "known" => HasSpecKind(provider, MachineKinds)
ValidateProviders(providers) ==
    (\A i \in DOMAIN providers : ValidProvider(providers[i])) /\ KeysDiffer(providers)

\* A candidate is [id, name, aliases, filled, fixture, evidence, machineKind,
\* machineStatus], its evidence a sequence of <<source, ref>>.
ValidCandidate(candidate) ==
    /\ ValidId(candidate.id) /\ candidate.filled
    /\ candidate.fixture # "" => <<"local-openapi-fixture", candidate.fixture>> \in ToSet(candidate.evidence)
    /\ candidate.machineKind # "" => candidate.machineStatus # "unknown"
    /\ IsInjective(candidate.evidence)
ValidateCandidates(candidates) ==
    (\A i \in DOMAIN candidates : ValidCandidate(candidates[i])) /\ KeysDiffer(candidates)

ListProviders(providers) == SortedBy(providers, LAMBDA p : <<p.id>>)
\* The providers a key leads to, in the order of their identifiers; the first
\* one is found.
FindProvider(providers, key) ==
    SelectSeq(ListProviders(providers), LAMBDA p : NormalizeKey(key) \in LookupKeys(p))

(***************************************************************************)
(* Protocols.                                                              *)
(***************************************************************************)
KindProtocol(kind) ==
    CASE kind = "smithy-json" -> "smithy"
      [] kind \in SpecKinds \ {"smithy-json"} -> kind
      [] OTHER -> "unknown"
Protocol(ref) == IF ref.kind = "openapi" /\ ref.swagger THEN "swagger" ELSE KindProtocol(ref.kind)
UWSSourceType(protocol) ==
    CASE protocol \in {"openapi", "swagger"} -> "openapi"
      [] protocol = "smithy" -> "aws-smithy"
      [] protocol \in {"google-discovery", "asyncapi", "openrpc", "graphql", "grpc-protobuf", "odata"} -> protocol
      [] OTHER -> ""
SourceAlignedArtifactDir(protocol) == UWSSourceType(protocol)

(***************************************************************************)
(* The references that a refresh may download.  An artifact is [provider,  *)
(* spec, id, kind, path, digest, validation], its path [dir, name, ext,    *)
(* local], local if it stays in the cache directory.                       *)
(***************************************************************************)
NoPath == [dir |-> "", name |-> "", ext |-> "", local |-> FALSE]
RegisteredArtifactPath(protocol, path) ==
    LET dir == SourceAlignedArtifactDir(protocol)
    IN IF dir # "" /\ path.dir = "openapi" THEN [path EXCEPT !.dir = dir] ELSE path
RegisteredPath(artifacts, provider, spec) ==
    LET registered ==
            SelectSeq(artifacts, LAMBDA a : a.provider = provider /\ a.spec = spec /\ a.path # NoPath)
    IN IF registered = <<>> THEN NoPath ELSE Last(registered).path
RefreshableSpecReferences(providers, artifacts) ==
    LET row(p, ref) ==
            [provider |-> p.id, spec |-> ref.id, kind |-> ref.kind, protocol |-> Protocol(ref), verified |-> ref.verified,
             path |-> RegisteredArtifactPath(Protocol(ref), RegisteredPath(artifacts, p.id, ref.id))]
        rows(p) == LET refs == SelectSeq(p.specs, LAMBDA ref : ref.kind \in RefreshableKinds)
                   IN [i \in DOMAIN refs |-> row(p, refs[i])]
    IN SortedBy(FlattenSeq([i \in DOMAIN providers |-> rows(providers[i])]), LAMBDA r : <<r.provider, r.spec>>)

----------------------------------------------------------------------------
(***************************************************************************)
(* What the catalog knows of the security of a provider: security.go,      *)
(* overlay.go, report.go, bundle.go, index.go, resolve.go, inspection.go.  *)
(*                                                                         *)
(* Evidence is about one specification of a provider or, without one,      *)
(* about the provider.  A classification is [provider, spec, status,       *)
(* sourced]; an overlay is [id, provider, spec, status, sourced, schemes,  *)
(* root, rootSets, operations], where a scheme is [name, valid], a         *)
(* requirement is the name of a scheme, a set is a sequence of             *)
(* requirements, and an operation is [match, security, sets].              *)
(***************************************************************************)
EvidenceStatuses ==
    {"complete", "present-incomplete", "absent", "overlay-required", "intentionally-anonymous", "unknown"}

(***************************************************************************)
(* Validation.  Known are the names a requirement may refer to.            *)
(***************************************************************************)
SchemeNames(schemes) == {schemes[i].name : i \in DOMAIN schemes}
SchemesHold(schemes) == \A i \in DOMAIN schemes : schemes[i].valid
NamedOnce(schemes) == Cardinality(SchemeNames(schemes)) = Len(schemes)
SetHolds(set, known) == set # <<>> /\ IsInjective(set) /\ ToSet(set) \subseteq known
SetsHold(sets, known) == \A i \in DOMAIN sets : SetHolds(sets[i], known)
MatchHolds(match) ==
    /\ match.id # "" \/ match.method # "" \/ match.path # "" \/ match.tags # {}
    /\ match.method # "" <=> match.path # ""
OperationHolds(op, known) ==
    MatchHolds(op.match) /\ ToSet(op.security) \subseteq known /\ SetsHold(op.sets, known)
RootHolds(metadata, known) == ToSet(metadata.root) \subseteq known /\ SetsHold(metadata.rootSets, known)

IsSecured(op) == op.security # <<>> \/ op.sets # <<>>
ClassifyAuthCompleteness(metadata, anonymous) ==
    LET names == SchemeNames(metadata.schemes)
        required == \/ metadata.root # <<>> \/ metadata.rootSets # <<>>
                    \/ \E i \in DOMAIN metadata.operations : IsSecured(metadata.operations[i])
        sound == /\ names # {} /\ required /\ SchemesHold(metadata.schemes) /\ NamedOnce(metadata.schemes)
                 /\ RootHolds(metadata, names)
                 /\ \A i \in DOMAIN metadata.operations :
                      IsSecured(metadata.operations[i]) => OperationHolds(metadata.operations[i], names)
    IN CASE names = {} /\ ~required -> IF anonymous THEN "intentionally-anonymous" ELSE "absent"
         [] sound -> "complete"
         [] OTHER -> "present-incomplete"

\* The provider and the specification exist, and the status is no derived one.
EvidenceHolds(evidence, providers) ==
    /\ evidence.status \in EvidenceStatuses /\ evidence.sourced
    /\ \E i \in DOMAIN providers :
         providers[i].id = evidence.provider /\ (evidence.spec = "" \/ HasSpecRef(providers[i], evidence.spec))
ValidOverlay(o, providers) ==
    /\ ValidId(o.id) /\ EvidenceHolds(o, providers) /\ SchemesHold(o.schemes) /\ NamedOnce(o.schemes)
    /\ RootHolds(o, SchemeNames(o.schemes))
    /\ \A i \in DOMAIN o.operations : OperationHolds(o.operations[i], SchemeNames(o.schemes))
ValidateSecurityOverlays(overlays, providers) ==
    (\A i \in DOMAIN overlays : ValidOverlay(overlays[i], providers)) /\ IsInjective(IdsOf(overlays))
Scope(evidence) == <<evidence.provider, evidence.spec>>
ValidateSecurityClassifications(classifications, providers) ==
    /\ \A i \in DOMAIN classifications : EvidenceHolds(classifications[i], providers)
    /\ IsInjective([i \in DOMAIN classifications |-> Scope(classifications[i])])

(***************************************************************************)
(* The report: a disposition for each scope that has evidence.             *)
(***************************************************************************)
SortSecurityOverlays(overlays) == SortedBy(overlays, LAMBDA o : <<o.provider, o.id>>)
SecurityDisposition(provider, spec, classifications, overlays) ==
    LET given == {c \in ToSet(classifications) : Scope(c) = <<provider, spec>>}
        supplements == {o \in ToSet(overlays) : Scope(o) = <<provider, spec>>}
        classified == {c.status : c \in given}
        said == {o.status : o \in supplements}
        effective == IF said = {} THEN classified ELSE said
    IN [spec |-> spec, classified |-> classified, overlaid |-> IF Cardinality(said) = 1 THEN said ELSE {},
        conflicts |-> IF Cardinality(said) > 1 THEN said ELSE {},
        status |-> CASE effective = {} -> "unknown"
                     [] Cardinality(effective) = 1 -> CHOOSE s \in effective : TRUE
                     [] OTHER -> "conflict",
        overlays |-> SortedStrings({o.id : o \in supplements})]
AggregateStatus(dispositions) ==
    LET statuses == {dispositions[i].status : i \in DOMAIN dispositions}
    IN CASE statuses = {} -> "unknown"
         [] "conflict" \in statuses -> "conflict"
         [] Cardinality(statuses) = 1 -> CHOOSE s \in statuses : TRUE
         [] OTHER -> "mixed"
ProviderReport(provider, classifications, overlays) ==
    LET of(evidence) == {e.spec : e \in {e \in ToSet(evidence) : e.provider = provider}}
        scopes == SortedStrings(of(classifications) \cup of(overlays))
        dispositions ==
            [i \in DOMAIN scopes |-> SecurityDisposition(provider, scopes[i], classifications, overlays)]
    IN [status |-> AggregateStatus(dispositions), dispositions |-> dispositions,
        overlays |-> SortedStrings(UNION {ToSet(dispositions[i].overlays) : i \in DOMAIN dispositions}),
        specs |-> SelectSeq(scopes, LAMBDA s : s # "")]
\* A variant with a bug: the disposition of another specification will do.
ResolveAnyDisposition(report, spec) ==
    SelectSeq(report.dispositions, LAMBDA d : spec # "" /\ d.spec = spec) \o report.dispositions
\* The dispositions that count for a specification, the first one most: its
\* own, and that of the provider.
ResolveDisposition(report, spec) ==
    SelectSeq(report.dispositions, LAMBDA d : spec # "" /\ d.spec = spec)
    \o SelectSeq(report.dispositions, LAMBDA d : d.spec = "")

(***************************************************************************)
(* A catalog is [candidates, providers, classifications, overlays]; as a   *)
(* bundle, which is what the built-in one is made from, it is also sorted. *)
(***************************************************************************)
ValidCatalog(cat) ==
    ValidateProviders(cat.providers) /\ ValidateSecurityOverlays(cat.overlays, cat.providers)
IsOrdered(cat) ==
    /\ IsSortedBy(cat.candidates, LAMBDA c : <<c.id>>) /\ IsSortedBy(cat.providers, LAMBDA p : <<p.id>>)
    /\ IsSortedBy(cat.classifications, LAMBDA c : Scope(c))
    /\ IsSortedBy(cat.overlays, LAMBDA o : <<o.provider, o.id>>)
ValidateCatalogBundle(cat) ==
    /\ cat.candidates # <<>> /\ cat.providers # <<>>
    /\ ValidateCandidates(cat.candidates) /\ ValidCatalog(cat)
    /\ ValidateSecurityClassifications(cat.classifications, cat.providers)
    /\ IsOrdered(cat)
    /\ \A i \in DOMAIN cat.providers :
         /\ cat.providers[i].candidate \in ToSet(IdsOf(cat.candidates))
         /\ ProviderReport(cat.providers[i].id, cat.classifications, cat.overlays).status # "conflict"

\* With the built-in bundle come indexes that were generated: the position of
\* each identifier, and the positions of what a provider owns.  The program
\* does not start unless they hold.
IdIndexHolds(index, ids) ==
    /\ Cardinality(DOMAIN index) = Len(ids)
    /\ \A id \in DOMAIN index : index[id] \in DOMAIN ids /\ ids[index[id]] = id
    /\ IsInjective(index)
GroupIndexHolds(groups, owners) ==
    /\ \A p \in DOMAIN groups : IsInjective(groups[p]) /\ \A i \in ToSet(groups[p]) : i \in DOMAIN owners /\ owners[i] = p
    /\ UNION {ToSet(groups[p]) : p \in DOMAIN groups} = DOMAIN owners
OwnersOf(evidence) == [i \in DOMAIN evidence |-> evidence[i].provider]
\* The name index is made at the start; the overlays come in the order of their group.
BuiltInProvider(cat, key) ==
    LET holders == {i \in DOMAIN cat.providers : NormalizeKey(key) \in LookupKeys(cat.providers[i])}
    IN IF holders = {} THEN <<>> ELSE <<cat.providers[Max(holders)]>>
SecurityOverlaysForProvider(cat, groups, key) ==
    LET found == BuiltInProvider(cat, key)
    IN IF found = <<>> \/ Head(found).id \notin DOMAIN groups THEN <<>>
       ELSE [i \in DOMAIN groups[Head(found).id] |-> cat.overlays[groups[Head(found).id][i]]]

\* The index: [failed, providers, lookup, overlays, reports].
NewCatalogIndex(cat) ==
    LET providers == ListProviders(cat.providers)
        overlays == SortSecurityOverlays(cat.overlays)
        keys == UNION {LookupKeys(providers[i]) : i \in DOMAIN providers}
        ids == ToSet(IdsOf(providers))
    IN IF ~(ValidCatalog(cat) /\ ValidateSecurityClassifications(cat.classifications, cat.providers))
       THEN [failed |-> TRUE]
       ELSE [failed |-> FALSE, providers |-> providers,
             lookup |-> [k \in keys |-> Max({i \in DOMAIN providers : k \in LookupKeys(providers[i])})],
             overlays |-> [p \in ids |-> SelectSeq(overlays, LAMBDA o : o.provider = p)],
             reports |-> [p \in ids |-> ProviderReport(p, cat.classifications, cat.overlays)]]
Indexed(index, key) ==
    LET k == NormalizeKey(key)
    IN IF k \in DOMAIN index.lookup THEN <<index.providers[index.lookup[k]]>> ELSE <<>>
\* Only the identifier of the provider will do.
FindSpecReference(index, provider, spec) ==
    LET found == Indexed(index, provider)
    IN IF found = <<>> \/ Head(found).id # provider THEN <<>>
       ELSE SelectSeq(Head(found).specs, LAMBDA ref : ref.id = spec)

(***************************************************************************)
(* Resolution.  The options are [key, user, userOverlay, local], the last  *)
(* three the kind of a reference: "" if there is none, "path", "http",     *)
(* "https", or "other" for another scheme.                                 *)
(***************************************************************************)
ResolutionKinds ==
    <<"openapi", "openapi-index", "dropbox-stone", "google-discovery", "smithy-json", "human-docs">>
PreferredSpecReference(provider) ==
    FlattenSeq([k \in DOMAIN ResolutionKinds |->
        SelectSeq(provider.specs, LAMBDA ref : ref.kind = ResolutionKinds[k])])
Chosen(source) == [source |-> source, spec |-> "", overlay |-> ""]
Unresolved == [failed |-> TRUE, provider |-> "", openapi |-> Chosen("none"), security |-> Chosen("none"), status |-> "unknown"]
\* The security of the specification that was chosen; that of the provider as
\* a whole only if none was.
BuiltInSecurity(report, spec) ==
    LET found == ResolveDisposition(report, spec)
        selected ==
            CASE found # <<>> ->
                   [status |-> Head(found).status, overlays |-> Head(found).overlays,
                    specs |-> SelectSeq(<<Head(found).spec>>, LAMBDA s : s # "")]
              [] found = <<>> /\ spec = "" -> report
              [] OTHER -> [status |-> "unknown", overlays |-> <<>>, specs |-> <<>>]
        source ==
            CASE selected.status \in {"mixed", "conflict"} -> Chosen("none")
              [] selected.status \notin {"mixed", "conflict"} /\ selected.overlays # <<>> ->
                     [Chosen("built-in-security-overlay") EXCEPT !.overlay = Head(selected.overlays)]
              [] selected.status \notin {"mixed", "conflict", "unknown"} /\ selected.overlays = <<>> ->
                     [Chosen("security-classification") EXCEPT
                         !.spec = IF selected.specs = <<>> THEN "" ELSE Head(selected.specs)]
              [] OTHER -> Chosen("none")
    IN [status |-> selected.status, source |-> source]
ResolveProvider(index, options) ==
    LET found == Indexed(index, options.key)
        provider == Head(found)
        preferred == PreferredSpecReference(provider)
        openapi ==
            CASE options.user # "" -> Chosen("user-openapi")
              [] options.user = "" /\ options.local # "" -> Chosen("project-local-openapi")
              [] options.user = "" /\ options.local = "" /\ preferred # <<>> ->
                     [Chosen("built-in-spec-reference") EXCEPT !.spec = Head(preferred).id]
              [] OTHER -> Chosen("none")
        builtIn == BuiltInSecurity(index.reports[provider.id], openapi.spec)
        resolved == [Unresolved EXCEPT !.failed = FALSE, !.provider = provider.id, !.openapi = openapi]
    IN IF found = <<>> \/ "other" \in {options.user, options.userOverlay, options.local} THEN Unresolved
       ELSE CASE options.userOverlay # "" -> [resolved EXCEPT !.security = Chosen("user-security-overlay")]
              [] options.user = "" /\ options.local = "" /\ options.userOverlay = "" ->
                     [resolved EXCEPT !.security = builtIn.source, !.status = builtIn.status]
              [] OTHER -> resolved

(***************************************************************************)
(* Inspection: the view of what the overlays of a provider add, with the   *)
(* conflicts that a reviewer has to look at.  A match is [id, method,      *)
(* path, tags]; an entry of the view names the overlay it comes from.      *)
(***************************************************************************)
NoMatch == [id |-> "", method |-> "", path |-> "", tags |-> {}]
RequirementNames(o) ==
    ToSet(o.root) \cup UNION {ToSet(o.rootSets[i]) : i \in DOMAIN o.rootSets}
    \cup UNION {ToSet(o.operations[i].security) \cup UNION {ToSet(o.operations[i].sets[j]) : j \in DOMAIN o.operations[i].sets} :
                   i \in DOMAIN o.operations}
\* Here a requirement may name a scheme that nothing declares, and an overlay
\* may declare one twice: the view tells of it.
EnvelopeHolds(o, providers) ==
    /\ ValidId(o.id) /\ EvidenceHolds(o, providers) /\ SchemesHold(o.schemes)
    /\ SetsHold(o.rootSets, RequirementNames(o))
    /\ \A i \in DOMAIN o.operations : OperationHolds(o.operations[i], RequirementNames(o))

OperationMatchResolved(match, known) ==
    \E k \in known :
        \/ match.id # "" /\ match.id = k.id
        \/ (match.method # "" \/ match.path # "") /\ match.method = k.method /\ match.path = k.path
        \/ match.tags # {} /\ match.tags \subseteq k.tags

Conflict(type, o, scheme, match) == [type |-> type, overlay |-> o.id, spec |-> o.spec, scheme |-> scheme, match |-> match]
\* What of a plain list and the sets of a requirement counts: the sets, if any.
Plain(security, sets) == IF sets = <<>> THEN security ELSE <<>>
Missing(o, declared, security, sets, match) ==
    {Conflict("missing-referenced-scheme", o, s, match) :
        s \in (ToSet(Plain(security, sets)) \cup UNION {ToSet(sets[i]) : i \in DOMAIN sets}) \ declared}

\* The overlays in the order of their identifiers.  Declared are the names of
\* the schemes that this one and the earlier ones declare.
SchemeConflicts(o, earlier) ==
    UNION {{Conflict("overlay-only-addition", o, o.schemes[i].name, NoMatch)}
           \cup IF o.schemes[i].name \in earlier \cup SchemeNames(SubSeq(o.schemes, 1, i - 1))
                THEN {Conflict("duplicate-scheme-name", o, o.schemes[i].name, NoMatch)} ELSE {} : i \in DOMAIN o.schemes}
OperationConflicts(o, declared, known) ==
    UNION {LET op == o.operations[i]
           IN Missing(o, declared, op.security, op.sets, op.match)
              \cup IF OperationMatchResolved(op.match, known) THEN {}
                   ELSE {Conflict("unresolved-operation-match", o, "", op.match)} : i \in DOMAIN o.operations}
OverlayConflicts(overlays, n, known) ==
    LET o == overlays[n]
        earlier == UNION {SchemeNames(overlays[i].schemes) : i \in 1..(n - 1)}
        declared == earlier \cup SchemeNames(o.schemes)
    IN SchemeConflicts(o, earlier) \cup Missing(o, declared, o.root, o.rootSets, NoMatch)
       \cup OperationConflicts(o, declared, known)

EffectiveOperation(o, op, known) ==
    [match |-> op.match, overlay |-> o.id, security |-> Plain(op.security, op.sets), sets |-> ToSet(op.sets),
     provenance |-> IF OperationMatchResolved(op.match, known) THEN "overlay" ELSE "unresolved"]
\* The overlays and classifications of a provider, which have to hold for all
\* providers; the scopes of its classifications differ.
BuildSecurityInspectionView(cat, key, known) ==
    LET found == FindProvider(cat.providers, key)
        id == Head(found).id
        classifications == SelectSeq(cat.classifications, LAMBDA c : c.provider = id)
        overlays == SortSecurityOverlays(SelectSeq(cat.overlays, LAMBDA o : o.provider = id))
        from(Of(_)) == FlattenSeq([i \in DOMAIN overlays |-> Of(overlays[i])])
        entries(values, o) == [i \in DOMAIN values |-> <<values[i], o.id>>]
    IN IF \/ ~ValidateProviders(cat.providers) \/ found = <<>>
          \/ \E i \in DOMAIN cat.classifications : ~EvidenceHolds(cat.classifications[i], cat.providers)
          \/ ~IsInjective([i \in DOMAIN classifications |-> classifications[i].spec])
          \/ \E i \in DOMAIN cat.overlays : ~EnvelopeHolds(cat.overlays[i], cat.providers)
          \/ ~IsInjective(IdsOf(cat.overlays))
       THEN [failed |-> TRUE]
       ELSE [failed |-> FALSE, provider |-> id,
             status |-> ProviderReport(id, cat.classifications, cat.overlays).status,
             classifications |-> SortedBy([i \in DOMAIN classifications |-> <<classifications[i].spec, classifications[i].status>>],
                                          LAMBDA c : <<c[1]>>),
             schemes |-> SortedBy(from(LAMBDA o : entries([i \in DOMAIN o.schemes |-> o.schemes[i].name], o)), LAMBDA s : s),
             root |-> SortedBy(from(LAMBDA o : entries(Plain(o.root, o.rootSets), o)), LAMBDA r : r),
             rootSets |-> ToSet(from(LAMBDA o : entries(o.rootSets, o))),
             operations |-> ToSet(from(LAMBDA o :
                 [i \in DOMAIN o.operations |-> EffectiveOperation(o, o.operations[i], known)])),
             conflicts |-> UNION {OverlayConflicts(overlays, n, known) : n \in DOMAIN overlays}]
====
