# A verification of apitools in TLA+

apitools (Go module `github.com/OpenUdon/apitools`) finds API descriptions
(OpenAPI, Swagger, Google Discovery, AWS Smithy, gRPC, GraphQL, OData, OpenRPC),
keeps them in a local artifact directory and an SQLite cache, curates a catalog
of providers, and reduces the descriptions to operation inventories that are
safe to hand to a model.  This directory holds the TLA+ modules that model it,
the TLC configurations that check them and the proofs that TLAPS checks.

Paths below are relative to the root of the repository.

1. [Inventory](#inventory)
2. [How the components interact](#how-the-components-interact)
3. [The modules and the code](#the-modules-and-the-code)
4. [The runs](#the-runs)
5. [Disagreements between the code and its documents](#disagreements-between-the-code-and-its-documents)
6. [The proofs](#the-proofs)
7. [Limits of the models](#limits-of-the-models)
8. [Plan](#plan)

## Inventory

### Components that keep state others can see

| Component | Source | State | Operations | What is hard | What makes it correct |
|---|---|---|---|---|---|
| Artifact files | `internal/artifactio/artifactio.go` (`WriteFile`, `ReadFile`) | one file per artifact; stage and backup files beside it | write with or without Force, read with a digest | several processes without a lock; a system call that fails halfway through a replacement; crash, power loss | a file at the path is complete; a published version is never lost; without Force nobody else's content is replaced; success is durable |
| Directory transactions | same file (`DirTransaction`) | a published directory, private stages, backups | `BeginDir`, `Stage`, `Commit`, `Rollback` | as above; two trees are compared while one changes | the destination is one whole tree; reuse is only of a tree that was there |
| SQLite cache, rows | `sqlitecache/cache.go` | four tables of `cache.sqlite` | open, store and load searches, documents and artifacts, list, prune | one database under several processes with different limits; arguments, clock readings and files are read before the transaction | limits hold; a hit is fresh, within budget and what was stored; retention is least-recently-used |
| SQLite cache, schema | `sqlitecache/cache.go` (`migrate`) | columns and version of the database | every `Open` migrates | several processes migrate at once, crash between statements | no document is lost, an open cache can be used, opening works again after a crash |
| Download and cache modes | `download.go` | rows of the cache | `downloadSpecWithCache` in the modes auto, refresh, offline, bypass | a row whose file a refresh has replaced; redirects | what is returned was served for that URL; an untrusted row is repaired, not returned |
| Catalog refresh | `catalog_refresh.go`, `sqlitecache/catalog_refresh.go`, `cmd/apitools/main.go` | files of the cache directory, rows | download all references, write their files, then register them | failure or death between files and rows; two refreshes | success means registered; a row disagrees with its file only for a known reason |
| Local source discovery | `local_source_discovery.go`, `local_read.go` | a report under construction | `DiscoverLocalSources` | overlapping roots, links, files that change, two limits, duplicates | limits hold; each source is in the report once; nothing is dropped silently |
| Import and project discovery | `import.go`, `discovery.go`, `local.go` | imported files in a project directory | `Import`, `writeUniqueFile`, `Discoverer` | importers that race for a name; a crash leaves a partial file under its final name | nobody's file is overwritten; a file in the report is whole |
| Materialization and export | `catalog/materialize.go` | a directory of artifacts | stage all artifacts and a manifest, publish in one transaction | which names collide, which failure leaves what | the export holds every artifact where its report says, or nothing changed |

### Components that compute

| Component | Source | Operations | What is hard | What makes it correct |
|---|---|---|---|---|
| API search | `client.go`, `providers.go`, `remote_discovery.go` | `Client.Search` over APIs.guru, the LAP registry, RFC 9727 catalogs and public-apis, with the search cache | partial failures of sources, a budget shared by all probes, what may be cached | a report holds the best of the first source that had anything, and tells why it lacks what others have |
| Source guard | `internal/sourceguard/guard.go` | budgets on depth, work and size in front of every parser | the room left is computed while a stack is filled; a shared budget that goes on counting after it failed | accepts exactly the documents within the limits, and never works beyond them |
| Operation lifecycle | `operationlifecycle/operationlifecycle.go` | `Expand`, `bestSibling` | ambiguity between siblings of the same score | a sibling is chosen only if it is clearly the best, whatever the order |
| Operation selection and index | `operation_selection.go`, `operation_index.go`, `text.go`, `dialect_aws.go` | ranking by hints and text | stable order, ties | deterministic; explicit hints win |
| Prompt safety | `prompt_safety.go` | `SanitizeOperationSummaries` under budgets of bytes, runes and items | compaction in stages | the result fits, keeps what it must, and tells what it cut |
| Authoring documents | `authoring_api.go` | `RankAuthoringAPIDocuments` | limits per document and in total; an operation that does not fit is taken out again | limits hold together, nothing that fits is left out |
| Operation inventory | `inventory*.go`, `source_inventory.go`, `auth.go` | parsed document to operation summaries | inherited security and parameters, references and cycles in schemas, three bounds at once | every operation is listed, required fields are required, security is that of the document |
| Validation | `validation.go` | is it an OpenAPI or Swagger document? | mostly the parser library | — |
| Parsers | `graphql/`, `grpcproto/`, `odata/`, `openrpc/` | recursive descent, wire decoder, XML stack, JSON walk, selectors | the same service in several forms; names that collide | what the summaries tell is what the service offers; a selector leads back to its operation alone |
| Entry points, Google Discovery, AWS Smithy | `asyncapi.go`, `graphql.go`, ..., `googlediscovery/`, `awssmithy/`, `openapidisco/` | JSON to structs, copies of what parsers return | — | — |
| Provider catalog | `catalog/catalog.go`, `provider.go`, `candidate.go`, `index.go`, `bundle.go`, `resolve.go`, `refresh.go`, `spec_protocol.go` | tables of providers, lookup by key and alias, resolution of references | which of several references is the one | every name leads to its provider; evidence about one interface does not answer for another |
| Catalog security and overlays | `catalog/security.go`, `overlay.go`, `report.go`, `inspection.go` | validation and joining of metadata | which overlay wins, what conflicts | independent of the order; a reviewer is told of all that is open |
| Audit, review, statistics | `catalog/advisory.go`, `catalog/quality.go`, `catalog_security_audit.go`, `catalog_refresh_review.go`, `catalog_stats.go` | reports over catalog and cache directory | results of a shared file are reused | reports agree with each other and with the files |
| Corrections | `catalog_refresh_corrections.go` | rewrites of known bad documents | — | — |
| Commands | `cmd/` | flags and printing | — | — |
| Generated data, scripts, helpers | `catalog/catalog_gen.go`, `catalog-openapi-cache/`, `helper/` | — | — | — |

No component runs goroutines of its own over shared memory: concurrency is
between *processes* that share the artifact directory, the project directory
and the database, plus whoever else writes there.  That is why the models'
actors are calls of different processes and the atomic steps are system calls
and SQLite transactions.

## How the components interact

* `Client.Search` and `Import` call `downloadSpecWithCache`, which loads from
  and stores to the SQLite cache; `Client.Search` also keeps its reports there.
* A project discovery scans a directory that other discoveries import into, and
  asks APIs.guru when it finds nothing.
* `catalog refresh` writes files with `artifactio.WriteFile` and then registers
  them in the same database; a row may hold a document itself or the path and
  digest of such a file, which the next refresh replaces.  This is the closest
  coupling in the program and has a module of its own (SpecFetch).
* Every `Open` of the cache migrates and prunes a database that other processes
  have open.
* Materialization publishes through `DirTransaction`, which stages with
  `WriteFile`.
* Local discovery reads files that importers, refreshes and users write.
* Everything that reads a document passes the source guard and a parser, and
  ends in the inventory; selection, lifecycle, prompt safety and authoring work
  on the inventory alone.
* The catalog's evidence about security is joined by resolution, and read by
  inspection, audit, review and export; the reports must tell the same of it.

## The modules and the code

`PROJECT.json` names, for every definition, the lines it stands for.  In the
modules of the first two groups an action is one system call, one transaction or
one request together with all the local control that follows it up to the next
one.  In the third group what the code computes without giving up control is
computed by operators.

### Files and the database

**ArtifactFile** — `WriteFile` and the `ReadFile` it calls, for one path.  The
file a call creates is an inode; `path`, `temp` and `backup` say which names
refer to which inode, `data` whether an inode is empty, written or synced.
`disk` is the set of directories that a power loss may leave, which is reset by
`syncDirectory`.  `Begin`, `CheckLstat`, `ReadLstat`, `ReadOpen` are the
collision check; `CreateTemp`, `WriteTemp`, `SyncTemp` the stage; `Link`,
`Unstage`, `SyncNew`, `RollNew` publish without Force; `Stat`, `RenameNew`,
`Backup`, `Replace`, `SyncReplace`, `Unbackup`, `Unreplace`, `Restore` publish
with it.  Each call may fail; `Crash` ends a process, `PowerLoss` all of them.
`turns`, chosen at the start, says whether callers take turns or overlap.

**DirTransaction** — `BeginDir`, `Stage`, `Commit` and `Rollback`, with
`equalTrees` reading the destination file by file (`ListTarget`, `ReadEntry`,
`Compare`) and `os.RemoveAll` removing a destination or a backup file by file
(`RemoveFile`, then `RemoveTarget` or `RemoveBackup`): it stays with the directory
it has opened, and removes by name what is empty at the end.  `os.Rename` refuses
any directory that exists, an empty one too.  `turns` is as above; `arrival` and `arrivals` are history, the order in which transactions
reached `Commit`, which no guard reads and the proofs rank backups by.

**ArtifactRegister** — the abstract specification of both: a register whose
content a call replaces at once, reuses, collides with, or leaves alone.
`Register` in either module instantiates it with a refinement mapping that takes
the content at the path, or at the backup until a replacement is settled, for the
register; `TurnsAreAtomic` says that the module implements it.

**SqliteCache** — all operations of a cache handle.  A call prepares its
arguments and reads the clock (`StoreSearch`, `StoreSpec`, `LoadSearch`, ...),
may read a file (`Stamp`, `ReadSpec`), and then commits one transaction
(`Store`, `TouchRows`, `TouchListed`, `PruneAll`) or has it rolled back
(`Abort`).  The variable `turns` is an assumption on the callers, made at the
start: that no call begins before the last one has ended, or none.  **LruTable**
is what the repository's README promises of a table: the keys it holds and which
of two was used more recently.  `Table(t)` instantiates it for each of the four
tables, with the order that retention goes by, `Order`; `TablesAreLru` says that
each table implements it when calls take turns.  (When they overlap it does not: a
call reads the clock before it has the write lock, so a later call's rows may
carry the earlier stamp.)

**CacheMigration** — `migrate` statement by statement (`ReadColumns`,
`Rebuild`, `ReadAccess`, `Alter`, `StampRows`, `ForgetVersion`,
`RecordVersion`), for several openers, with failing statements and crashes, from
any earlier schema.

### Operations that wait for others

**SpecFetch** — the composition of download, cache and refresh.  A fetch is
`StartFetch`, `Load`, `Read`, `Touch`, `Get`, `Store`; a refresh is
`StartRefresh`, `Download`, `WriteArtifact` for each reference and then `Check`,
`Register`, `Note`, `Artifact`, `Record` for each.  Transactions and file writes
are atomic here; SqliteCache and ArtifactFile are their models.  `Publish` and
`Redirect` are the servers: documents and redirects change between any two
steps, and a download ends where its URL redirects to at that moment.

**LocalDiscovery** — one `DiscoverLocalSources` beside others who replace files
under the walk: `StartRoot`, `Visit` (with `Inspect`), `Lstat`, `Read`, `Finish`
and `Change`.  The kinds a document shows and parses as are constants.

**Search** — `Client.Search`: `Search` takes the options, `LoadSearch` asks the
cache, `AskAPIsGuru`, `AskLAPRegistry`, `AskRFC9727` and `AskPublicAPIs` are the
sources in the order of the code, `CheckProbe` and `DownloadProbe` the probes of
public-apis, `StoreSearch` caches the report.  Any request may fail, and
`EndBudget` ends the context of all probes, between two candidates or within
one.  What the sources serve (their catalogs, with well-formed and malformed
blocks, and lists that are not JSON) is chosen at the start.  Sorting, cutting and
deduplicating are written as arrangements of places: `InOrder` lists a finite set
in a strict order, `SortResults` the places of a stable sort, so that the proofs
need no recursion.

**ProjectDiscovery** — `DiscoverWithReport` of several processes on one
directory: `Scan`, `ReadFile`, `ProjectURLs`, `Download`, `Create` (the O_EXCL
loop of `writeUniqueFile`), `Write`, `RemoveFile` and `AskGuru`, with failures
and a crash between any two.

**SourceGuard** — `CheckDocument`, `CheckValue`, `CheckYAML`, `CheckJSON` and the
shared budget of binary decoders, one node of a stack, token or charge at a
time, over graphs of nodes (a decoded value may share nodes or be cyclic).

### Documents

**GraphQL**, **GrpcProto**, **OData**, **OpenRPC** — parsers and selectors.
Text is a sequence of tokens; **Tokens** is the cursor that the two
recursive-descent parsers share.  JSON is the record it decodes to, XML the
stream of start and end tags, the wire form of a descriptor the sequence of its
fields.  **Sorting** is Go's stable sort over names that a constant orders.

**OperationChoice** — `Expand` with `bestSibling`, selection by text and by
hints with the AWS dialect, and the index of operation IDs.
**Prompt** — the stages of `SanitizeOperationSummaries` and the greedy choice of
`RankAuthoringAPIDocuments`; metadata are counts of bytes, fields, alternatives.
**Inventory** — resolution of schemas with its three bounds, path
items, parameters, bodies, security alternatives, `auth.go`, and both builders
of inventories.

**Catalog**, **Materialize**, **CatalogReports** — validation and lookup of
providers; classifications, overlays and what resolution concludes from them; the
inspection view; staging and publishing of exports and materializations; advisory,
quality, audit, review and statistics.

For each of these a module **Published...** (`PublishedGraphQL`,
`PublishedGrpc`, `PublishedOData`, `PublishedOpenRPC`, `PublishedOperations`,
`PublishedPrompts`, `PublishedInventory`, `PublishedCatalog`) holds the inputs
and, independently of the code, what must hold of the result.  For a parser an
input is a *service*, and its forms are all the documents that describe it: a
schema as text, with extensions, as an introspection; descriptors as text, JSON
and wire; metadata as XML and JSON.  What the summaries must say is computed
from the service, never from the document.

### Instances

`MCArtifactFile` and `MCDirTransaction` bound the system calls that fail while
calls overlap by `MaxFaultsInOverlap`, beside the bound `MaxFaults` of the model
itself; `MCSqliteCache` gives calls that overlap and calls that take turns
(`turns`) handles and keys of their own.  `MCLocalState` composes
LocalDiscovery and CacheMigration, `MCClient` ProjectDiscovery and Search,
`MCDocuments` SourceGuard with one action for each kind of document
(`ParseGraphQL`, ..., `ReadCatalog`); the scenario chosen at the start says which
of them runs, the variables of the other stand still.  The components of such a
composition do not interact: it shares a run, not a state.  In `MCDocuments` an
action reads one input completely; `Reading` is a constant operator so that TLC
evaluates it once for each input.

The modules hold, beside the model, the mutated operators named in
`PROJECT.json` ("a variant with a bug"): each property of each passing run is
violated when its variant takes the place of the operator it is defined before.

## The runs

`CHECK_DEADLOCK FALSE` stands in every configuration whose calls simply end:
when all calls have returned and the bounds are used up nothing is left to do.
The runs that end in a counterexample stop before that.

| Run | Instance | What it shows |
|---|---|---|
| `file_writers` | three calls of `WriteFile`. Concurrent: two contents, no failing system call, one crash or power loss. In turns: three contents (two of one size), two failing system calls, one crash. 2.69 million states | what the path and the backups refer to is complete and synced (`PublishedIsComplete`); no litter (`NoLitter`); results tell what is at the path (`LastWriteIsReported`); some version survives (`ArtifactSurvives`); in turns and with at most one fault `WriteFile` implements ArtifactRegister (`TurnsAreAtomic`), and a success is on the disk (`TurnsAreDurable`) |
| `file_window` | one Force call | a violation, see below |
| `file_rollback` | two calls, one failing system call | a violation, see below |
| `dir_transactions` | two transactions over six plans of two files, one of them empty; concurrent with one crash and two failing system calls, in turns with three. 557,741 states | without a failing call the destination is one whole tree, and so is every backup until its transaction has published (`TreesAreWhole`), no stage is left (`NoLitter`), published trees survive (`PublishedTreeSurvives`); whatever fails, a transaction without Force changes neither the name nor the files of another's tree, the rollback named below excepted (`NoForceLeavesOthers`); in turns and with at most one fault `Commit` implements the register of trees (`TurnsAreAtomic`) |
| `dir_reuse` | two concurrent transactions, no faults | a violation, see below |
| `cache_handles` | concurrent: two handles with byte budgets 1 and 2 and one row per table, one replaced file, an old database over the limits. In turns: row limits 1 and 2, two keys in each of the four tables. Three calls, one fault. 2.24 million states | limits hold after opening (`Bounded`); hits are fresh, within budget and what was stored (`HitIsSound`); in turns each table implements LruTable (`TablesAreLru`) |
| `fetch_refresh` | one fetcher in four modes, two refreshes of two references (one redirected to a third URL), two contents, one fault or death of a refresh, one change at a server, of a document or of where the first URL redirects. 8.80 million states | a fetch returns what was served for its URL and Import accepts (`ResultWasServed`); a call that goes past an untrusted row returns what was served since it began and leaves that cached (`IntegrityIsRepaired`); in turns, why a row may disagree with its file (`MismatchIsExplained`); a refresh that succeeds has registered all it wrote (`RefreshIsRegistered`) |
| `local_state` | discovery: two nested directories and three files, two of which may be roots themselves, every assignment of eight kinds of file, every declaration of those two, one replacement, limits of 7 entries and 2 candidates. Opening: three openers, two documents, any earlier schema, two crashes, one failing statement, two uses. 5.2 million states | both limits hold (`WithinLimits`), contents differ (`ContentsDiffer`), a report that is not truncated is complete (`NothingIsLost`) and names each source once (`ReportedOnce`); an open cache finds its columns and in turns opening never fails (`OpenIsUsable`); no document is lost and in turns one version is recorded (`MigrationIsSound`); in turns use outranks migration (`UseOutranksMigration`) |
| `clients` | one searcher, two calls over seven webs, in two of them a list that is not JSON, with nine choices of source and mode, two faults, an ending budget, an expiring cache; three discoveries on one directory with two URLs each, two faults, one crash. 228,000 states | a report holds the best of the first source that had anything and tells why it lacks the others (`ReportsAreExplained`); an imported file stays whole (`ImportsSurvive`); partial files come from crashes or double faults only (`OnlyCrashesLitter`); every URL is tried once and accounted for (`NothingIsSkipped`); every call ends (`EveryCallEnds`) |
| `documents` | guard: all graphs of three nodes, cyclic ones among the decoded values, depth 2, work 5, structural items 6, three bytes. Readings: some 66,300 inputs of eight kinds. 225,000 states | see below |
| `graphql_unions`, `inventory_dropped` | the inputs of `documents`, for the first with unions | violations, see below |

What `documents` checks: the guard never works beyond its limits
(`WorkIsBounded`) and accepts exactly what the unfolding of the document, by its
definition, allows (`GuardIsExact`).  The summaries of a parser tell what the
service offers in whichever form it was published (`OperationsArePreserved`), and
each selector leads back to its operation alone (`SelectorsResolve`).  Choices of
operations do not depend on the order of the inventory, ties are diagnosed, and an
index leads to the one operation of an ID (`ChoicesAreClear`).  A prompt keeps its
budget; it holds each selected operation, identified by its place in its document,
and of the others, best first, exactly those for which there was still room;
every operation that was cut or left out is told of, by its place, and no other;
it is refused exactly when something blocks it (`PromptsFit`).  Inventories list
every operation of the documents that are read and work, each text that was cut is
told of, a field is listed only if a value can have it and required only if every
value must, and security is that of the document as long as the operation is not
cut to its minimal form (`InventoryIsFaithful`).  Of API sources those behind an
OpenAPI document with a cleaned text are not read: that is the code's behaviour,
which `inventory_dropped` is about, and `Before` in PublishedInventory names it.
What the catalog concludes is what the evidence about that interface says, in any
order (`EvidenceIsSettled`); the reports agree with one another and with the files,
those that exist but cannot be read included (`ReportsAgree`); an export holds all its artifacts where its report says or
changed nothing (`ExportIsWhole`).

Why the bounds are enough.  The hazards of the two publication protocols need
two actors, and a third to act between the steps of the other two; there are
three file calls.  Two directory transactions are enough for each branch of
`Commit`, since a transaction sees the others only through the destination.
Two crashes and three openers let a migration die, be resumed, and race a third.
Two handles with different limits and budgets are what the cache's hazards need;
one call of two rows meets a limit of one and makes the cut fall between rows of
the same time stamp.  In local discovery the limit of entries (7) is what three
overlapping roots visit, so that a fourth loses its file to entries seen twice,
and the limit of candidates (2) is one less than the number of files: runs of the
walk below, at and above both limits exist.  Three importers let one lose a name
twice; two URLs of one stem, and a third that is mentioned twice, meet the bound
on URLs; two faults are what it takes to leave a partial file without a crash.
Two search calls let the second find what the first cached, fresh or expired.
The inputs of `documents` are chosen around each branch: every limit is met
exactly and passed by one, names collide, references are shared, cyclic and
lost, evidence disagrees.  Every disjunct of every next-state relation is taken
in a passing run.

Where a property is stated "in turns" it is because the code does not have it
under concurrency: an atomic register, a durable success, least-recently-used
retention, the rank of migrated rows, one schema version and the agreement of
rows with files are all lost when two processes overlap, since no lock spans
their steps.  What does hold under concurrency is stated without the condition.

**Fairness.**  `EveryCallEnds` assumes weak fairness of the steps of each call
(`WF` of `Step`): the code of a call that has a step to make makes it, because a
call is one goroutine that waits for nobody, and its requests and system calls
return, with an error if need be (requests have time limits).  Nothing is
assumed of crashes, of the end of a budget, of expiry, or of another call being
started.  That a call
ends is then not obvious: an importer tries names until one is free while others
take names, and a search walks sources and candidates under two limits.  The
other components have no loop that another process could prolong; their runs
assume no fairness.

## Disagreements between the code and its documents

* **A Force write is not atomic** (`file_window`).  `replaceFileWithRollback`
  renames the old file to a backup and only then renames the stage to the path
  (`internal/artifactio/artifactio.go:264`, `:267`); in between there is no
  file.  `:148` says "WriteFile atomically writes relative under root".  What
  does hold is `ArtifactSurvives`: a version is at the path or at a backup.
* **A failed call without Force may remove another's file** (`file_rollback`).
  When it cannot remove its stage or sync the directory it removes the path by
  name (`:216`, `:224`), where a concurrent Force call may have put a file of
  differing content by then.  `DirTransaction.Commit` does the same with a tree
  (`:411`), removing its files one by one: the step that `NoForceLeavesOthers`
  excepts for transactions that overlap.
* **Reuse of a tree that never was** (`dir_reuse`).  `equalTrees` reads the
  destination by path, file by file (`:545`), so a Force commit between two reads
  makes it compare a mixture of two trees, and `Commit` may report reuse.
* **A union swallows the definition behind it** (`graphql_unions`).
  `parseUnionType` (`graphql/parse.go:633`) takes every name up to the next
  opening brace for a member, keyword and name of the next definition included;
  the body of that definition is then read as an anonymous query.
  `docs/non-openapi-protocols.md:64-66` says that summaries preserve operation
  kind and root fields.
* **A cleaned text costs the later documents** (`inventory_dropped`).
  `source_inventory.go:93-96` ends the walk over the API sources when the inventory
  of an OpenAPI document is truncated, and `sanitizeInventory` marks it so for any
  text that it cleaned (`prompt_safety.go:133`, `:140`), not only at the limit of
  operations.  The documents behind it are not read, and nothing but the warning
  about the text is told.  `README.md:520-521` says that the removal of control
  characters and non-semantic shortening "produce visible warnings", and
  `source_inventory.go:38-41` that the operations of the source documents are
  extracted.  `NothingIsDropped` asks for every operation while there is room.

Some more are not runs of their own:

* `README.md:263-264` reads as if resolution, after the exact and the provider-wide
  disposition, always falls back to the aggregate, while `catalog/resolve.go:139`
  does so only when no specification is selected; its test agrees with the code,
  and so does Catalog.
* `README.md:521-523` says that a compaction that could remove fields returns a
  blocking error.  `prompt_safety.go:344-347` drops the fields beyond `MaxFields`
  with a warning only (`PromptsFit` accepts that), and
  `inventory_request.go:447-454` leaves out fields below its depth and behind the
  last of its list with no diagnostic at all (`InventoryIsFaithful` accepts that).

## The proofs

Each theorem holds for every value of the constants that satisfies the named
assumptions of its module, which TLC evaluates on the instances.

**ArtifactFile_proofs.**  `TypeCorrect`: types, by the actions.
`PublishedCorrect` (`PublishedIsComplete`): it is not inductive, since nothing in
it says that a call about to link has a synced stage; `Complete` adds that, and
that a call which has not published yet is known to no published name in any
directory the disk may hold.  One lemma, `ChangeKeepsComplete`, covers all
changes of the directory.  Any number of calls, faults, crashes, power losses.
`Survival` (`ArtifactSurvives`) has two halves.  For calls that overlap, the one
dangerous step removes a backup, and `Covered` says, until a system call fails,
that a call may be there with the path absent only if another call's backup is
still held.  For calls in turns, whatever fails, `InTurn` says where the versions
are while the one running call (`Alone`) publishes: what it took is at its
backup, and until its own link is synced the disk may still hold the directory
without it.  `DurableInTurns` (`TurnsAreDurable`) follows from the same.
`LitterCorrect` (`NoLitter`): `Tidy`, a stage or a backup has its name only at the
steps that use it.  `ResultsCorrect` (`LastWriteIsReported`): `Telling`, of the
overlapping calls the one whose file is at the path is about to succeed or has,
and the path is vacant only between the two renames of some call.
`AtomicInTurns` (`TurnsAreAtomic`), the refinement of ArtifactRegister, goes step
by step: `Settled` says that with one fault a call that rolls back meets no
second one, so the register is at a backup exactly while one call holds it
(`ValueOfUncommitted`).  `StepIsLocal`, what a step leaves to the other calls, and
`CountsGrow` serve all of these.

**DirTransaction_proofs.**  `TypeCorrect`: types, for which trees are closed under
staging and removal of a file (`TreesGrow`, `TreesShrink`).  Whatever fails, a tree
that others can reach has arrived, and a stage is what was staged until then
(`Prepared`); the lemma `PlanIsWhole` shows that staging a plan to its end gives
its tree, by the least entry that would differ.  In turns the destination is where
the one running transaction left it (`InTurn`, `WholeInTurn`).  `ForceCorrect`
(`NoForceLeavesOthers`) follows for any number of faults: without Force no
transaction comes to a backup, and the one that removes the destination in its
turn finds its own tree there.

`WholeCorrect` (`TreesAreWhole`) and `LitterCorrect` (`NoLitter`) are about
behaviours without a failing system call, so their invariant is
`faults = 0 => Clean`: every directory has one name and none that is being removed
is shown (`Apart`), where a directory is shown at the destination and at the backup
of a transaction that has not published yet (`Shown`); what is shown is whole; and
a stage or a backup has one owner (`Private`).  `Survival`
(`PublishedTreeSurvives`): in overlap the difficulty is the removal of a backup,
which begins when the tree that was renamed in for it is published: that tree may
itself have been moved away, and may be at the backup of a third.  The history
variable `arrival` orders the trees: the holder of a backup arrived after what it
holds (`Ranked`), so every published tree has been followed by a published one that
is still shown (`Followed`), until a system call fails.  `AtomicInTurns`
(`TurnsAreAtomic`), the refinement of the register of trees, adds what `equalTrees`
knows of the destination after each file (`KnowsInTurn`).  Any plans, transactions
and crashes.

**SqliteCache_proofs.**  `TypeCorrect`.  `BoundedCorrect` (`Bounded`): the lemma
`KeptWithinLimit` shows that the order of retention is total, so of any finite
table no more than `limit` rows have fewer than `limit` newer ones, by choosing
the oldest kept row (`OldestRow`) and counting those above it; `Active` (only
open handles are in a call) and `Bounded` are then inductive.  `HitsAreFresh`,
`HitsAreWithinBudget`, `ServedIsStored` and, of all three, `HitsAreSound`
(`HitIsSound`): one invariant `Honest` about rows (`Dated`, `Recorded`) and about
what each call holds (`Sound`).  `LruCorrect` (`TablesAreLru`) is the refinement of
LruTable by every table.  Its lemmas are about the order of retention: it is total
(`NewerOrders`), pruning keeps the first `limit` rows of it (`KeptAreNewest`; the
count is exact because the newest row dropped has only kept ones before it), and
an upsert or a touch puts rows before all others (`OrderUpserted`,
`OrderTouched`) if they are stamped later.  That they are is the invariant
`InOrder`: no stamp is ahead of the clock (`Stamped`), one call is under way
(`Alone`), its stamp is later than every row's (`Later`), and a listing has
stamped the artifacts that come before those it has left (`ListsInOrder`).  The
proofs use that the sets of keys are finite and that limits are positive, which
the code enforces when it opens a cache.

**CacheMigration_proofs.**  `OpenCorrect` (`OpenIsUsable`), `RankCorrect`
(`UseOutranksMigration`) and `MigrationCorrect` (`MigrationIsSound`), from any
earlier schema, without assumptions.  The invariant says what an opener has got
past, whoever did it (`Reached`), and that no row holds its document both ways
while some process has seen a table without `content_path` (`Copyable`): it would
copy no path, and the CHECK of the new table would refuse a row that has only
one.  In turns it adds that what an opener has read still holds (`Alone`,
`Fresh`) and that used rows keep their rank (`Ranked`).

**SpecFetch_proofs.**  For any documents and redirects that change at any time.
`ServedCorrect` (`ResultWasServed`): everything that holds a document holds one
that a download of its URL returned or might have (`Served`: rows, files, running
calls, refreshes).  `RepairCorrect` (`IntegrityIsRepaired`) adds that a call that
has downloaded holds a document served since it began (`Recent`).
`MismatchCorrect` (`MismatchIsExplained`) assumes that references have artifact
files of their own (`FilesAreDistinct`): registering one of two that share a file
leaves the row of the other behind, and nothing in the code forbids two catalog
references to share one.  Its invariant `Explained` says that the row of a
reference whose file is settled is what the file says (`Unexplained`), that a
refresh alone keeps what it has checked (`Alone`, `Checked`), where rows point,
and that the row under the end of a redirect is that of its reference as long as
the reference ends there (`Backed`).
`RegisteredCorrect` (`RefreshIsRegistered`) needs no such
assumption: from its check on a refresh alone has registered what is behind it
(`Done`), and two references that share a file can both pass the check only with
the same document (`RecordIsDone`).

**LocalDiscovery_proofs.**  `LimitsCorrect` and `DedupCorrect`, from
`IInv`: what a read relies on (`Reading`), a limit that is reached has stopped
the walk (`Stopped`), and `byDigest` is the inverse of the candidates' contents
until they are sorted (`Indexed`).  The final sort is any bijection that orders
by rank, so it keeps contents different and how often a file is mentioned
(`CountSorted`).  `OnceCorrect` (`ReportedOnce`) and `CoverageCorrect`
(`NothingIsLost`), from `Accounts`: a file that was not replaced is mentioned for
the first time after it was seen and when it is no longer being read, and never
for an entry that a listing showed as a link (`AllOnce`); and some set of paths
holds the roots, with every directory in it that is not pending what the
directory lists, and owes nothing to any of its files that is neither pending nor
being read (`Covered`).  Nothing is pending when a walk ends by itself, so that
set holds all that the roots lead to (`Under`, the least closed set).  `ThoseAre`
is a fact about a recursive function, proved as in Client_proofs.

**Client_proofs**, of ProjectDiscovery and of Search.  `TypeCorrect`; that the URLs of a text are a sequence
of URLs (`UniqueType`) is a fact about a recursive function, which `Recursion`
builds up to any length: were there a length it does not reach, there would be a
least one (`LeastNumber`).  `ImportsCorrect` (`ImportsSurvive`): a process that
writes or removes is at a file it made itself and that is not whole (`Owned`), so
that no step touches another's file or a whole one (`OnlyOwnFiles`).
`LitterCorrect` (`OnlyCrashesLitter`): a file that is not whole has its writer at
it, or dead, or two faults behind it (`Traced`, `Failing`).  `SkipCorrect`
(`NothingIsSkipped`): the attempts and what is left to do are the URLs in turn
until APIs.guru is asked (`InTurn`, `Tried`), and candidates and passed attempts
grow together (`Counted`).
`ExplainedCorrect` (`ReportsAreExplained`) is about Search, for any web, options,
limits and number of callers.  `BestFirst` and the lemmas before it say what the
sorting and filtering of results give: the rank of an element, the number of those
below it, counts through a strict order (`RankReached`), so an arrangement has
each place once (`InOrderIs`, `ArrangedIs`); sort.SliceStable's order is strict
because "less" leaves ties only between equals (`StableIsStrict`).  Hence what a
source answers under a limit is the beginning of what it answers without one, and
is empty only when that is (`Sound`, `WebIs`), and two searches of one key probe
the same candidates.  The inductive invariant `SearchInv` then follows one call
(`Progress`): the source whose turn it is has had only fruitless ones before it
(`Turn`), each probed document is a result or a failed attempt, or is being
downloaded (`Probed`), a report that is about to be stored without an error is
`Justified`, and so is each one in the cache.  It is needed in this strength: the
property speaks of finished calls only, and says nothing of how far the probes
have come when their budget ends.

**SourceGuard_proofs.**  `WorkStaysBounded` (`WorkIsBounded`): the work done and
the nodes on the stack together never pass `MaxWorkItems`, nor the bytes kept
`MaxDocumentBytes`, for every document, cyclic or not.  This is the sum that the
code compares in `guard.go:158`.

Only model-checked: `GuardIsExact` and all the readings of `documents`,
which are folds and recursions over data, out of reach of the prover; and
liveness.

## Limits of the models

* The disk of ArtifactFile keeps directory changes in order (an ordered journal):
  a power loss may lose a suffix of them, never a change before another.  Files
  that were not synced come back torn.
* Missing parents, permissions, the containment of paths under the root, and the
  symbolic links that `artifactio` rejects are not modelled; the path is one that
  is accepted.
* A staged tree of DirTransaction is private to its transaction, and `Stage` is
  one action.  So is `os.Rename`: between its own check that the new name is free
  and the system call, which would replace an empty directory, nothing happens.
* SqliteCache and SpecFetch treat a transaction as atomic and isolated (SQLite in
  WAL mode, each transaction of the code being a sequence of writes), and a
  failing one as rolled back.  The clock does not go back.
* SpecFetch writes a file at once.  `file_window` shows that a Force write takes
  it away for a moment; a reader in that window gets an integrity error, which
  SpecFetch has anyway for a file that was removed or changed.
* What bytes are (valid, savable, of which kind) is a constant of the content.
  Hosts, ports, addresses and sizes of responses are not modelled.
* LocalDiscovery: others replace files, they do not rewrite them in place; the
  cancellation of the context and failing reads are left out.
* Search and selection: the score of a text for a query is data.  How characters
  make tokens or words is data of the parsers and of OperationChoice.  A list of
  APIs.guru or of public-apis that is fetched but is not JSON is answered by an
  error beside an attempt of status "pass" (`providers.go:28`, `providers.go:81`):
  under Auto the report then tells no more than that APIs.guru had no match, and
  `ReportsAreExplained` accepts that.
* Prompt and Inventory: of texts there are the lengths (Prompt) or what the prompt
  budget makes of them: a document's are clean or not, an operation stays whole, is
  cleaned or cut to its minimal form (Inventory).  A cancelled context, which ends a
  call with an error, is left out.
* Materialize: the content of the manifest is one value, so its order is not seen.
  Rows that agree on the IDs of reference and artifact are sorted stably
  (`catalog/materialize.go:398`, `:492`), so their order in `provenance.json` is
  that of the input; `ExportIsWhole` is about the files.
* The catalog: whether a text is filled in, an address well formed, or a scheme
  valid is an attribute of the record.

Behaviour that the inputs avoid or that no property judges, and that a reader of
the code should know:

* GraphQL: string tokens are compared by value like punctuation; `skipUntil("{")`
  stops at a directive argument that is an object; of two equal selectors
  `ResolveSelector` takes the first operation and `SelectorAliases` the last.
* gRPC: a short name resolves to the first message of that name, so a nested or
  imported one may be shadowed (`grpcproto/selectors.go:136-157`).  Services with
  two messages of one short name are among the inputs (`ShadowedServices`) in every
  form but the text that refers to types by short names.
* OData: overloads of an operation share an ID (`odata/selectors.go:184`), JSON
  overload arrays are passed over, and of two containers of a JSON schema the
  iteration order of a map decides.
* OpenRPC: a method called `method:a` cannot be selected behind a method `a`.
* Selection: of two hint parameters whose names differ in case only the map
  yields one.
* Inventory: keywords beside a `$ref` replace those of its target; of two `allOf`
  branches the last property wins; the limit on the operations returned
  (`Limit`) cuts without a diagnostic; body parameters of a Swagger path item give no body;
  parameters of an operation do not override those of its path.
* Authoring: a selected reference that names a document's path although it has a
  relative one selects nothing, silently.
* Catalog: a padded provider ID finds no specification; a provider with AsyncAPI
  alone has the capability "unknown"; an audit calls a provider complete for any
  overlay status it does not single out; the conflict checks of the inspection
  depend on the order of overlay IDs (`catalog/inspection.go:202`); the directory
  of a materialized artifact follows its own kind, the protocol in the report
  that of its reference; statistics count a file that exists but cannot be read as
  existing and as invalid (`catalog_stats.go:114-125`), so their columns add up to
  more than the references.
* Cache: a refresh stores a document under its URL and under the end of its
  redirects (`sqlitecache/cache.go:403`).  When the redirect moves, the row under
  the earlier end stays, with the digest of a file that the next refresh replaces:
  an offline caller of that URL then gets an integrity error although no refresh
  failed (`LeftBehind` in `MismatchIsExplained`).
* Files: a call that reuses a file does not sync its directory
  (`artifactio.go:169`); of two processes that create the same missing parent one
  fails (`:597`); a cache rebuilt after it was already rebuilt loses the ranks of
  its rows (`cache.go:778`); the clock may step back between processes;
  `busy_timeout` is set on one pooled connection only; a slow download may be
  stored over a newer one; a downloaded document is lost to the caller when the
  cache cannot store it; a directory with exactly `MaxCandidates` documents is
  reported as truncated; a file removed between listing and `Info` ends a
  discovery with an error.

### Not modelled

* **Parser entry points** (`asyncapi.go`, `graphql.go`, `grpcproto.go`, `odata.go`,
  `openrpc.go`) copy what the parsers return.
* **Validation** is mostly a call of the OpenAPI library; it enters SpecFetch and
  LocalDiscovery as a constant of the content.
* **Google Discovery and AWS Smithy** map JSON onto structs.
* **Corrections** rewrite known documents, entry by entry of a table.
* **Commands** add flags and printing; the one sequence of effects they add,
  refresh then register, is in SpecFetch.
* **Generated catalog data, the cache of documents and its builder scripts,
  helpers**: some 13,000 lines of tables and of scripts that are not part of the
  build.

Partly modelled: artifact files (no creation of parents, no links), download
(no policy of addresses), refresh (no classification by protocol), authoring
documents (`BuildAuthoringAPIDocuments` and its helpers are left out).

## Plan

Done: all modules and proofs above.  Components of different kinds share a run
through a scenario, so that each run asks something new.

Left, in order of importance:

1. The parents of an artifact file (`MkdirAll` level by level with its syncs) in
   ArtifactFile.
2. The classification of a refreshed artifact by protocol, and the corrections.
3. Cancellation of the context, in LocalDiscovery and Inventory.
