---- MODULE SpecFetch ----
(***************************************************************************)
(* How a document gets from its server to a caller: downloadSpecWithCache  *)
(* (under Import, ValidateURL and the probes of Search) in its four cache  *)
(* modes, and `catalog refresh`, which downloads documents to files and    *)
(* registers the files in the same cache.  Both run in several processes.  *)
(*                                                                         *)
(* A transaction of the cache is one action and a file is written at once: *)
(* SqliteCache and ArtifactFile are their models.                          *)
(***************************************************************************)
EXTENDS Naturals, Sequences

CONSTANTS
    Fetchers, Refreshers,   \* the processes
    Urls,                   \* the URLs of documents
    Requested,              \* those that callers ask for
    Redirects,              \* the ways the servers may redirect: maps in [Urls -> Urls]
    Refs,                   \* the URLs that are catalog references
    ArtifactPath,           \* [Refs -> Paths]: the file of each reference
    Paths,
    Batches,                \* the sequences of references refreshed together
    Contents,               \* what servers return
    Valid,                  \* the contents that Import accepts
    Savable,                \* those that a refresh saves
    Inline,                 \* the place of a row that holds its document
    Absent,                 \* there is no file, or no document
    MaxFaults,              \* bound: local operations that fail
    MaxPublished            \* bound: changes on the servers, documents or redirects

Modes == {"read-write", "refresh", "offline", "bypass"}
Processes == Fetchers \cup Refreshers

ASSUME ProcessAssumption == Fetchers \cap Refreshers = {}
ASSUME RequestAssumption == Requested # {} /\ Batches \subseteq Seq(Refs) \ {<<>>}
ASSUME PlaceAssumption == Inline \notin Paths /\ Absent \notin Contents
Origins == {f[u] : f \in Redirects, u \in Urls}

\* A client follows redirects to a URL that redirects no further.
ASSUME UrlAssumption ==
    /\ \A f \in Redirects : f \in [Urls -> Urls] /\ \A u \in Urls : f[f[u]] = f[u]
    /\ Refs \subseteq Urls /\ Requested \subseteq Urls /\ ArtifactPath \in [Refs -> Paths]
ASSUME ContentAssumption == Valid \subseteq Savable /\ Savable \subseteq Contents
ASSUME BoundAssumption == MaxFaults \in Nat /\ MaxPublished \in Nat

VARIABLES
    final,       \* where each URL redirects to
    origin,      \* what each server returns
    served,      \* history: all that a download of each URL has returned or might have
    since,       \* history: that, since the call of each fetcher began
    rows,        \* the cached documents, by URL: [data, place, original, final]
    artifacts,   \* the registered artifacts: [data, claim], the digest of the
                 \* file and the one the refresh reported
    file,        \* the artifact files
    unsettled,   \* history, kept while refreshes take turns: files written and
                 \* not registered since
    pc,
    fetch,       \* the call of each fetcher: [url, mode, place, data, final]
    batch,       \* the references of each refresh
    got,         \* what it has downloaded, in their order: [data, final]
    at,          \* the reference it has come to
    noted,       \* StoreCatalogArtifact: what it has read of the file
    reply,       \* what the last call of each fetcher returned: a document and
                 \* the URL asked for, or an error and the mode of the call
    turns,       \* do refreshes take turns?
    faults, published

serverVars == <<final, origin, served, published>>
cacheVars == <<rows, artifacts, file, unsettled>>
refreshVars == <<batch, got, at, noted>>
vars == <<serverVars, since, cacheVars, pc, fetch, refreshVars, reply, turns, faults>>

Places == Paths \cup {Inline}
Refreshing == {"download", "write", "check", "register", "note", "record"}
Asked(u, mode) == [url |-> u, mode |-> mode, place |-> Absent, data |-> Absent, final |-> u]
NoFetch == Asked(CHOOSE u \in Requested : TRUE, "bypass")
NoReply == [error |-> "none"]

Init ==
    /\ final \in Redirects /\ origin \in [Origins -> Contents]
    /\ served = [u \in Urls |-> {origin[final[u]]}]
    /\ since = [c \in Fetchers |-> {}]
    /\ rows = [u \in {} |-> u] /\ artifacts = [r \in {} |-> r]
    /\ file = [p \in Paths |-> Absent] /\ unsettled = {}
    /\ pc = [x \in Processes |-> "idle"]
    /\ fetch = [c \in Fetchers |-> NoFetch]
    /\ batch = [r \in Refreshers |-> <<>>]
    /\ got = [r \in Refreshers |-> <<>>]
    /\ at = [r \in Refreshers |-> 1]
    /\ noted = [r \in Refreshers |-> Absent]
    /\ reply = [c \in Fetchers |-> NoReply]
    /\ turns \in BOOLEAN
    /\ faults = 0 /\ published = 0

Goto(x, step) == pc' = [pc EXCEPT ![x] = step] /\ UNCHANGED <<reply, since>>
Succeed == UNCHANGED faults
Fail == faults < MaxFaults /\ faults' = faults + 1
Keep == UNCHANGED <<serverVars, cacheVars, refreshVars, turns>>
KeepButRows == UNCHANGED <<serverVars, artifacts, file, unsettled, refreshVars, turns>>

\* Put the keys in S of a table, all with the same row.
Upsert(table, S, row) == [u \in DOMAIN table \cup S |-> IF u \in S THEN row ELSE table[u]]

\* StoreSpec keeps a document under the URL asked for and under the one that
\* this download ended at.
StoreSpec(url, end, document, where) ==
    rows' = Upsert(rows, {url, end}, [data |-> document, place |-> where, original |-> url, final |-> end])

(***************************************************************************)
(* downloadSpecWithCache.                                                  *)
(***************************************************************************)
StartFetch(c) ==
    /\ pc[c] = "idle"
    /\ \E u \in Requested, mode \in Modes :
          /\ fetch' = [fetch EXCEPT ![c] = Asked(u, mode)]
          /\ pc' = [pc EXCEPT ![c] = IF mode \in {"read-write", "offline"} THEN "load" ELSE "get"]
          /\ since' = [since EXCEPT ![c] = {origin[final[u]]}]
          /\ reply' = [reply EXCEPT ![c] = NoReply]
    /\ Succeed /\ Keep

Reply(c, r) ==
    /\ pc' = [pc EXCEPT ![c] = "idle"]
    /\ fetch' = [fetch EXCEPT ![c] = NoFetch]
    /\ since' = [since EXCEPT ![c] = {}]
    /\ reply' = [reply EXCEPT ![c] = r]
Give(c, document) == Reply(c, [url |-> fetch[c].url, data |-> document])
Refuse(c, error) == Reply(c, [mode |-> fetch[c].mode, error |-> error])
Retry(c) ==
    /\ Goto(c, "get")
    /\ fetch' = [fetch EXCEPT ![c] = Asked(fetch[c].url, fetch[c].mode)]

\* A variant with a bug: the document of a row that cannot be trusted is kept.
FallbackKeepsDocument(c, r) ==
    IF fetch[c].mode = "offline" THEN Refuse(c, r)
    ELSE IF r = "integrity" /\ fetch[c].data \in Valid THEN Goto(c, "store") /\ UNCHANGED fetch
    ELSE Retry(c)
\* What a miss or a row that cannot be trusted leads to.
Fallback(c, r) == IF fetch[c].mode = "offline" THEN Refuse(c, r) ELSE Retry(c)

\* LoadSpec selects the row; one the retention has taken or that is older than
\* the caller's MaxAge is a miss.
Load(c) ==
    /\ pc[c] = "load"
    /\ LET u == fetch[c].url IN
       \/ /\ u \in DOMAIN rows
          /\ fetch' = [fetch EXCEPT ![c].place = rows[u].place, ![c].data = rows[u].data]
          /\ Goto(c, "read")
          /\ Succeed
       \/ Fallback(c, "uncached") /\ Succeed
       \/ Fail /\ Refuse(c, "error")
    /\ Keep

Document(f) == IF f.place = Inline THEN f.data ELSE file[f.place]

\* A variant with a bug: the digest is not compared.
ReadUnverified(c) ==
    /\ pc[c] = "read"
    /\ IF Document(fetch[c]) # Absent
       THEN Goto(c, "touch") /\ fetch' = [fetch EXCEPT ![c].data = Document(fetch[c])]
       ELSE Fallback(c, "integrity")
    /\ Succeed /\ Keep
\* It reads the file of a row that has one; a digest that differs from the
\* row's is ErrCachedSpecIntegrity, which only an offline caller gets to see.
Read(c) ==
    /\ pc[c] = "read"
    /\ IF Document(fetch[c]) = fetch[c].data
       THEN Goto(c, "touch") /\ UNCHANGED fetch
       ELSE Fallback(c, "integrity")
    /\ Succeed /\ Keep

\* It records the use of the row, and cachedSpecContent validates the document.
Touch(c) ==
    /\ pc[c] = "touch"
    /\ \/ /\ IF fetch[c].data \in Valid
             THEN Give(c, fetch[c].data)
             ELSE Fallback(c, "integrity")
          /\ Succeed
       \/ Fail /\ Refuse(c, "error")
    /\ Keep

\* downloadSpec.  The network may fail at any time.
Get(c) ==
    /\ pc[c] = "get"
    /\ LET end == final[fetch[c].url]
           d == origin[end]
       IN
       \/ /\ d \in Valid
          /\ IF fetch[c].mode = "bypass"
             THEN Give(c, d)
             ELSE Goto(c, "store") /\ fetch' = [fetch EXCEPT ![c].data = d, ![c].final = end]
       \/ Refuse(c, "error")
    /\ Succeed /\ Keep

\* A variant with a bug: the document is kept under every URL.
StoreUnderAll(c) ==
    /\ pc[c] = "store"
    /\ rows' = Upsert(rows, Urls, [data |-> fetch[c].data, place |-> Inline,
                                  original |-> fetch[c].url, final |-> fetch[c].final])
    /\ Give(c, fetch[c].data)
    /\ KeepButRows /\ Succeed
\* The document is stored; a failure is the caller's, who does not get it then.
Store(c) ==
    /\ pc[c] = "store"
    /\ \/ /\ StoreSpec(fetch[c].url, fetch[c].final, fetch[c].data, Inline)
          /\ Give(c, fetch[c].data)
          /\ Succeed
       \/ Fail /\ Refuse(c, "error") /\ UNCHANGED rows
    /\ KeepButRows

(***************************************************************************)
(* catalog refresh.  All references are downloaded and written to their    *)
(* files first; then RegisterCatalogRefreshResults registers one after the *)
(* other, with a transaction for the document and one for the artifact.    *)
(***************************************************************************)
Ref(r) == batch[r][at[r]]
Path(r) == ArtifactPath[Ref(r)]
Reported(r) == got[r][at[r]].data
Finished(r) == at[r] = Len(batch[r])
Advance(r, step) ==
    /\ Goto(r, step)
    /\ UNCHANGED refreshVars
Leave(r) ==
    /\ Goto(r, "idle")
    /\ batch' = [batch EXCEPT ![r] = <<>>] /\ got' = [got EXCEPT ![r] = <<>>]
    /\ at' = [at EXCEPT ![r] = 1] /\ noted' = [noted EXCEPT ![r] = Absent]

StartRefresh(r) ==
    /\ pc[r] = "idle"
    /\ turns => \A x \in Refreshers : pc[x] = "idle"
    /\ batch' \in {[batch EXCEPT ![r] = b] : b \in Batches}
    /\ Goto(r, "download")
    /\ UNCHANGED <<serverVars, cacheVars, fetch, got, at, noted, turns>> /\ Succeed

\* The first reference that fails ends the refresh; the files of those before
\* it stay as they were written.
Download(r) ==
    /\ pc[r] = "download"
    /\ LET end == final[Ref(r)] IN
       \/ /\ origin[end] \in Savable
          /\ got' = [got EXCEPT ![r] = Append(@, [data |-> origin[end], final |-> end])]
          /\ Goto(r, "write")
          /\ UNCHANGED <<batch, at, noted>>
       \/ Leave(r)
    /\ UNCHANGED <<serverVars, cacheVars, fetch, turns>> /\ Succeed

\* WriteFile with Force.
WriteArtifact(r) ==
    /\ pc[r] = "write"
    /\ \/ /\ file' = [file EXCEPT ![Path(r)] = Reported(r)]
          /\ unsettled' = IF turns THEN unsettled \cup {Path(r)} ELSE {}
          /\ at' = [at EXCEPT ![r] = IF Finished(r) THEN 1 ELSE @ + 1]
          /\ Goto(r, IF Finished(r) THEN "check" ELSE "download")
          /\ UNCHANGED <<batch, got, noted>>
          /\ Succeed
       \/ Fail /\ Leave(r) /\ UNCHANGED <<file, unsettled>>
    /\ UNCHANGED <<serverVars, rows, artifacts, fetch, turns>>

\* StoreSpec reads the file and compares its digest with the reported one
\* before it begins its transaction.
Check(r) ==
    /\ pc[r] = "check"
    /\ IF file[Path(r)] = Reported(r) THEN Advance(r, "register") ELSE Leave(r)
    /\ UNCHANGED <<serverVars, cacheVars, fetch, turns>> /\ Succeed

\* A variant with a bug: what is registered is what the server returns by now.
RegisterLatest(r) ==
    /\ pc[r] = "register"
    /\ StoreSpec(Ref(r), got[r][at[r]].final, origin[final[Ref(r)]], Path(r))
    /\ unsettled' = unsettled \ {Path(r)}
    /\ Advance(r, "note")
    /\ UNCHANGED <<serverVars, artifacts, file, fetch, turns>> /\ Succeed
\* StoreSpec's transaction.
Register(r) ==
    /\ pc[r] = "register"
    /\ \/ /\ StoreSpec(Ref(r), got[r][at[r]].final, Reported(r), Path(r))
          /\ unsettled' = unsettled \ {Path(r)}
          /\ Advance(r, "note")
          /\ Succeed
       \/ Fail /\ Leave(r) /\ UNCHANGED <<rows, unsettled>>
    /\ UNCHANGED <<serverVars, artifacts, file, fetch, turns>>

\* StoreCatalogArtifact is given no digest: it takes that of the file.
Note(r) ==
    /\ pc[r] = "note"
    /\ noted' = [noted EXCEPT ![r] = file[Path(r)]]
    /\ Goto(r, "record")
    /\ UNCHANGED <<serverVars, cacheVars, fetch, batch, got, at, turns>> /\ Succeed

Artifact(r) == [data |-> noted[r], claim |-> Reported(r)]

\* A variant with a bug: only the first reference is registered.
RecordFirst(r) ==
    /\ pc[r] = "record"
    /\ artifacts' = Upsert(artifacts, {Ref(r)}, Artifact(r))
    /\ Leave(r)
    /\ UNCHANGED <<serverVars, rows, file, unsettled, fetch, turns>> /\ Succeed
\* Its transaction; the metadata repeat the digest the refresh reported.
Record(r) ==
    /\ pc[r] = "record"
    /\ \/ /\ artifacts' = Upsert(artifacts, {Ref(r)}, Artifact(r))
          /\ IF Finished(r)
             THEN Leave(r)
             ELSE /\ at' = [at EXCEPT ![r] = @ + 1]
                  /\ noted' = [noted EXCEPT ![r] = Absent]
                  /\ Goto(r, "check")
                  /\ UNCHANGED <<batch, got>>
          /\ Succeed
       \/ Fail /\ Leave(r) /\ UNCHANGED artifacts
    /\ UNCHANGED <<serverVars, rows, file, unsettled, fetch, turns>>

(***************************************************************************)
(* A refresh dies (a fetch that does leaves nothing behind); a server      *)
(* changes a document or where it redirects to.                            *)
(***************************************************************************)
Crash(r) ==
    /\ pc[r] # "idle"
    /\ Fail
    /\ Leave(r)
    /\ UNCHANGED <<serverVars, cacheVars, fetch, turns>>

Change ==
    /\ published < MaxPublished
    /\ published' = published + 1
    /\ served' = [u \in Urls |-> served[u] \cup {origin'[final'[u]]}]
    /\ since' = [c \in Fetchers |->
          since[c] \cup (IF pc[c] = "idle" THEN {} ELSE {origin'[final'[fetch[c].url]]})]
    /\ UNCHANGED <<cacheVars, pc, fetch, refreshVars, reply, turns, faults>>

Publish(u) ==
    /\ \E d \in Contents \ {origin[u]} : origin' = [origin EXCEPT ![u] = d]
    /\ UNCHANGED final
    /\ Change

Redirect ==
    /\ final' \in Redirects \ {final}
    /\ UNCHANGED origin
    /\ Change

FetchStep(c) ==
    StartFetch(c) \/ Load(c) \/ Read(c) \/ Touch(c) \/ Get(c) \/ Store(c)
RefreshStep(r) ==
    \/ StartRefresh(r) \/ Download(r) \/ WriteArtifact(r)
    \/ Check(r) \/ Register(r) \/ Note(r) \/ Record(r)

Next ==
    \/ \E c \in Fetchers : FetchStep(c)
    \/ \E r \in Refreshers : RefreshStep(r)
    \/ \E r \in Refreshers : Crash(r)
    \/ \E u \in Origins : Publish(u)
    \/ Redirect

Spec == Init /\ [][Next]_vars

(***************************************************************************)
(* Properties.                                                             *)
(***************************************************************************)
\* A document that a fetch returns is one that a download of that URL has
\* returned or might have, though it may have come from a row or a file that
\* refreshes of other references replaced meanwhile and redirects may have
\* moved, and it is one that Import accepts.
ResultWasServed ==
    \A c \in Fetchers : "data" \in DOMAIN reply[c] =>
        reply[c].data \in served[reply[c].url] \cap Valid

\* What the cache holds for an offline caller.
Cached(u) ==
    IF u \in DOMAIN rows THEN {rows[u].data} \cap {Document(rows[u])} ELSE {}

\* A row that is missing or cannot be trusted never fails a caller who may use
\* the network, nor does he get its document: what he gets was served since
\* his call began, and a cache he may write then gives the same document to
\* offline callers of his URL, whatever refreshes and servers did meanwhile
\* (downloadSpecWithCache, errors.Is(err, ErrCachedSpecIntegrity)).
Returns(c) == pc[c] # "idle" /\ pc'[c] = "idle"
Repaired(c) ==
    IF "data" \in DOMAIN reply'[c]
    THEN pc[c] # "touch" =>
             /\ reply'[c].data \in since[c]
             /\ fetch[c].mode # "bypass" =>
                    \A u \in {fetch[c].url, fetch[c].final} : Cached(u)' = {reply'[c].data}
    ELSE reply'[c].error \in {"uncached", "integrity"} => fetch[c].mode = "offline"
IntegrityIsRepaired == [][\A c \in Fetchers : Returns(c) => Repaired(c)]_vars

\* A row is left behind when the URL it was stored for has been stored again
\* with another end of its redirects.
Mismatched(u) == rows[u].place # Inline /\ file[rows[u].place] # rows[u].data
LeftBehind(u) == rows[u].original # u /\ rows[rows[u].original].final # u

\* While refreshes take turns, a cached row disagrees with its file only
\* between the writing of the file and its registration, or after a refresh
\* that failed or died in between, or when it was left behind: registering
\* the file settles it for the reference and for where it redirects to now.
MismatchIsExplained ==
    turns => \A u \in DOMAIN rows :
        Mismatched(u) => rows[u].place \in unsettled \/ LeftBehind(u)

\* A refresh that reports success has registered every file it wrote, with
\* the digest of what it downloaded (README.md: "registers file paths").
RefreshIsRegistered ==
    [][\A r \in Refreshers :
          turns /\ pc[r] = "record" /\ pc'[r] = "idle" /\ faults' = faults =>
              \A i \in DOMAIN batch[r] :
                  /\ ArtifactPath[batch[r][i]] \notin unsettled'
                  /\ artifacts'[batch[r][i]] = [data |-> got[r][i].data, claim |-> got[r][i].data]]_vars
====
