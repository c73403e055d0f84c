---- MODULE Search ----
(***************************************************************************)
(* client.go, providers.go, remote_discovery.go: Client.Search over        *)
(* APIs.guru, the LAP registry, an RFC 9727 catalog and public-apis, with  *)
(* the cache of reports and the budget of all probes.                      *)
(*                                                                         *)
(* What the sources serve is an element of Webs; the score of an entry for *)
(* the query is part of it.  Names, documents and titles are numbers in    *)
(* the order of their text; 0 is the empty text.                           *)
(***************************************************************************)
EXTENDS Naturals, FiniteSets, SequencesExt

CONSTANTS
    Callers,     \* those who call Search
    Options,     \* what they ask: [source, mode, provider, limit, probe]
    Webs,        \* what the sources may serve: [guru, lap, rfc, public, garbled]
    WellKnown,   \* the documents to probe for each landing page, in order
    Valid,       \* the documents a probe finds and accepts
    LinkLimit,   \* RFC9727LinkLimit
    MaxCalls,    \* bound: calls of all callers
    MaxFailures  \* bound: failing downloads and cache operations

Kinds == {"apis-guru", "lap-registry", "rfc9727", "public-apis"}
Modes == {"", "refresh", "offline", "bypass"}
Links == DOMAIN WellKnown
Version == [doc : Nat, title : Nat, score : Nat]
Api == [preferred : Nat, versions : Seq(Version)]   \* the versions in the order of their names
Tags == {"search_query", "result", "endresult", "name", "doc", "title", "score"}
LinkSet == [targets : Seq([doc : Nat, title : Nat, score : Nat, openapi : BOOLEAN]), anchored : BOOLEAN]
Page == [link : Links \cup {""}, title : Nat, score : Nat]

ASSUME OptionAssumption ==
    /\ Options # {}
    /\ Options \subseteq [source : Kinds \cup {"auto"}, mode : Modes, provider : BOOLEAN,
                          limit : Nat \ {0}, probe : Nat]
\* The lists of the sources in garbled are not JSON.
ASSUME WebAssumption ==
    \A w \in Webs :
        /\ w.guru \in Seq(Api) /\ w.lap \in Seq([tag : Tags, value : Nat])
        /\ w.rfc \in Seq(LinkSet) /\ w.public \in Seq(Page)
        /\ w.garbled \subseteq {"apis-guru", "public-apis"}
ASSUME ProbeAssumption == WellKnown \in [Links -> Seq(Nat \ {0})] /\ "" \notin Links
ASSUME LimitAssumption == LinkLimit \in Nat /\ MaxCalls \in Nat /\ MaxFailures \in Nat

VARIABLES
    answers,     \* what each source answers, for each limit
    probes,      \* what there is to probe, for each of Options
    stage,       \* the next step of each caller
    opts,        \* its options
    report,      \* its report: [results, attempts, error]
    probing,     \* its probes: [todo, seen, over]
    cache,       \* the stored reports: [results, attempts], by their keys
    stale,       \* the keys whose report is older than CacheMaxAge
    calls, failures

webVars == <<answers, probes>>
searchVars == <<webVars, stage, opts, report, probing, cache, stale, calls, failures>>

Key(o) == [source |-> o.source, provider |-> o.provider, limit |-> o.limit, probe |-> o.probe]
Keys == {Key(o) : o \in Options}
Attempt(source, doc, status) == [source |-> source, doc |-> doc, status |-> status]
Empty == [results |-> <<>>, attempts |-> <<>>, error |-> FALSE]
NoProbes == [todo |-> <<>>, seen |-> {}, over |-> FALSE]

(***************************************************************************)
(* Results: the best score first, then by title and document.              *)
(***************************************************************************)
Result(source, entry, validated) ==
    [source |-> source, doc |-> entry.doc, title |-> entry.title, score |-> entry.score,
     validated |-> validated]

Higher(e, f) == e.score > f.score \/ (e.score = f.score /\ e.title < f.title)
Before(r, q) == Higher(r, q) \/ (r.score = q.score /\ r.title = q.title /\ r.doc < q.doc)

\* The elements of a finite set in a strict order, which is a set of pairs.
InOrder(S, order) ==
    [n \in 1..Cardinality(S) |->
        CHOOSE x \in S : Cardinality({y \in S : <<y, x>> \in order}) = n - 1]

\* What s has at some places, in an order of the places.
Arranged(s, places, order) ==
    LET at == InOrder(places, order) IN [n \in DOMAIN at |-> s[at[n]]]
Ascending(places) == {p \in places \X places : p[1] < p[2]}
Kept(s, places) == Arranged(s, places, Ascending(places))

\* sort.SliceStable: equal elements keep their order.
Stably(s, Less(_, _)) ==
    {p \in (DOMAIN s) \X (DOMAIN s) :
        Less(s[p[1]], s[p[2]]) \/ (~Less(s[p[2]], s[p[1]]) /\ p[1] < p[2])}
SortResults(s) == Arranged(s, DOMAIN s, Stably(s, Before))

\* No list is cut by the limit Everything.
Everything == 0
First(s, limit) == IF limit = Everything \/ Len(s) <= limit THEN s ELSE SubSeq(s, 1, limit)
Best(s, limit) == First(SortResults(s), limit)

\* Each occurrence of a document after the first is dropped.
Distinct(s) == Kept(s, {i \in DOMAIN s : \A j \in 1..(i - 1) : s[j].doc # s[i].doc})

\* One sequence after the other.
Lexical(places) ==
    {p \in places \X places : p[1][1] < p[2][1] \/ (p[1][1] = p[2][1] /\ p[1][2] < p[2][2])}
Concat(lists) ==
    LET places == UNION {{i} \X (DOMAIN lists[i]) : i \in DOMAIN lists}
        at == InOrder(places, Lexical(places))
    IN [n \in DOMAIN at |-> lists[at[n][1]][at[n][2]]]

(***************************************************************************)
(* What each source answers: results, whether the source failed, and the   *)
(* status of its attempt, "none" when it was not asked.  A list that is    *)
(* not JSON fails after its attempt has passed.                            *)
(***************************************************************************)
Answer(results) == [results |-> results, failed |-> FALSE, status |-> "pass"]
Failed == [results |-> <<>>, failed |-> TRUE, status |-> "fail"]
Garbled == [results |-> <<>>, failed |-> TRUE, status |-> "pass"]
NotAsked == [results |-> <<>>, failed |-> TRUE, status |-> "none"]

\* The preferred version, or else the last one.
Preferred(api) ==
    CASE api.preferred \in DOMAIN api.versions -> api.versions[api.preferred]
      [] api.versions = <<>> -> [doc |-> 0, title |-> 0, score |-> 0]
      [] OTHER -> api.versions[Len(api.versions)]

SearchAPIsGuru(w, limit) ==
    LET listed == [i \in DOMAIN w.guru |-> Result("apis-guru", Preferred(w.guru[i]), FALSE)]
    IN IF "apis-guru" \in w.garbled THEN Garbled
       ELSE Answer(Best(Kept(listed, {i \in DOMAIN listed : listed[i].doc # 0 /\ listed[i].score > 0}),
                        limit))

\* The LAP format: a block is open at a line when it was begun before and has
\* not been ended; in it, the last line of a field counts.
Open(lines, i) ==
    \E b \in 1..(i - 1) :
        lines[b].tag = "result" /\ \A e \in b..(i - 1) : lines[e].tag # "endresult"
Malformed(lines) ==
    \/ \A i \in DOMAIN lines : lines[i].tag # "search_query"
    \/ \E i \in DOMAIN lines : lines[i].tag = "result" /\ Open(lines, i)
    \/ \E i \in DOMAIN lines : lines[i].tag = "endresult" /\ ~Open(lines, i)
    \/ Open(lines, Len(lines) + 1)
Field(lines, end, tag) ==
    LET said == {i \in 1..end : lines[i].tag = tag /\ \A j \in i..end : lines[j].tag # "result"}
    IN IF said = {} THEN 0 ELSE lines[CHOOSE i \in said : \A j \in said : j <= i].value
LAPEntries(lines) ==
    LET blocks == [i \in DOMAIN lines |->
            [name |-> Field(lines, i, "name"), doc |-> Field(lines, i, "doc"),
             title |-> Field(lines, i, "title"), score |-> Field(lines, i, "score")]]
    IN Kept(blocks, {i \in DOMAIN lines : lines[i].tag = "endresult"})

SearchLAPRegistry(w, limit) ==
    LET entries == LAPEntries(w.lap)
        once == Distinct(entries)
        listed == [i \in DOMAIN once |-> Result("lap-registry", once[i], FALSE)]
    IN IF \/ Malformed(w.lap)
          \/ \E i \in DOMAIN entries : entries[i].name = 0 \/ entries[i].doc = 0
       THEN Failed
       ELSE Answer(Best(Kept(listed, {i \in DOMAIN listed : listed[i].score > 0}), limit))

\* A catalog is a sequence of link sets; every target counts, also one that
\* does not describe an API, and one bad entry fails the catalog.
SearchRFC9727(w, limit) ==
    LET targets == Concat([i \in DOMAIN w.rfc |-> w.rfc[i].targets])
        described == Kept(targets, {i \in DOMAIN targets : targets[i].openapi})
        once == Distinct(described)
        rated(t) == [doc |-> t.doc, title |-> t.title, score |-> IF t.score = 0 THEN 1 ELSE t.score]
    IN IF \/ \E i \in DOMAIN w.rfc : w.rfc[i].targets # <<>> /\ ~w.rfc[i].anchored
          \/ Len(targets) > LinkLimit
          \/ \E i \in DOMAIN described : described[i].doc = 0
       THEN Failed
       ELSE Answer(Best([i \in DOMAIN once |-> Result("rfc9727", rated(once[i]), FALSE)], limit))

\* The landing pages to probe, best first, and the documents to try on them.
Matches(w, probe) ==
    LET matching == Kept(w.public, {i \in DOMAIN w.public :
                             w.public[i].score > 0 /\ w.public[i].link # ""})
    IN First(Arranged(matching, DOMAIN matching, Stably(matching, Higher)), probe)

ProbeLimit(o) ==
    LET asked == IF o.probe = 0 THEN o.limit * 5 ELSE o.probe IN IF asked > 50 THEN 50 ELSE asked

Candidates(w, o) ==
    LET pages == Matches(w, ProbeLimit(o)) IN
    Concat([i \in DOMAIN pages |->
        [j \in DOMAIN WellKnown[pages[i].link] |->
            [doc |-> WellKnown[pages[i].link][j], title |-> pages[i].title, score |-> pages[i].score]]])

\* What the sources answer under each limit, and without one; the results of
\* public-apis are found by the probes.
AnswersOf(w) ==
    [limit \in {o.limit : o \in Options} \cup {Everything} |->
        [kind \in Kinds |->
            CASE kind = "apis-guru" -> SearchAPIsGuru(w, limit)
              [] kind = "lap-registry" -> SearchLAPRegistry(w, limit)
              [] kind = "rfc9727" -> SearchRFC9727(w, limit)
              [] kind = "public-apis" -> IF "public-apis" \in w.garbled THEN Garbled ELSE Answer(<<>>)]]
ProbesOf(w) == [o \in Options |-> Candidates(w, o)]
----------------------------------------------------------------------------
SearchInit ==
    /\ \E w \in Webs : answers = AnswersOf(w) /\ probes = ProbesOf(w)
    /\ stage = [c \in Callers |-> "idle"]
    /\ opts \in [Callers -> {CHOOSE o \in Options : TRUE}]
    /\ report = [c \in Callers |-> Empty]
    /\ probing = [c \in Callers |-> NoProbes]
    /\ cache = <<>>
    /\ stale = {}
    /\ calls = 0 /\ failures = 0

Proceed(c, step) == stage' = [stage EXCEPT ![c] = step]
Breaks == failures < MaxFailures /\ failures' = failures + 1
Set(c, r) == report' = [report EXCEPT ![c] = r]
Probe(c, p) == probing' = [probing EXCEPT ![c] = p]
Reply(c, r) == Proceed(c, "idle") /\ Set(c, r)

FirstSource(o) == IF o.source = "auto" THEN "apis-guru" ELSE o.source

\* A refresh reads no cache, and neither does a bypass.
Search(c, o) ==
    /\ stage[c] = "idle"
    /\ calls < MaxCalls /\ calls' = calls + 1
    /\ opts' = [opts EXCEPT ![c] = o]
    /\ Set(c, Empty)
    /\ Probe(c, NoProbes)
    /\ Proceed(c, IF o.mode \in {"refresh", "bypass"} THEN FirstSource(o) ELSE "load")
    /\ UNCHANGED <<webVars, cache, stale, failures>>

LoadSearch(c) ==
    /\ stage[c] = "load"
    /\ LET o == opts[c] hit == Key(o) \in DOMAIN cache \ stale IN
       \/ /\ hit
          /\ Reply(c, [results |-> cache[Key(o)].results, error |-> FALSE,
                       attempts |-> <<Attempt("cache", 0, "pass")>> \o cache[Key(o)].attempts])
          /\ UNCHANGED failures
       \/ /\ ~hit
          /\ IF o.mode = "offline"
             THEN Reply(c, [Empty EXCEPT !.attempts = <<Attempt("cache", 0, "miss")>>])
             ELSE Proceed(c, FirstSource(o)) /\ UNCHANGED report
          /\ UNCHANGED failures
       \/ Breaks /\ Reply(c, [Empty EXCEPT !.error = TRUE])
    /\ UNCHANGED <<webVars, opts, probing, cache, stale, calls>>

(***************************************************************************)
(* Under Auto a source that fails, or finds nothing, is followed by the    *)
(* next; alone, its answer is the report.                                  *)
(***************************************************************************)
NextSource(o, source) ==
    CASE source = "apis-guru" -> "lap-registry"
      [] source = "lap-registry" /\ o.provider -> "rfc9727"
      [] OTHER -> "public-apis"

\* The answer of a source that is asked once.
Conclude(c, source, answer) ==
    LET said == [report[c] EXCEPT !.attempts =
                    IF answer.status = "none" THEN @ ELSE Append(@, Attempt(source, 0, answer.status))]
    IN IF opts[c].source = "auto" /\ answer.results = <<>>
       THEN Proceed(c, NextSource(opts[c], source)) /\ Set(c, said)
       ELSE /\ Proceed(c, "store")
            /\ Set(c, [said EXCEPT !.results = answer.results, !.error = answer.failed])

Ask(c, source, answer) ==
    /\ stage[c] = source
    /\ \/ Conclude(c, source, answer) /\ UNCHANGED failures
       \/ answer.status # "none" /\ Breaks /\ Conclude(c, source, Failed)
    /\ UNCHANGED <<webVars, opts, probing, cache, stale, calls>>

Served(c, source) == answers[opts[c].limit][source]
AskAPIsGuru(c) == Ask(c, "apis-guru", Served(c, "apis-guru"))
AskLAPRegistry(c) == Ask(c, "lap-registry", Served(c, "lap-registry"))
AskRFC9727(c) ==
    Ask(c, "rfc9727", IF opts[c].provider THEN Served(c, "rfc9727") ELSE NotAsked)

\* The list of public-apis, whose landing pages are then probed.
AskPublicAPIs(c) ==
    /\ stage[c] = "public-apis"
    /\ \/ /\ ~Served(c, "public-apis").failed
          /\ Proceed(c, "check")
          /\ Probe(c, [probing[c] EXCEPT !.todo = probes[opts[c]]])
          /\ Set(c, [report[c] EXCEPT !.attempts = Append(@, Attempt("public-apis", 0, "pass"))])
          /\ UNCHANGED failures
       \/ /\ Proceed(c, "store")
          /\ \/ /\ Served(c, "public-apis").failed
                /\ Set(c, [report[c] EXCEPT !.attempts = Append(@, Attempt("public-apis", 0, "pass")),
                                            !.error = TRUE])
                /\ UNCHANGED failures
             \/ /\ Breaks
                /\ Set(c, [report[c] EXCEPT !.attempts = Append(@, Attempt("public-apis", 0, "fail")),
                                            !.error = TRUE])
          /\ UNCHANGED probing
    /\ UNCHANGED <<webVars, opts, cache, stale, calls>>

\* The end of the probes: all done, or the budget exceeded.
Finish(c, r) == Proceed(c, "store") /\ Set(c, [r EXCEPT !.results = SortResults(r.results)])
Exceeded(c, r) ==
    Finish(c, [r EXCEPT !.attempts = Append(@, Attempt("public-apis", 0, "fail")), !.error = TRUE])

\* A variant with a bug: partial results pass for all of them.
CheckProbeHidesBudget(c) ==
    /\ stage[c] = "check"
    /\ LET p == probing[c] IN
       IF p.todo = <<>> \/ p.over
       THEN Finish(c, report[c]) /\ UNCHANGED probing
       ELSE /\ Probe(c, [p EXCEPT !.seen = p.seen \cup {Head(p.todo).doc},
                                !.todo = IF Head(p.todo).doc \in p.seen THEN Tail(p.todo) ELSE p.todo])
            /\ IF Head(p.todo).doc \in p.seen THEN UNCHANGED stage ELSE Proceed(c, "download")
            /\ UNCHANGED report
    /\ UNCHANGED <<webVars, opts, cache, stale, calls, failures>>
\* Before a candidate: is there time left, and was the document tried?
CheckProbe(c) ==
    /\ stage[c] = "check"
    /\ LET p == probing[c] IN
       IF p.todo = <<>> THEN Finish(c, report[c]) /\ UNCHANGED probing
       ELSE IF p.over THEN Exceeded(c, report[c]) /\ UNCHANGED probing
       ELSE /\ Probe(c, [p EXCEPT !.seen = p.seen \cup {Head(p.todo).doc},
                                !.todo = IF Head(p.todo).doc \in p.seen THEN Tail(p.todo) ELSE p.todo])
            /\ IF Head(p.todo).doc \in p.seen THEN UNCHANGED stage ELSE Proceed(c, "download")
            /\ UNCHANGED report
    /\ UNCHANGED <<webVars, opts, cache, stale, calls, failures>>

\* downloadSpecWithCache: the candidate is accepted, or it fails, as it does
\* when the budget has ended meanwhile.
DownloadProbe(c) ==
    /\ stage[c] = "download"
    /\ LET p == probing[c]
           candidate == Head(p.todo)
           tried(status) == Append(report[c].attempts, Attempt("public-apis", candidate.doc, status))
           found == [report[c] EXCEPT !.attempts = tried("pass"),
                        !.results = Append(@, Result("public-apis", candidate, TRUE))]
           lost == [report[c] EXCEPT !.attempts = tried("fail")]
       IN \/ /\ candidate.doc \in Valid /\ ~p.over
             /\ IF Len(found.results) >= opts[c].limit THEN Finish(c, found)
                ELSE Proceed(c, "check") /\ Set(c, found)
             /\ UNCHANGED failures
          \/ /\ IF candidate.doc \notin Valid \/ p.over THEN UNCHANGED failures ELSE Breaks
             /\ IF p.over THEN Exceeded(c, lost) ELSE Proceed(c, "check") /\ Set(c, lost)
    /\ Probe(c, [probing[c] EXCEPT !.todo = Tail(@)])
    /\ UNCHANGED <<webVars, opts, cache, stale, calls>>

\* PublicProbeBudget ends.
EndBudget(c) ==
    /\ stage[c] \in {"check", "download"} /\ ~probing[c].over
    /\ Probe(c, [probing[c] EXCEPT !.over = TRUE])
    /\ UNCHANGED <<webVars, stage, opts, report, cache, stale, calls, failures>>

Stored(key, r) ==
    [k \in DOMAIN cache \cup {key} |->
        IF k = key THEN [results |-> r.results, attempts |-> r.attempts] ELSE cache[k]]

\* A report is stored when its search succeeded; an error of the cache is
\* returned with the report.
StoreSearch(c) ==
    /\ stage[c] = "store"
    /\ IF report[c].error \/ opts[c].mode = "bypass"
       THEN Reply(c, report[c]) /\ UNCHANGED <<cache, stale, failures>>
       ELSE \/ /\ cache' = Stored(Key(opts[c]), report[c])
               /\ stale' = stale \ {Key(opts[c])}
               /\ Reply(c, report[c])
               /\ UNCHANGED failures
            \/ /\ Breaks
               /\ Reply(c, [report[c] EXCEPT !.error = TRUE])
               /\ UNCHANGED <<cache, stale>>
    /\ UNCHANGED <<webVars, opts, probing, calls>>

\* CacheMaxAge passes.
Expire ==
    /\ stale # Keys
    /\ stale' = Keys
    /\ UNCHANGED <<webVars, stage, opts, report, probing, cache, calls, failures>>

SearchStep(c) ==
    \/ LoadSearch(c) \/ AskAPIsGuru(c) \/ AskLAPRegistry(c) \/ AskRFC9727(c)
    \/ AskPublicAPIs(c) \/ CheckProbe(c) \/ DownloadProbe(c) \/ StoreSearch(c)

SearchNext ==
    \/ \E c \in Callers : SearchStep(c) \/ EndBudget(c) \/ \E o \in Options : Search(c, o)
    \/ Expire

\* The code of a call goes on as long as it has a step to make.
SearchSpec ==
    SearchInit /\ [][SearchNext]_searchVars /\ \A c \in Callers : WF_searchVars(SearchStep(c))

----------------------------------------------------------------------------
(***************************************************************************)
(* Properties.                                                             *)
(***************************************************************************)
Sources(o) ==
    CASE o.source # "auto" -> <<o.source>>
      [] o.source = "auto" /\ o.provider -> <<"apis-guru", "lap-registry", "rfc9727", "public-apis">>
      [] OTHER -> <<"apis-guru", "lap-registry", "public-apis">>

Full(source) == answers[Everything][source].results

Says(r, source, doc, status) == Attempt(source, doc, status) \in ToSet(r.attempts)

\* The source was asked and had nothing, or failed.
Fruitless(r, source) ==
    \/ Says(r, source, 0, "fail")
    \/ Says(r, source, 0, "pass") /\ Full(source) = <<>>

\* The results are those of the best entries; only public-apis may lack one,
\* and then its probe is among the attempts that failed.
Complete(r, source, o) ==
    IF source # "public-apis" THEN r.results = First(Full(source), o.limit)
    ELSE LET docs == {r.results[i].doc : i \in DOMAIN r.results} IN
         /\ docs \subseteq Valid /\ IsInjective([i \in DOMAIN r.results |-> r.results[i].doc])
         /\ \/ Len(r.results) = o.limit
            \/ \A candidate \in ToSet(probes[o]) :
                  candidate.doc \in docs \/ Says(r, source, candidate.doc, "fail")

Explained(r, o) ==
    \E n \in DOMAIN Sources(o) :
        /\ \A i \in 1..n-1 : Fruitless(r, Sources(o)[i])
        /\ Says(r, Sources(o)[n], 0, "pass")
        /\ Complete(r, Sources(o)[n], o)

\* A report that Search returns without an error, and one that it serves from
\* the cache later, holds the best of the first source that had anything; for
\* each source before it and each document it lacks the attempts tell why.
\* (A list of APIs.guru that is not JSON tells no more than one without matches.)
\* So partial results (the budget of the probes, a failing source, a failing
\* cache) never pass for a whole answer.
ReportsAreExplained ==
    /\ \A k \in DOMAIN cache : \E o \in Options : Key(o) = k /\ Explained(cache[k], o)
    /\ \A c \in Callers :
          stage[c] = "idle" /\ report[c] # Empty /\ ~report[c].error
              => \/ Explained(report[c], opts[c])
                 \/ opts[c].mode = "offline" /\ report[c].results = <<>>

\* Every search returns, whatever fails and whenever the budget ends.
EverySearchEnds == \A c \in Callers : stage[c] # "idle" ~> stage[c] = "idle"
====
