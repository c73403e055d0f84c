---- MODULE PublishedPrompts ----
(***************************************************************************)
(* Operations for a prompt, and what a prompt of them must be.             *)
(***************************************************************************)
EXTENDS Prompt

Op(id, score) ==
    [id |-> id, place |-> <<>>, fixed |-> 2, summary |-> 1, details |-> 0, fields |-> 0, sets |-> 0, needs |-> 0, issues |-> <<>>,
     unsafe |-> FALSE, score |-> score]
Plain == {Op("a", 0), Op("b", 1), [Op("b", 0) EXCEPT !.fields = 1], [Op("", 1) EXCEPT !.details = 2]}
Marked == {[Op("a", 1) EXCEPT !.unsafe = TRUE], [Op("b", 1) EXCEPT !.summary = 3]}
Secure(sets, needs) == [Op("a", 1) EXCEPT !.sets = sets, !.needs = needs]
Heavy == {[Op("c", 1) EXCEPT !.fixed = 3, !.details = 2, !.fields = 2], Secure(3, 1)}
Every ==
    {[id |-> "a", place |-> <<"p">>, fixed |-> x, summary |-> s, details |-> d, fields |-> f, sets |-> n, needs |-> r,
      issues |-> i, unsafe |-> u, score |-> 0] :
        x \in {1, 4, 8}, s \in {0, 3}, d \in {0, 2}, f \in {0, 3}, n \in {0, 1, 3}, r \in {1, 3},
        i \in {<<>>, <<"x", "y", "z">>}, u \in BOOLEAN}

Tight == [text |-> 2, items |-> 2, fields |-> 2, operations |-> 3, operation |-> 7, context |-> 0]
Document(path, relative, unsafe, operations) ==
    [path |-> path, relative |-> relative, header |-> 1, unsafe |-> unsafe,
     operations |-> [i \in DOMAIN operations |-> [operations[i] EXCEPT !.place = <<path, i>>]]]
Ref(path, id) == [path |-> path, id |-> id, unsafe |-> FALSE]
References ==
    {<<>>, <<Ref("", "b")>>, <<Ref("q", "a")>>, <<Ref("q", "a"), Ref("p", "b")>>, <<[Ref("q", "a") EXCEPT !.unsafe = TRUE]>>,
     <<Ref("q", "a"), Ref("q", "b"), Ref("", "a"), Ref("", "b")>>}
First == {<<x>> : x \in Plain \cup Marked \cup Heavy} \cup {<<x, y>> : x, y \in Plain}
Second == {<<x>> : x \in Plain} \cup {<<x, y>> : x \in {Op("a", 0), Op("b", 1)}, y \in Plain}
DocumentLists ==
    {<<>>} \cup {<<Document("p", "", FALSE, f)>> : f \in First}
    \cup {<<Document("p", "", u, f), Document("r", "q", FALSE, s)>> : u \in BOOLEAN, f \in First, s \in Second}
Nothing == [documents |-> <<>>, refs |-> <<>>, query |-> [unsafe |-> FALSE], limit |-> 0, operations |-> <<>>, budget |-> Tight]
RankServices ==
    {[Nothing EXCEPT !.documents = d, !.refs = r, !.limit = l, !.budget.context = c] :
        d \in DocumentLists, r \in References, l \in {-1, 0, 1}, c \in {5, 9, 0}}
Services ==
    RankServices \cup {[Nothing EXCEPT !.operations = <<x>>] : x \in Every}
    \cup {[Nothing EXCEPT !.operations = l] : l \in {<<Op("a", 0), Op("a", 0), Op("a", 0), Op("a", 0)>>}}
    \cup {[Nothing EXCEPT !.documents = <<Document("p", "", u, f)>>, !.query.unsafe = TRUE] : u \in BOOLEAN, f \in First}
Read(service) ==
    IF service.operations # <<>> THEN SanitizeSummaries(service.operations, service.budget)
    ELSE RankDocuments(service.documents, service.refs, service.query, service.limit, service.budget)

Codes(report) == {report.diagnostics[i].code : i \in DOMAIN report.diagnostics}
IsBlocked(report) == \E i \in DOMAIN report.diagnostics : report.diagnostics[i].severity = "error"
\* Told of a document or an operation: the diagnostics about its place.
Told(report, place) == {report.diagnostics[i].code : i \in {i \in DOMAIN report.diagnostics : report.diagnostics[i].about = place}}

(***************************************************************************)
(* What is said of a single operation: it is cut down to its budget, or to *)
(* what is never shortened and the issue that says so.  It is told of      *)
(* exactly if anything of it was cut, and as an error if more than texts,  *)
(* fields and issues beyond their number.                                  *)
(***************************************************************************)
OperationFits(given, taken, report, b) ==
    LET told == Told(report, given.place)
        less == taken.sets < given.sets \/ (taken.sets > 0 /\ taken.needs < given.needs)
    IN /\ taken.id = given.id /\ taken.place = given.place /\ ~taken.unsafe
       /\ TooLarge(taken, b) => taken.issues = <<"operation_budget">> /\ taken.details + taken.fields + taken.sets = 0
       /\ less => "operation_budget" \in told
       /\ "operation_budget" \in told <=> "operation_budget" \in ToSet(taken.issues)
       /\ told = {} <=> taken = given
       /\ told = {"operation_sanitized"} =>
            /\ Lesser(given.summary, b.text) = taken.summary /\ Lesser(given.details, b.text) = taken.details
            /\ Lesser(given.fields, b.fields) = taken.fields /\ IsPrefix(taken.issues, given.issues)

(***************************************************************************)
(* A prompt is refused when something blocks it, and otherwise holds,      *)
(* under their documents, all operations that were selected, and of the    *)
(* others, best first, each one for which those before it leave room.      *)
(* Whatever is left out or cut is told of.                                 *)
(***************************************************************************)
PromptFits(service, report) ==
    LET b == Budget(service.budget)
        docs == service.documents
        places == {<<d, o>> \in (DOMAIN docs) \X (1..2) : o \in DOMAIN docs[d].operations}
        given(p) == docs[p[1]].operations[p[2]]
        fitted(p) == SanitizeFields(given(p), b)
        selected == {p \in places : Selects(service.refs, docs[p[1]], given(p))}
        cost(ps) == Cardinality({p[1] : p \in ps}) + FoldLeft(LAMBDA s, p : s + Size(fitted(p)), 0, SetToSeq(ps))
        fits(ps) == cost(ps) <= b.context
        better(p, q) ==
            \/ given(p).score > given(q).score
            \/ given(p).score = given(q).score /\ (p[1] < q[1] \/ (p[1] = q[1] /\ p[2] < q[2]))
        blocked == \/ Cardinality(places) > b.operations \/ Len(service.refs) > b.operations
                   \/ \E i \in DOMAIN service.refs : service.refs[i].unsafe
                   \/ \E p \in places : given(p).sets > b.items \/ Size(fitted(p)) > b.operation
                   \/ ~fits(selected)
        \* What the report holds, each operation with the document it is under.
        reported == FlattenSeq([d \in DOMAIN report.documents |->
                        LET doc == report.documents[d]
                        IN [o \in DOMAIN doc.operations |-> <<doc.path, doc.operations[o]>>]])
        taken == {p \in places : <<docs[p[1]].path, fitted(p)>> \in ToSet(reported)}
        before(p) == {q \in taken \ selected : better(q, p)}
    IN /\ report.failed <=> blocked
       /\ ~report.failed =>
            /\ DocumentsSize(report.documents) <= b.context
            /\ Cardinality(taken) = Len(reported) /\ selected \subseteq taken
            /\ \A p \in taken \ selected : Cardinality(before(p)) < Limit(service.limit)
            /\ \A p \in places \ taken :
                 \/ Cardinality(before(p)) >= Limit(service.limit)
                 \/ ~fits(selected \cup before(p) \cup {p})
            /\ taken # places /\ service.limit >= 0 => {"context_budget", "operation_limit"} \cap Codes(report) # {}
            /\ \A p \in places : Told(report, given(p).place) = IF fitted(p) = given(p) THEN {} ELSE {"operation_sanitized"}
            /\ \A d \in DOMAIN docs :
                 Told(report, <<docs[d].path>>) = IF docs[d].unsafe THEN {"document_sanitized"} ELSE {}
            /\ service.query.unsafe <=> "query_sanitized" \in Codes(report)
Fits(service, report) ==
    /\ report.failed <=> IsBlocked(report)
    /\ report.failed => report.documents = <<>>
    /\ service.operations = <<>> => PromptFits(service, report)
    /\ \A i \in DOMAIN report.operations :
           OperationFits(service.operations[i], report.operations[i], report, Budget(service.budget))
====
