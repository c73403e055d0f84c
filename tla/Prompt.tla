---- MODULE Prompt ----
(***************************************************************************)
(* prompt_safety.go and authoring_api.go: the metadata of operations on    *)
(* its way into a prompt.  Each operation is shortened to its budget, and  *)
(* the ranked ones are taken while they fit into that of the prompt.       *)
(*                                                                         *)
(* An operation is [id, place, fixed, summary, details, fields, sets,      *)
(* needs, issues, unsafe, score]: its operationId, which others may share, *)
(* where it stands (document, method and path), the bytes that are never   *)
(* shortened, those of the summary and of the descriptions, how many       *)
(* fields and alternatives of security it has, the most requirements of    *)
(* one alternative, the codes of its readiness issues, whether a value     *)
(* holds control characters, and how well it answers the query.  A         *)
(* document is [path, relative, header, unsafe, operations].  A rune is a  *)
(* byte, and so is a field or an alternative.                              *)
(***************************************************************************)
EXTENDS Integers, Sequences, FiniteSets, SequencesExt, TLC

CONSTANTS
    Default,        \* DefaultPromptBudget: [text, items, fields, operations, operation, context]
    Compact,        \* what compaction leaves: [summary, fields, items]
    Minimal,        \* the longest summary of a minimal operation
    IssueBytes,     \* of a readiness issue
    Shortlist       \* how many operations the limit 0 stands for

Lesser(i, j) == IF i < j THEN i ELSE j
Budget(b) == [k \in DOMAIN Default |-> IF b[k] <= 0 THEN Default[k] ELSE b[k]]
Size(op) ==
    op.fixed + op.summary + op.details + op.fields + op.sets * (1 + op.needs) + IssueBytes * Len(op.issues)
Diagnostic(severity, code, about) == [severity |-> severity, code |-> code, about |-> about]
Errors(diagnostics) == SelectSeq(diagnostics, LAMBDA d : d.severity = "error")

(***************************************************************************)
(* One operation.                                                          *)
(***************************************************************************)
SanitizeFields(op, b) ==
    [op EXCEPT !.unsafe = FALSE, !.summary = Lesser(@, b.text), !.details = Lesser(@, b.text),
               !.fields = Lesser(@, b.fields), !.sets = Lesser(@, b.items), !.needs = Lesser(@, b.items),
               !.issues = SubSeq(@, 1, Lesser(Len(@), b.items))]
CompactDetails(op) ==
    [op EXCEPT !.details = 0, !.summary = Lesser(@, Compact.summary), !.fields = Lesser(@, Compact.fields),
               !.sets = Lesser(@, Compact.items), !.needs = Lesser(@, Compact.items),
               !.issues = SubSeq(@, 1, Lesser(Len(@), Compact.items))]
MinimalOperation(op, b) ==
    [op EXCEPT !.details = 0, !.summary = Lesser(@, Lesser(Minimal, b.text)), !.fields = 0, !.sets = 0,
               !.needs = 0, !.issues = <<>>]
TooLarge(op, b) == Size(op) > b.operation
Shortened(op, b) ==
    LET compact == IF TooLarge(op, b) THEN CompactDetails(op) ELSE op
    IN IF TooLarge(compact, b) THEN MinimalOperation(compact, b) ELSE compact
\* The issue that says so takes room too; then nothing but it stays.
Blocked(op, b) ==
    LET told == [op EXCEPT !.issues = Append(@, "operation_budget")]
    IN IF TooLarge(told, b) THEN [MinimalOperation(told, b) EXCEPT !.issues = <<"operation_budget">>] ELSE told
Sanitize(op, b) ==
    LET safe == SanitizeFields(op, b)
        compacted == op.sets > b.items \/ (op.sets > 0 /\ op.needs > b.items) \/ TooLarge(safe, b)
    IN IF compacted
       THEN [operation |-> Blocked(Shortened(safe, b), b), diagnostics |-> <<Diagnostic("error", "operation_budget", op.place)>>]
       ELSE [operation |-> safe,
             diagnostics |-> IF safe = op THEN <<>> ELSE <<Diagnostic("warning", "operation_sanitized", op.place)>>]

Refused(before, code) ==
    LET all == Append(before, Diagnostic("error", code, <<>>))
    IN [failed |-> TRUE, diagnostics |-> all, documents |-> <<>>, operations |-> <<>>]
SanitizeSummaries(operations, budget) ==
    LET b == Budget(budget)
        done == [i \in DOMAIN operations |-> Sanitize(operations[i], b)]
        all == FlattenSeq([i \in DOMAIN done |-> done[i].diagnostics])
    IN IF Len(operations) > b.operations THEN Refused(<<>>, "operation_count")
       ELSE [failed |-> Errors(all) # <<>>, diagnostics |-> all, documents |-> <<>>,
             operations |-> [i \in DOMAIN done |-> done[i].operation]]

(***************************************************************************)
(* The ranked operations of documents.  A reference [path, id] selects the *)
(* operations of that ID in its document, or in all when its path is "".   *)
(***************************************************************************)
Selects(refs, doc, op) ==
    LET path == IF doc.relative # "" THEN doc.relative ELSE doc.path
    IN op.id # "" /\ \E i \in DOMAIN refs : refs[i].id = op.id /\ refs[i].path \in {"", path}
Candidates(docs, refs, b) ==
    FlattenSeq([d \in DOMAIN docs |-> [o \in DOMAIN docs[d].operations |->
        LET op == docs[d].operations[o] selected == Selects(refs, docs[d], op)
        IN [doc |-> d, nth |-> o, operation |-> Sanitize(op, b).operation, selected |-> selected,
            score |-> op.score + (IF selected THEN 1000 ELSE 0)]]])
Before(x, y) ==
    CASE x.score # y.score -> x.score > y.score
      [] x.score = y.score /\ x.doc # y.doc -> x.doc < y.doc
      [] OTHER -> x.nth < y.nth
Rank(candidates) == SortSeq(candidates, Before)

BuildDocuments(docs, ranked, include) ==
    LET taken(d) == SelectSeq(ranked, LAMBDA c : c.doc = d /\ <<c.doc, c.nth>> \in include)
        built == [d \in DOMAIN docs |->
                    [path |-> docs[d].path, header |-> docs[d].header,
                     operations |-> [i \in DOMAIN taken(d) |-> taken(d)[i].operation]]]
    IN SelectSeq(built, LAMBDA doc : doc.operations # <<>>)
DocumentsSize(docs) ==
    FoldLeft(LAMBDA sum, doc : sum + doc.header + FoldLeft(LAMBDA s, op : s + Size(op), 0, doc.operations), 0, docs)

\* A variant with a bug: what did not fit stays in.
OfferForgotten(docs, ranked, b, limit, s, c) ==
    LET include == s.include \cup {<<c.doc, c.nth>>}
    IN CASE c.selected -> s
         [] ~c.selected /\ s.extra >= limit -> [s EXCEPT !.limited = @ \/ limit > 0]
         [] OTHER -> IF DocumentsSize(BuildDocuments(docs, ranked, include)) > b.context
                     THEN [s EXCEPT !.include = include, !.full = TRUE]
                     ELSE [s EXCEPT !.include = include, !.extra = @ + 1]
\* One more operation, if it fits with all that were taken.
Offer(docs, ranked, b, limit, s, c) ==
    LET include == s.include \cup {<<c.doc, c.nth>>}
    IN CASE c.selected -> s
         [] ~c.selected /\ s.extra >= limit -> [s EXCEPT !.limited = @ \/ limit > 0]
         [] OTHER -> IF DocumentsSize(BuildDocuments(docs, ranked, include)) > b.context
                     THEN [s EXCEPT !.full = TRUE]
                     ELSE [s EXCEPT !.include = include, !.extra = @ + 1]

Limit(n) == CASE n = 0 -> Shortlist [] n < 0 -> 0 [] OTHER -> n
Chosen(docs, ranked, b, limit, before) ==
    LET selected == {<<c.doc, c.nth>> : c \in {c \in ToSet(ranked) : c.selected}}
        least == DocumentsSize(BuildDocuments(docs, ranked, selected))
        start == [include |-> selected, extra |-> 0, full |-> FALSE, limited |-> FALSE]
        end == FoldLeft(LAMBDA s, c : Offer(docs, ranked, b, limit, s, c), start, ranked)
        Note(condition, code) == IF condition THEN <<Diagnostic("warning", code, <<>>)>> ELSE <<>>
    IN IF least > b.context THEN Refused(before, "selected_budget")
       ELSE [failed |-> FALSE, documents |-> BuildDocuments(docs, ranked, end.include), operations |-> <<>>,
             diagnostics |-> before \o Note(end.full, "context_budget") \o Note(end.limited, "operation_limit")]
RankDocuments(docs, refs, query, asked, budget) ==
    LET b == Budget(budget)
        note(d) == IF docs[d].unsafe THEN <<Diagnostic("warning", "document_sanitized", <<docs[d].path>>)>> ELSE <<>>
        upTo(n) == (IF query.unsafe THEN <<Diagnostic("warning", "query_sanitized", <<>>)>> ELSE <<>>)
                   \o FlattenSeq([d \in 1..n |-> note(d)])
        count(n) == FoldLeft(LAMBDA s, d : s + Len(d.operations), 0, SubSeq(docs, 1, n))
        over == {n \in DOMAIN docs : count(n) > b.operations}
        all == upTo(Len(docs)) \o FlattenSeq([d \in DOMAIN docs |->
                   FlattenSeq([o \in DOMAIN docs[d].operations |-> Sanitize(docs[d].operations[o], b).diagnostics])])
    IN CASE Len(docs) > b.operations -> Refused(<<>>, "document_count")
         [] Len(docs) <= b.operations /\ Len(refs) > b.operations -> Refused(<<>>, "selection_count")
         [] Len(docs) <= b.operations /\ Len(refs) <= b.operations /\ (\E i \in DOMAIN refs : refs[i].unsafe) ->
                Refused(<<>>, "selection_sanitized")
         [] OTHER ->
                IF over # {} THEN Refused(upTo((CHOOSE n \in over : \A k \in over : n <= k) - 1), "operation_count")
                ELSE IF Errors(all) # <<>>
                THEN [failed |-> TRUE, diagnostics |-> all, documents |-> <<>>, operations |-> <<>>]
                ELSE Chosen(docs, Rank(Candidates(docs, refs, b)), b, Limit(asked), all)
====
