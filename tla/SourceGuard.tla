---- MODULE SourceGuard ----
(***************************************************************************)
(* internal/sourceguard/guard.go: the limits that a document must keep     *)
(* before a parser walks it.  A document is a graph: document[n] is the    *)
(* node n, [kind, bytes, children], and the walk starts at Root.  Values   *)
(* share nodes and may be cyclic; the Texts, of YAML and JSON, are what a  *)
(* graph unfolds to.  In YAML and JSON the keys of a mapping are among its *)
(* children; in a decoded value its bytes are those of its keys.           *)
(***************************************************************************)
EXTENDS Naturals, Sequences

CONSTANTS
    Nodes, Root, Values, Texts,
    MaxDocumentBytes, MaxNestingDepth, MaxWorkItems, MaxStructuralItems

Kinds == {"mapping", "sequence", "text", "alias"}
ASSUME LimitsAssumption ==
    /\ MaxDocumentBytes \in Nat /\ MaxNestingDepth \in Nat
    /\ MaxWorkItems \in Nat \ {0} /\ MaxStructuralItems \in Nat \ {0}
ASSUME DocumentsAssumption ==
    /\ Root \in Nodes
    /\ Values \cup Texts \subseteq [Nodes -> [kind : Kinds, bytes : Nat, children : Seq(Nodes)]]

Forms == {"value", "yaml", "json"}
Verdicts == {"none", "accepted", "bytes", "trailing", "work", "depth", "alias"}

\* size is the length of the text, trailing whether a second value follows.
VARIABLES form, document, size, trailing, stack, work, depth, retained, verdict
input == <<form, document, size, trailing>>
vars == <<input, stack, work, depth, retained, verdict>>

(***************************************************************************)
(* The stack holds nodes at their depths.  For JSON it holds what is still *)
(* to come, with a mark where a container closes.                          *)
(***************************************************************************)
Item(n, d) == [node |-> n, depth |-> d, closes |-> FALSE]
Closing(n) == [node |-> n, depth |-> 0, closes |-> TRUE]
Items(children, d) == [i \in DOMAIN children |-> Item(children[i], d)]
Orders(children) ==
    {[i \in DOMAIN children |-> children[p[i]]] :
        p \in {q \in [DOMAIN children -> DOMAIN children] : \A i, j \in DOMAIN children : q[i] = q[j] => i = j}}

Init ==
    /\ form \in Forms
    /\ document \in IF form = "value" THEN Values ELSE Texts
    /\ form # "yaml" => \A n \in Nodes : document[n].kind # "alias"
    /\ size \in 0..(MaxDocumentBytes + 1)
    /\ trailing \in BOOLEAN
    /\ form = "value" => size = 0 /\ ~trailing
    /\ stack = IF form = "json" /\ trailing THEN <<Item(Root, 0), Item(Root, 0)>>
               ELSE <<Item(Root, IF form = "yaml" THEN 1 ELSE 0)>>
    /\ work = IF form = "yaml" THEN 1 ELSE 0
    /\ depth = 0
    /\ retained = 0
    /\ verdict = "none"

Top == stack[Len(stack)]
Node == document[Top.node]
Below == SubSeq(stack, 1, Len(stack) - 1)
IsContainer == Node.kind \in {"mapping", "sequence"}

Reject(why) == verdict' = why /\ UNCHANGED <<input, stack, work, depth, retained>>
Take(items, bytes) ==
    /\ stack' = Below \o items
    /\ work' = work + 1
    /\ retained' = retained + bytes
    /\ UNCHANGED <<input, depth, verdict>>

CheckDocument == size > MaxDocumentBytes /\ Reject("bytes")
CheckTrailing == form = "yaml" /\ trailing /\ size <= MaxDocumentBytes /\ Reject("trailing")
Checked == size <= MaxDocumentBytes /\ ~(form = "yaml" /\ trailing) /\ stack # <<>>

(***************************************************************************)
(* CheckValue: the children of a container must fit in what the limit      *)
(* leaves beside the work that was done and the work that is waiting.      *)
(***************************************************************************)
\* Two variants with a bug: one forgets the work that waits, the other stops
\* one level early.
HasRoomForgetful(n) == n <= MaxWorkItems - (work + 1)
TooDeepEarly(d) == d >= MaxNestingDepth
HasRoom(n) == n + work + 1 + Len(Below) <= MaxWorkItems
TooDeep(d) == d > MaxNestingDepth

CheckValue ==
    /\ form = "value" /\ Checked
    /\ \/ work + 1 > MaxWorkItems /\ Reject("work")
       \/ work + 1 <= MaxWorkItems /\ TooDeep(Top.depth) /\ Reject("depth")
       \/ /\ work + 1 <= MaxWorkItems /\ ~TooDeep(Top.depth)
          /\ \/ IsContainer /\ ~HasRoom(Len(Node.children)) /\ Reject("work")
             \/ /\ IsContainer => HasRoom(Len(Node.children))
                /\ Node.bytes > MaxDocumentBytes - retained
                /\ Reject("bytes")
             \/ /\ IsContainer => HasRoom(Len(Node.children))
                /\ Node.bytes <= MaxDocumentBytes - retained
                /\ IF IsContainer
                   THEN \E order \in IF Node.kind = "mapping" THEN Orders(Node.children) ELSE {Node.children} :
                            Take(Items(order, Top.depth + 1), Node.bytes)
                   ELSE Take(<<>>, Node.bytes)

\* The children of a YAML node are walked in their order; an alias is refused.
Reversed(s) == [i \in DOMAIN s |-> s[Len(s) + 1 - i]]
CheckYAML ==
    /\ form = "yaml" /\ Checked
    /\ \/ work + 1 > MaxStructuralItems /\ Reject("work")
       \/ work + 1 <= MaxStructuralItems /\ TooDeep(Top.depth) /\ Reject("depth")
       \/ work + 1 <= MaxStructuralItems /\ ~TooDeep(Top.depth) /\ Node.kind = "alias" /\ Reject("alias")
       \/ /\ work + 1 <= MaxStructuralItems /\ ~TooDeep(Top.depth) /\ Node.kind # "alias"
          /\ Take(IF IsContainer THEN Reversed(Items(Node.children, Top.depth + 1)) ELSE <<>>, 0)

\* One token of the JSON text: only brackets change the depth.
CheckJSON ==
    /\ form = "json" /\ Checked
    /\ LET opens == IsContainer /\ ~Top.closes
           d == IF Top.closes THEN depth - 1 ELSE IF opens THEN depth + 1 ELSE depth
       IN \/ work + 1 > MaxStructuralItems /\ Reject("work")
          \/ work + 1 <= MaxStructuralItems /\ TooDeep(d) /\ Reject("depth")
          \/ /\ work + 1 <= MaxStructuralItems /\ ~TooDeep(d)
             /\ stack' = Below \o IF opens
                                  THEN <<Closing(Top.node)>> \o Reversed(Items(Node.children, 0))
                                  ELSE <<>>
             /\ work' = work + 1
             /\ depth' = d
             /\ UNCHANGED <<input, retained, verdict>>

Accept ==
    /\ size <= MaxDocumentBytes /\ ~(form = "yaml" /\ trailing)
    /\ stack = <<>>
    /\ verdict' = "accepted"
    /\ UNCHANGED <<input, stack, work, depth, retained>>

Next ==
    /\ verdict = "none"
    /\ CheckDocument \/ CheckTrailing \/ CheckValue \/ CheckYAML \/ CheckJSON \/ Accept
Spec == Init /\ [][Next]_vars

(***************************************************************************)
(* Budget: the work that nested binary decoders share; to use nothing is   *)
(* free.                                                                   *)
(***************************************************************************)
Used(used, n) == IF n <= 0 THEN used ELSE used + n
WithinBudget(used) == used <= MaxWorkItems

TypeOK ==
    /\ form \in Forms /\ document \in Values \cup Texts
    /\ stack \in Seq([node : Nodes, depth : Nat, closes : BOOLEAN])
    /\ work \in Nat /\ retained \in Nat
    /\ verdict \in Verdicts

\* The work that a decoded value costs, done and waiting, never passes the
\* limit, nor do the bytes that are kept: a container reserves room for all
\* of its children before one is pushed (guard.go:156-171).
WorkIsBounded ==
    form = "value" => work + Len(stack) <= MaxWorkItems /\ retained <= MaxDocumentBytes
====
