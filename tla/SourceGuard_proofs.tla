---- MODULE SourceGuard_proofs ----
(***************************************************************************)
(* The guard of decoded values never lets the work pass its limit, for     *)
(* every document and all limits.                                          *)
(***************************************************************************)
EXTENDS SourceGuard, SequenceTheorems, TLAPS

ItemSet == [node : Nodes, depth : Nat, closes : BOOLEAN]

(***************************************************************************)
(* The stack below its top, and what the push of a list of items adds.     *)
(***************************************************************************)
LEMMA BelowTop ==
    ASSUME NEW s \in Seq(ItemSet), s # <<>>
    PROVE  /\ SubSeq(s, 1, Len(s) - 1) \in Seq(ItemSet)
           /\ Len(SubSeq(s, 1, Len(s) - 1)) = Len(s) - 1
           /\ s[Len(s)] \in ItemSet
           /\ Len(s) \in Nat \ {0}
<1>1. Len(s) \in Nat /\ Len(s) # 0
  OBVIOUS
<1>2. s[Len(s)] \in ItemSet
  BY <1>1
<1>3. 1 \in Int /\ Len(s) - 1 \in Int /\ \A i \in 1..(Len(s) - 1) : s[i] \in ItemSet
  BY <1>1
<1> DEFINE n == Len(s) - 1
<1>4. SubSeq(s, 1, n) \in Seq(ItemSet) /\ Len(SubSeq(s, 1, n)) = IF 1 <= n THEN n - 1 + 1 ELSE 0
  <2> HIDE DEF n
  <2> QED BY <1>3, SubSeqProperties DEF n
<1>5. Len(SubSeq(s, 1, n)) = n
  <2>1. n \in Nat
    BY <1>1
  <2> HIDE DEF n
  <2> QED BY <1>4, <2>1
<1> QED BY <1>1, <1>2, <1>4, <1>5

LEMMA PushedItems ==
    ASSUME NEW children \in Seq(Nodes), NEW d \in Nat
    PROVE  Items(children, d) \in Seq(ItemSet) /\ Len(Items(children, d)) = Len(children)
<1>1. \A i \in DOMAIN children : Item(children[i], d) \in ItemSet
  BY DEF Item, ItemSet
<1> QED BY <1>1 DEF Items

\* Whatever order a map is walked in, it has as many children, all of them nodes.
LEMMA OrdersKeepLength ==
    ASSUME NEW children \in Seq(Nodes), NEW order \in Orders(children)
    PROVE  order \in Seq(Nodes) /\ Len(order) = Len(children)
<1>1. PICK p \in [DOMAIN children -> DOMAIN children] : order = [i \in DOMAIN children |-> children[p[i]]]
  BY DEF Orders
<1>2. \A i \in DOMAIN children : children[p[i]] \in Nodes
  BY <1>1
<1> QED BY <1>1, <1>2

LEMMA ReversedKeepsItems ==
    ASSUME NEW s \in Seq(ItemSet)
    PROVE  Reversed(s) \in Seq(ItemSet)
<1>1. \A i \in DOMAIN s : s[Len(s) + 1 - i] \in ItemSet
  OBVIOUS
<1> QED BY <1>1 DEF Reversed

(***************************************************************************)
(* The invariant that one step of the walk preserves.                      *)
(***************************************************************************)
Bounded == TypeOK /\ WorkIsBounded

LEMMA NodesAreRecords ==
    ASSUME TypeOK, stack # <<>>
    PROVE  Top \in ItemSet /\ Node.children \in Seq(Nodes) /\ Node.bytes \in Nat
<1>1. Top \in ItemSet
  BY BelowTop DEF Top, TypeOK, ItemSet
<1>2. Top.node \in Nodes
  BY <1>1 DEF ItemSet
<1>3. document \in [Nodes -> [kind : Kinds, bytes : Nat, children : Seq(Nodes)]]
  BY DocumentsAssumption DEF TypeOK
<1>4. Node \in [kind : Kinds, bytes : Nat, children : Seq(Nodes)]
  BY <1>2, <1>3 DEF Node
<1> QED BY <1>1, <1>4

LEMMA InitIsBounded == Init => Bounded
<1> SUFFICES ASSUME Init PROVE Bounded
  OBVIOUS
<1>1. \A d \in Nat : Item(Root, d) \in ItemSet
  BY DocumentsAssumption DEF Item, ItemSet
<1>2. \A a, b \in ItemSet : <<a, b>> \in Seq(ItemSet) /\ <<a>> \in Seq(ItemSet)
  OBVIOUS
<1>3. stack \in Seq(ItemSet)
  <2>1. CASE form = "json" /\ trailing
    BY <2>1, <1>1, <1>2 DEF Init
  <2>2. CASE ~(form = "json" /\ trailing)
    BY <2>2, <1>1, <1>2 DEF Init
  <2> QED BY <2>1, <2>2
<1>4. TypeOK
  BY <1>3 DEF Init, TypeOK, ItemSet, Verdicts
<1>5. WorkIsBounded
  <2> SUFFICES ASSUME form = "value" PROVE work + Len(stack) <= MaxWorkItems /\ retained <= MaxDocumentBytes
    BY DEF WorkIsBounded
  <2>1. stack = <<Item(Root, 0)>> /\ work = 0 /\ retained = 0
    BY DEF Init
  <2>2. Len(stack) = 1
    BY <2>1
  <2> QED BY <2>1, <2>2, LimitsAssumption
<1> QED BY <1>4, <1>5 DEF Bounded

LEMMA RejectIsBounded ==
    ASSUME Bounded, NEW why \in Verdicts, Reject(why)
    PROVE  Bounded'
BY DEF Bounded, TypeOK, WorkIsBounded, Reject, input

LEMMA TakeIsTyped ==
    ASSUME TypeOK, stack # <<>>, NEW items \in Seq(ItemSet), NEW bytes \in Nat, Take(items, bytes)
    PROVE  TypeOK' /\ Len(stack') = Len(stack) - 1 + Len(items)
<1>1. Below \in Seq(ItemSet) /\ Len(Below) = Len(stack) - 1
  BY BelowTop DEF Below, TypeOK, ItemSet
<1>2. stack' \in Seq(ItemSet) /\ Len(stack') = Len(Below) + Len(items)
  BY <1>1 DEF Take
<1> QED BY <1>1, <1>2 DEF TypeOK, Take, input, ItemSet

LEMMA CheckValueIsBounded ==
    ASSUME Bounded, CheckValue
    PROVE  Bounded'
<1> stack # <<>> /\ TypeOK /\ WorkIsBounded /\ form = "value"
  BY DEF CheckValue, Checked, Bounded
<1>1. CASE \E why \in Verdicts : Reject(why)
  BY <1>1, RejectIsBounded
<1>2. CASE /\ ~\E why \in Verdicts : Reject(why)
  <2>1. /\ IsContainer => HasRoom(Len(Node.children))
        /\ Node.bytes <= MaxDocumentBytes - retained
    BY <1>2 DEF CheckValue, Verdicts
  <2>2. PICK items \in Seq(ItemSet) :
            /\ Take(items, Node.bytes)
            /\ Len(items) = IF IsContainer THEN Len(Node.children) ELSE 0
    <3> Node.children \in Seq(Nodes) /\ Top.depth + 1 \in Nat
      BY NodesAreRecords DEF ItemSet
    <3>1. CASE IsContainer /\ Node.kind = "mapping"
      <4>1. PICK order \in Orders(Node.children) : Take(Items(order, Top.depth + 1), Node.bytes)
        BY <1>2, <3>1 DEF CheckValue, Verdicts
      <4>2. order \in Seq(Nodes) /\ Len(order) = Len(Node.children)
        BY <4>1, OrdersKeepLength
      <4> QED BY <4>1, <4>2, <3>1, PushedItems
    <3>2. CASE IsContainer /\ Node.kind # "mapping"
      <4>1. Take(Items(Node.children, Top.depth + 1), Node.bytes)
        BY <1>2, <3>2 DEF CheckValue, Verdicts
      <4> QED BY <4>1, <3>2, PushedItems
    <3>3. CASE ~IsContainer
      <4>1. Take(<<>>, Node.bytes)
        BY <1>2, <3>3 DEF CheckValue, Verdicts
      <4>2. <<>> \in Seq(ItemSet) /\ Len(<<>>) = 0
        OBVIOUS
      <4>3. Len(<<>>) = IF IsContainer THEN Len(Node.children) ELSE 0
        BY <4>2, <3>3
      <4> WITNESS <<>> \in Seq(ItemSet)
      <4> QED BY <4>1, <4>3
    <3> QED BY <3>1, <3>2, <3>3
  <2>3. Node.bytes \in Nat /\ Node.children \in Seq(Nodes)
    BY NodesAreRecords
  <2>4. TypeOK' /\ Len(stack') = Len(stack) - 1 + Len(items)
    BY <2>2, <2>3, TakeIsTyped
  <2>5. Len(stack) \in Nat /\ work \in Nat /\ Len(Below) = Len(stack) - 1
    <3>1. stack \in Seq(ItemSet) /\ work \in Nat
      BY DEF TypeOK, ItemSet
    <3> QED BY <3>1, BelowTop DEF Below
  <2>6. work' + Len(stack') <= MaxWorkItems
    <3>1. work' = work + 1
      BY <2>2 DEF Take
    <3>2. CASE IsContainer
      <4> DEFINE added == Len(items)
                 below == Len(Below)
      <4>1. added = Len(Node.children) /\ added \in Nat
        BY <3>2, <2>2
      <4>2. added + work + 1 + below <= MaxWorkItems
        BY <4>1, <3>2, <2>1 DEF HasRoom
      <4>3. Len(stack') = below + added /\ below \in Nat
        BY <2>4, <2>5, BelowTop DEF TypeOK, ItemSet
      <4> HIDE DEF added, below
      <4>4. work \in Nat /\ MaxWorkItems \in Nat /\ added \in Nat /\ below \in Nat
        BY <4>1, <4>3, <2>5, LimitsAssumption
      <4>5. (work + 1) + (below + added) <= MaxWorkItems
        BY <4>2, <4>4
      <4> QED BY <4>3, <4>5, <3>1
    <3>3. CASE ~IsContainer
      BY <3>1, <3>3, <2>2, <2>4, <2>5, LimitsAssumption DEF WorkIsBounded
    <3> QED BY <3>2, <3>3
  <2>7. retained' <= MaxDocumentBytes
    <3>1. retained' = retained + Node.bytes /\ retained \in Nat
      BY <2>2 DEF Take, TypeOK
    <3>2. Node.bytes <= MaxDocumentBytes - retained
      BY <2>1
    <3> HIDE DEF Node
    <3> QED BY <3>1, <3>2, <2>3, LimitsAssumption
  <2> QED BY <2>4, <2>6, <2>7 DEF Bounded, WorkIsBounded
<1> QED BY <1>1, <1>2

LEMMA CheckYAMLIsBounded ==
    ASSUME Bounded, CheckYAML
    PROVE  Bounded'
<1> stack # <<>> /\ TypeOK /\ form = "yaml"
  BY DEF CheckYAML, Checked, Bounded
<1>1. CASE \E why \in Verdicts : Reject(why)
  BY <1>1, RejectIsBounded
<1>2. CASE ~\E why \in Verdicts : Reject(why)
  <2>1. PICK items \in Seq(ItemSet) : Take(items, 0)
    <3> Node.children \in Seq(Nodes) /\ Top.depth + 1 \in Nat
      BY NodesAreRecords DEF ItemSet
    <3>1. Take(IF IsContainer THEN Reversed(Items(Node.children, Top.depth + 1)) ELSE <<>>, 0)
      BY <1>2 DEF CheckYAML, Verdicts
    <3>2. (IF IsContainer THEN Reversed(Items(Node.children, Top.depth + 1)) ELSE <<>>) \in Seq(ItemSet)
      BY PushedItems, ReversedKeepsItems
    <3> QED BY <3>1, <3>2
  <2>2. TypeOK' /\ form' = form
    BY <2>1, TakeIsTyped DEF Take, input
  <2> QED BY <2>2 DEF Bounded, WorkIsBounded
<1> QED BY <1>1, <1>2

LEMMA CheckJSONIsBounded ==
    ASSUME Bounded, CheckJSON
    PROVE  Bounded'
<1> stack # <<>> /\ TypeOK /\ form = "json"
  BY DEF CheckJSON, Checked, Bounded
<1>1. CASE \E why \in Verdicts : Reject(why)
  BY <1>1, RejectIsBounded
<1>2. CASE ~\E why \in Verdicts : Reject(why)
  <2> DEFINE opens == IsContainer /\ ~Top.closes
             items == IF opens THEN <<Closing(Top.node)>> \o Reversed(Items(Node.children, 0)) ELSE <<>>
  <2>1. stack' = Below \o items /\ work' = work + 1 /\ UNCHANGED <<input, retained, verdict>>
    BY <1>2 DEF CheckJSON, Verdicts
  <2>2. Below \in Seq(ItemSet)
    BY BelowTop DEF Below, TypeOK, ItemSet
  <2>3. items \in Seq(ItemSet)
    <3>1. Node.children \in Seq(Nodes) /\ Top.node \in Nodes
      BY NodesAreRecords DEF ItemSet
    <3>2. Reversed(Items(Node.children, 0)) \in Seq(ItemSet)
      BY <3>1, PushedItems, ReversedKeepsItems
    <3>3. <<Closing(Top.node)>> \in Seq(ItemSet)
      BY <3>1 DEF Closing, ItemSet
    <3> QED BY <3>2, <3>3
  <2>4. stack' \in Seq(ItemSet)
    BY <2>1, <2>2, <2>3
  <2> QED BY <2>1, <2>4 DEF Bounded, TypeOK, WorkIsBounded, input, ItemSet
<1> QED BY <1>1, <1>2

LEMMA NextIsBounded == Bounded /\ [Next]_vars => Bounded'
<1> SUFFICES ASSUME Bounded, [Next]_vars PROVE Bounded'
  OBVIOUS
<1>1. CASE CheckDocument
  BY <1>1, RejectIsBounded DEF CheckDocument, Verdicts
<1>2. CASE CheckTrailing
  BY <1>2, RejectIsBounded DEF CheckTrailing, Verdicts
<1>3. CASE CheckValue
  BY <1>3, CheckValueIsBounded
<1>4. CASE CheckYAML
  BY <1>4, CheckYAMLIsBounded
<1>5. CASE CheckJSON
  BY <1>5, CheckJSONIsBounded
<1>6. CASE Accept
  BY <1>6 DEF Accept, Bounded, TypeOK, WorkIsBounded, input, Verdicts
<1>7. CASE UNCHANGED vars
  BY <1>7 DEF Bounded, TypeOK, WorkIsBounded, vars, input
<1> QED BY <1>1, <1>2, <1>3, <1>4, <1>5, <1>6, <1>7 DEF Next

(***************************************************************************)
(* Whatever the graph of a decoded value, cycles and shared nodes           *)
(* included, the work done and waiting keeps within MaxWorkItems and the    *)
(* bytes of its strings within MaxDocumentBytes (guard.go CheckValue).      *)
(***************************************************************************)
THEOREM WorkStaysBounded == Spec => []WorkIsBounded
<1>1. Spec => []Bounded
  BY InitIsBounded, NextIsBounded, PTL DEF Spec
<1>2. Bounded => WorkIsBounded
  BY DEF Bounded
<1> QED BY <1>1, <1>2, PTL
====
