---- MODULE Client_proofs ----
(***************************************************************************)
(* The two jobs of a client, in this order:                                *)
(*   - any number of discoveries, with any project texts, race for the     *)
(*     names of one directory, fail and die anywhere: what they import     *)
(*     stays whole, only crashes and double faults litter, no URL is       *)
(*     skipped;                                                            *)
(*   - any number of searches, of any web, fail anywhere and run out of    *)
(*     time: a report without an error, and one that the cache gives       *)
(*     later, holds the best of the first source that had anything.        *)
(***************************************************************************)
EXTENDS ProjectDiscovery, Search, FiniteSetTheorems, WellFoundedInduction, TLAPS

Origins == URLs \cup {"local"}
Documents == [name : Names, source : Origins]
Tries == [url : URLs, status : {"pass", "fail"}]
Pcs == Running \cup {"done", "dead"}
Importing == {"download", "create", "write", "remove", "guru"}
Creating == {"create", "write", "remove"}

(***************************************************************************)
(* Recursion over the numbers up to n, by the least number it would fail   *)
(* to reach.                                                               *)
(***************************************************************************)
LEMMA LeastNumber == ASSUME NEW S \in SUBSET Nat, S # {} PROVE \E m \in S : \A k \in S : m <= k
<1>1. PICK m \in S : \A k \in S : ~(<<k, m>> \in OpToRel(<, Nat))
    BY NatLessThanWellFounded, WFMin
<1>2. \A k \in S : ~(k < m)
    BY <1>1 DEF OpToRel
<1> QED BY <1>2

LEMMA Recursion ==
    ASSUME NEW A, NEW a \in A, NEW n \in Nat, NEW next \in [1..n -> [A -> A]]
    PROVE  \E f \in [0..n -> A] : f[0] = a /\ \A i \in 1..n : f[i] = next[i][f[i - 1]]
<1> DEFINE Reaches(k, f) == f[0] = a /\ \A i \in 1..k : f[i] = next[i][f[i - 1]]
           Stuck == {k \in 0..n : ~ \E f \in [0..k -> A] : Reaches(k, f)}
<1>1. Stuck = {}
  <2> SUFFICES ASSUME Stuck # {} PROVE FALSE
      OBVIOUS
  <2> HIDE DEF Reaches
  <2>1. PICK m \in Stuck : \A k \in Stuck : m <= k
    <3>1. Stuck \in SUBSET Nat
        OBVIOUS
    <3> HIDE DEF Stuck
    <3> QED BY <3>1, LeastNumber
  <2>2. m # 0
    <3>1. [i \in 0..0 |-> a] \in [0..0 -> A] /\ Reaches(0, [i \in 0..0 |-> a])
        BY DEF Reaches
    <3>2. 0 \notin Stuck
        BY <3>1
    <3> QED BY <3>2
  <2>3. m - 1 \in 0..n /\ m \in 1..n
      BY <2>2
  <2>4. m - 1 \notin Stuck
    <3> HIDE DEF Stuck
    <3> QED BY <2>1, <2>3
  <2>5. PICK f \in [0..(m - 1) -> A] : Reaches(m - 1, f)
      BY <2>3, <2>4
  <2> DEFINE g == [i \in 0..m |-> IF i = m THEN next[m][f[m - 1]] ELSE f[i]]
  <2>6. next[m][f[m - 1]] \in A
    <3>1. m - 1 \in 0..(m - 1)
        BY <2>3
    <3>2. f[m - 1] \in A
        BY <2>5, <3>1
    <3> QED BY <2>3, <3>2
  <2>7. g \in [0..m -> A]
      BY <2>3, <2>5, <2>6
  <2>8. g[0] = a
      BY <2>3, <2>5 DEF Reaches
  <2>9. ASSUME NEW i \in 1..m PROVE g[i] = next[i][g[i - 1]]
    <3>1. g[i] = (IF i = m THEN next[m][f[m - 1]] ELSE f[i]) /\ g[i - 1] = f[i - 1]
        BY <2>3
    <3>2. i \in 1..(m - 1) => f[i] = next[i][f[i - 1]]
        BY <2>5 DEF Reaches
    <3> HIDE DEF g
    <3> QED BY <2>3, <3>1, <3>2
  <2>10. Reaches(m, g)
    <3> HIDE DEF g
    <3> QED BY <2>8, <2>9 DEF Reaches
  <2> HIDE DEF g
  <2> QED BY <2>7, <2>10
<1> HIDE DEF Reaches
<1>2. \E f \in [0..n -> A] : Reaches(n, f)
    BY <1>1
<1> QED BY <1>2 DEF Reaches

\* The URLs of a project text are URLs.
LEMMA UniqueType == ASSUME NEW urls \in Seq(URLs) PROVE Unique(urls) \in Seq(URLs)
<1> DEFINE n == Len(urls)
           Seen(i) == \E j \in 1..(i - 1) : urls[j] = urls[i]
           next == [i \in 1..n |-> [s \in Seq(URLs) |-> IF Seen(i) THEN s ELSE Append(s, urls[i])]]
           Rec(f) == [i \in 0..n |-> IF i = 0 THEN <<>> ELSE IF Seen(i) THEN f[i - 1]
                                                       ELSE Append(f[i - 1], urls[i])]
<1>1. n \in Nat /\ <<>> \in Seq(URLs)
    OBVIOUS
<1>2. next \in [1..n -> [Seq(URLs) -> Seq(URLs)]]
  <2> SUFFICES ASSUME NEW i \in 1..n, NEW s \in Seq(URLs)
               PROVE  (IF Seen(i) THEN s ELSE Append(s, urls[i])) \in Seq(URLs)
      OBVIOUS
  <2>1. urls[i] \in URLs
      OBVIOUS
  <2>2. Append(s, urls[i]) \in Seq(URLs)
      BY <2>1
  <2> HIDE DEF Seen
  <2> QED BY <2>2
<1>3. PICK f \in [0..n -> Seq(URLs)] : f[0] = <<>> /\ \A i \in 1..n : f[i] = next[i][f[i - 1]]
  <2> DEFINE S == Seq(URLs)
             empty == <<>>
  <2>1. empty \in S /\ n \in Nat /\ next \in [1..n -> [S -> S]]
      BY <1>1, <1>2
  <2> HIDE DEF next, n, S, empty
  <2>2. \E f \in [0..n -> S] : f[0] = empty /\ \A i \in 1..n : f[i] = next[i][f[i - 1]]
      BY <2>1, Recursion
  <2> QED BY <2>2 DEF S, empty
<1>4. \A i \in 1..n : f[i] = IF Seen(i) THEN f[i - 1] ELSE Append(f[i - 1], urls[i])
  <2> SUFFICES ASSUME NEW i \in 1..n
               PROVE  f[i] = IF Seen(i) THEN f[i - 1] ELSE Append(f[i - 1], urls[i])
      OBVIOUS
  <2>1. i - 1 \in 0..n
      BY <1>1
  <2>2. f[i - 1] \in Seq(URLs)
      BY <2>1
  <2>3. f[i] = next[i][f[i - 1]]
      BY <1>3
  <2> HIDE DEF Seen, n
  <2> QED BY <2>2, <2>3
<1>5. f = Rec(f)
  <2>1. f = [i \in 0..n |-> f[i]]
      BY <1>3
  <2>2. \A i \in 0..n : f[i] = Rec(f)[i]
    <3> SUFFICES ASSUME NEW i \in 0..n PROVE f[i] = Rec(f)[i]
        OBVIOUS
    <3> HIDE DEF Seen, n
    <3>1. Rec(f)[i] = IF i = 0 THEN <<>> ELSE IF Seen(i) THEN f[i - 1] ELSE Append(f[i - 1], urls[i])
        OBVIOUS
    <3> HIDE DEF Rec
    <3>2. i = 0 \/ i \in 1..n
        BY <1>1
    <3>3. i \in 1..n => i # 0
        BY <1>1
    <3> QED BY <1>3, <1>4, <3>1, <3>2, <3>3
  <2> HIDE DEF Seen, n
  <2> QED BY <2>1, <2>2
<1> DEFINE after == CHOOSE g : g = Rec(g)
<1>6. after = Rec(after)
  <2> HIDE DEF Rec
  <2> QED BY <1>5
<1>7. Unique(urls) = after[n]
    BY DEF Unique
\* Any other solution agrees with f.
<1>8. \A i \in 0..n : after[i] = f[i]
  <2> DEFINE Wrong == {i \in 0..n : after[i] # f[i]}
  <2> SUFFICES ASSUME Wrong # {} PROVE FALSE
      OBVIOUS
  <2>1. PICK m \in Wrong : \A k \in Wrong : m <= k
    <3>1. Wrong \in SUBSET Nat
        BY <1>1
    <3> HIDE DEF Wrong
    <3> QED BY <3>1, LeastNumber
  <2> HIDE DEF Seen
  <2>2. after[0] = <<>> /\ \A i \in 1..n : after[i] = IF Seen(i) THEN after[i - 1] ELSE Append(after[i - 1], urls[i])
    <3>1. \A i \in 0..n : after[i] = IF i = 0 THEN <<>> ELSE IF Seen(i) THEN after[i - 1]
                                                       ELSE Append(after[i - 1], urls[i])
      <4> HIDE DEF after
      <4> QED BY <1>6
    <3> HIDE DEF after
    <3> QED BY <1>1, <3>1
  <2> HIDE DEF after
  <2>3. m \in 1..n /\ m - 1 \in 0..n /\ m - 1 \notin Wrong
      BY <1>1, <1>3, <2>1, <2>2
  <2> QED BY <1>4, <2>1, <2>2, <2>3
<1> HIDE DEF after
<1> QED BY <1>1, <1>3, <1>7, <1>8

----------------------------------------------------------------------------
(***************************************************************************)
(* Types.  From the first import on a process has URLs to do, and one that *)
(* creates or writes a file is at a URL.                                   *)
(***************************************************************************)
Tasks(p) ==
    /\ pc[p] \in Importing => todo[p] \in Seq(URLs)
    /\ pc[p] \in Creating => todo[p] # <<>>
Typed == TypeOK /\ \A p \in Processes : Tasks(p)

LEMMA ListingType == ASSUME NEW S, IsFiniteSet(S) PROVE SetToSeq(S) \in Seq(S)
<1>1. Cardinality(S) \in Nat /\ ExistsBijection(1..Cardinality(S), S)
    BY FS_CardinalityType
<1>2. PICK f \in [1..Cardinality(S) -> S] : IsInjective(f)
    BY <1>1 DEF ExistsBijection, Bijection, Injection
<1>3. SetToSeq(S) \in [1..Cardinality(S) -> S]
    BY <1>2 DEF SetToSeq
<1> QED BY <1>1, <1>3

LEMMA SeqWidens == ASSUME NEW S, NEW T, S \subseteq T, NEW s \in Seq(S) PROVE s \in Seq(T)
  OBVIOUS

LEMMA DirTypes ==
    ASSUME TypeOK, NEW name \in Names, NEW file \in Files, dir' \in {dir, With(name, file), Without(name)}
    PROVE  DOMAIN dir' \in SUBSET Names /\ IsFiniteSet(DOMAIN dir') /\ dir' \in [DOMAIN dir' -> Files]
<1>1. CASE dir' = dir
    BY <1>1 DEF TypeOK
<1>2. CASE dir' = With(name, file)
  <2>1. DOMAIN dir' = DOMAIN dir \cup {name} /\ IsFiniteSet(DOMAIN dir \cup {name})
      BY <1>2, FS_AddElement DEF With, TypeOK
  <2> QED BY <1>2, <2>1 DEF With, TypeOK
<1>3. CASE dir' = Without(name)
  <2>1. DOMAIN dir' = DOMAIN dir \ {name} /\ IsFiniteSet(DOMAIN dir \ {name})
      BY <1>3, FS_RemoveElement DEF Without, TypeOK
  <2> QED BY <1>3, <2>1 DEF Without, TypeOK
<1> QED BY <1>1, <1>2, <1>3

LEMMA NameType ==
    ASSUME Typed, NEW p \in Processes, pc[p] \in Creating
    PROVE  /\ Name(p) \in Names /\ Head(todo[p]) \in URLs /\ Rest(p) \in Seq(URLs)
           /\ \A w \in {"empty", "part", "whole"} : File(p, Head(todo[p]), w) \in Files
<1>1. todo[p] \in Seq(URLs) /\ todo[p] # <<>> /\ suffix[p] \in Nat
    BY DEF Typed, TypeOK, Tasks, Importing, Creating
<1>2. Head(todo[p]) \in URLs /\ Tail(todo[p]) \in Seq(URLs)
    BY <1>1
<1> QED BY <1>1, <1>2 DEF Name, Names, Rest, File, Files

LEMMA FailTypes ==
    ASSUME Typed, NEW p \in Processes, pc[p] \in Importing, todo[p] # <<>>, FailImport(p)
    PROVE  /\ pc'[p] \in {"download", "done"} /\ pc' = [pc EXCEPT ![p] = pc'[p]]
           /\ todo' \in [Processes -> Seq(Names \cup URLs)] /\ todo'[p] \in Seq(URLs)
           /\ suffix' \in [Processes -> Nat] /\ UNCHANGED found
           /\ attempts' \in [Processes -> Seq(Tries)]
           /\ res' \in [Processes -> {"none", "asking", "ok", "error"}]
           /\ \A x \in Processes : x # p => todo'[x] = todo[x]
<1>1. todo[p] \in Seq(URLs) /\ TypeOK
    BY DEF Typed, Tasks
<1>2. Head(todo[p]) \in URLs /\ Rest(p) \in Seq(URLs)
    BY <1>1 DEF Rest
<1>3. Rest(p) \in Seq(Names \cup URLs)
    BY <1>2, SeqWidens
<1>4. [url |-> Head(todo[p]), status |-> "fail"] \in Tries
    BY <1>2 DEF Tries
<1>5. Append(attempts[p], [url |-> Head(todo[p]), status |-> "fail"]) \in Seq(Tries)
  <2> DEFINE attempt == [url |-> Head(todo[p]), status |-> "fail"]
  <2>1. attempts[p] \in Seq(Tries) /\ attempt \in Tries
      BY <1>1, <1>4 DEF TypeOK, Tries
  <2> HIDE DEF attempt
  <2>2. Append(attempts[p], attempt) \in Seq(Tries)
      BY <2>1
  <2> QED BY <2>2 DEF attempt
<1>6. todo' = [todo EXCEPT ![p] = Rest(p)] /\ suffix' = [suffix EXCEPT ![p] = 1]
    BY DEF FailImport, Attempted
<1>7. attempts' \in [Processes -> Seq(Tries)]
    BY <1>1, <1>5 DEF FailImport, Attempted, TypeOK, Tries
<1>8. /\ pc'[p] \in {"download", "done"} /\ pc' = [pc EXCEPT ![p] = pc'[p]]
      /\ res' \in [Processes -> {"none", "asking", "ok", "error"}]
    BY <1>1 DEF FailImport, Return, Goto, TypeOK
<1> QED BY <1>1, <1>2, <1>3, <1>6, <1>7, <1>8 DEF TypeOK, FailImport

(***************************************************************************)
(* A step of process p keeps the types of what is its own.                 *)
(***************************************************************************)
Own(p) ==
    /\ pc'[p] \in Pcs /\ pc' = [pc EXCEPT ![p] = pc'[p]]
    /\ todo' \in [Processes -> Seq(Names \cup URLs)] /\ Tasks(p)'
    /\ suffix' \in [Processes -> Nat]
    /\ found' \in [Processes -> Seq(Documents)]
    /\ attempts' \in [Processes -> Seq(Tries)]
    /\ res' \in [Processes -> {"none", "asking", "ok", "error"}]
    /\ \A x \in Processes : x # p => todo'[x] = todo[x]
    /\ faults' \in Nat /\ crashes' \in Nat
    /\ DOMAIN dir' \in SUBSET Names /\ IsFiniteSet(DOMAIN dir') /\ dir' \in [DOMAIN dir' -> Files]

LEMMA OwnTypes == ASSUME Typed, NEW p \in Processes, Step(p) \/ Crash(p) PROVE Own(p)
<1> USE DEF Goto, Succeed
<1>0. TypeOK /\ Tasks(p) /\ pc[p] \in Pcs
    BY DEF Typed, TypeOK, Pcs
<1>1. CASE Scan(p)
  <2>1. SetToSeq(DOMAIN dir) \in Seq(DOMAIN dir) /\ DOMAIN dir \subseteq Names \cup URLs
      BY <1>0, ListingType DEF TypeOK
  <2>2. SetToSeq(DOMAIN dir) \in Seq(Names \cup URLs)
      BY <2>1, SeqWidens
  <2>3. todo' \in [Processes -> Seq(Names \cup URLs)] /\ \A x \in Processes : x # p => todo'[x] = todo[x]
      BY <1>0, <1>1, <2>2 DEF Scan, TypeOK
  <2>4. pc' = [pc EXCEPT ![p] = "read"] /\ UNCHANGED <<dir, suffix, found, attempts, res, faults, crashes>>
      BY <1>1 DEF Scan, reportVars
  <2> QED BY <1>0, <2>3, <2>4
          DEF Own, TypeOK, Tasks, Importing, Creating, Pcs, Running, Documents, Origins, Tries
<1>2. CASE ReadFile(p)
  <2>1. pc[p] = "read" /\ todo[p] \in Seq(Names \cup URLs) /\ found[p] \in Seq(Documents)
      BY <1>0, <1>2 DEF ReadFile, TypeOK, Documents, Origins
  <2>2. todo' \in [Processes -> Seq(Names \cup URLs)] /\ \A x \in Processes : x # p => todo'[x] = todo[x]
    <3>1. todo[p] # <<>> => Tail(todo[p]) \in Seq(Names \cup URLs)
        BY <2>1
    <3>2. todo' = todo \/ (todo[p] # <<>> /\ todo' = [todo EXCEPT ![p] = Tail(todo[p])])
        BY <1>2 DEF ReadFile
    <3> QED BY <1>0, <3>1, <3>2 DEF TypeOK
  <2>3. found' \in [Processes -> Seq(Documents)]
    <3> DEFINE new == [name |-> Head(todo[p]), source |-> "local"]
    <3>1. Head(todo[p]) \in DOMAIN dir => new \in Documents
        BY <1>0 DEF TypeOK, Documents, Origins
    <3>2. Head(todo[p]) \in DOMAIN dir => Append(found[p], new) \in Seq(Documents)
        BY <2>1, <3>1
    <3>3. <<>> \in Seq(Documents)
        OBVIOUS
    <3>4. \/ found' = found \/ found' = [found EXCEPT ![p] = found[p]] \/ found' = [found EXCEPT ![p] = <<>>]
          \/ Head(todo[p]) \in DOMAIN dir /\ found' = [found EXCEPT ![p] = Append(found[p], new)]
        BY <1>2 DEF ReadFile, reportVars
    <3> HIDE DEF new
    <3> QED BY <1>0, <2>1, <3>2, <3>3, <3>4 DEF TypeOK, Documents, Origins
  <2>4. /\ pc' = [pc EXCEPT ![p] = pc'[p]] /\ pc'[p] \in {"read", "urls", "done"}
        /\ res' \in [Processes -> {"none", "asking", "ok", "error"}]
        /\ UNCHANGED <<dir, suffix, attempts, crashes>> /\ faults' \in {faults, faults + 1}
      BY <1>0, <1>2, <2>1 DEF ReadFile, Return, Fault, reportVars, TypeOK
  <2>5. faults' \in Nat
      BY <1>0, <2>4 DEF TypeOK
  <2> QED BY <1>0, <2>2, <2>3, <2>4, <2>5
          DEF Own, TypeOK, Tasks, Importing, Creating, Pcs, Running, Tries
<1>3. CASE ProjectURLs(p)
  <2>1. Unique(Mentioned[p]) \in Seq(URLs)
      BY UrlAssumption, UniqueType
  <2>2. Unique(Mentioned[p]) \in Seq(Names \cup URLs)
      BY <2>1, SeqWidens
  <2>3. \/ pc' = [pc EXCEPT ![p] = "done"] /\ todo' = todo
        \/ pc' = [pc EXCEPT ![p] = "download"] /\ todo' = [todo EXCEPT ![p] = Unique(Mentioned[p])]
      BY <1>3 DEF ProjectURLs, Return
  <2>4. /\ res' \in [Processes -> {"none", "asking", "ok", "error"}]
        /\ UNCHANGED <<dir, suffix, found, attempts, crashes, faults>>
      BY <1>0, <1>3 DEF ProjectURLs, Return, TypeOK
  <2> HIDE DEF Goto
  <2> QED BY <1>0, <2>1, <2>2, <2>3, <2>4
          DEF Own, TypeOK, Tasks, Importing, Creating, Pcs, Running, Documents, Origins, Tries
<1>4. ASSUME pc[p] \in Importing, todo[p] # <<>>, FailImport(p), UNCHANGED crashes, faults' \in Nat,
             DOMAIN dir' \in SUBSET Names /\ IsFiniteSet(DOMAIN dir') /\ dir' \in [DOMAIN dir' -> Files]
      PROVE  Own(p)
  <2>1. /\ pc'[p] \in {"download", "done"} /\ pc' = [pc EXCEPT ![p] = pc'[p]]
        /\ todo' \in [Processes -> Seq(Names \cup URLs)] /\ todo'[p] \in Seq(URLs)
        /\ suffix' \in [Processes -> Nat] /\ UNCHANGED found
        /\ attempts' \in [Processes -> Seq(Tries)]
        /\ res' \in [Processes -> {"none", "asking", "ok", "error"}]
        /\ \A x \in Processes : x # p => todo'[x] = todo[x]
      BY <1>4, FailTypes
  <2> QED BY <1>0, <1>4, <2>1
          DEF Own, TypeOK, Tasks, Importing, Creating, Pcs, Running, Documents, Origins
<1>5. faults \in Nat /\ (Fault => faults' \in Nat)
    BY <1>0 DEF TypeOK, Fault
<1>6. CASE Download(p)
  <2>1. pc[p] = "download" /\ pc[p] \in Importing /\ UNCHANGED <<dir, crashes>>
      BY <1>6 DEF Download, Importing
  <2>2. DOMAIN dir' \in SUBSET Names /\ IsFiniteSet(DOMAIN dir') /\ dir' \in [DOMAIN dir' -> Files]
      BY <1>0, <2>1 DEF TypeOK
  <2>3. CASE todo[p] # <<>> /\ Fault /\ FailImport(p)
      BY <1>4, <1>5, <2>1, <2>2, <2>3
  <2>4. CASE todo[p] # <<>> /\ Goto(p, "create") /\ Succeed /\ UNCHANGED <<fileVars, reportVars>>
      BY <1>0, <2>1, <2>2, <2>4
      DEF fileVars, reportVars, Own, TypeOK, Tasks, Importing, Creating, Pcs, Running, Documents, Origins, Tries
  <2>5. CASE /\ (Goto(p, "guru") /\ UNCHANGED res) \/ Return(p, "ok")
             /\ Succeed /\ UNCHANGED <<fileVars, found, attempts>>
    <3>1. /\ pc' = [pc EXCEPT ![p] = pc'[p]] /\ pc'[p] \in {"guru", "done"}
          /\ res' \in [Processes -> {"none", "asking", "ok", "error"}]
        BY <1>0, <2>5 DEF Return, TypeOK
    <3> QED BY <1>0, <2>1, <2>2, <2>5, <3>1
            DEF fileVars, Own, TypeOK, Tasks, Importing, Creating, Pcs, Running, Documents, Origins, Tries
  <2> QED BY <1>6, <2>3, <2>4, <2>5 DEF Download
<1>7. ASSUME pc[p] \in Creating
      PROVE  /\ Name(p) \in Names /\ Head(todo[p]) \in URLs /\ Rest(p) \in Seq(URLs)
             /\ \A w \in {"empty", "part", "whole"} : File(p, Head(todo[p]), w) \in Files
             /\ pc[p] \in Importing /\ todo[p] \in Seq(URLs) /\ todo[p] # <<>>
    BY <1>0, <1>7, NameType DEF Tasks, Creating, Importing
<1>8. CASE Create(p)
  <2>1. pc[p] = "create" /\ pc[p] \in Creating /\ UNCHANGED crashes
      BY <1>8 DEF Create, Creating
  <2>2. dir' \in {dir, With(Name(p), File(p, Head(todo[p]), "empty"))}
      BY <1>8 DEF Create
  <2>3. DOMAIN dir' \in SUBSET Names /\ IsFiniteSet(DOMAIN dir') /\ dir' \in [DOMAIN dir' -> Files]
      BY <1>0, <1>7, <2>1, <2>2, DirTypes
  <2>4. CASE Fault /\ FailImport(p)
      BY <1>4, <1>5, <1>7, <2>1, <2>3, <2>4
  <2>5. CASE Goto(p, "write") /\ Succeed /\ UNCHANGED <<fileVars, reportVars>>
      BY <1>0, <1>7, <2>1, <2>3, <2>5
      DEF fileVars, reportVars, Own, TypeOK, Tasks, Importing, Creating, Pcs, Running, Documents, Origins, Tries
  <2>6. CASE suffix' = [suffix EXCEPT ![p] = @ + 1] /\ Succeed /\ UNCHANGED <<dir, pc, todo, reportVars>>
    <3>1. suffix' \in [Processes -> Nat]
        BY <1>0, <2>6 DEF TypeOK
    <3> QED BY <1>0, <1>7, <2>1, <2>3, <2>6, <3>1
            DEF reportVars, Own, TypeOK, Tasks, Importing, Creating, Pcs, Running, Documents, Origins, Tries
  <2> QED BY <1>8, <2>4, <2>5, <2>6 DEF Create
<1>9. CASE Write(p)
  <2>1. pc[p] = "write" /\ pc[p] \in Creating /\ UNCHANGED crashes
      BY <1>9 DEF Write, Creating
  <2>2. \E w \in {"empty", "part", "whole"} : dir' \in {dir, With(Name(p), File(p, Head(todo[p]), w))}
      BY <1>9 DEF Write
  <2>3. DOMAIN dir' \in SUBSET Names /\ IsFiniteSet(DOMAIN dir') /\ dir' \in [DOMAIN dir' -> Files]
      BY <1>0, <1>7, <2>1, <2>2, DirTypes
  <2>4. CASE Succeed /\ UNCHANGED <<pc, fileVars, reportVars>>
      BY <1>0, <1>7, <2>1, <2>3, <2>4
      DEF fileVars, reportVars, Own, TypeOK, Tasks, Importing, Creating, Pcs, Running, Documents, Origins, Tries
  <2>5. CASE Fault /\ Goto(p, "remove") /\ UNCHANGED <<fileVars, reportVars>>
      BY <1>0, <1>5, <1>7, <2>1, <2>3, <2>5
      DEF fileVars, reportVars, Own, TypeOK, Tasks, Importing, Creating, Pcs, Running, Documents, Origins, Tries
  <2>6. CASE /\ found' = [found EXCEPT ![p] = Append(@, [name |-> Name(p), source |-> Head(todo[p])])]
             /\ Attempted(p, "pass") /\ Goto(p, "download") /\ Succeed /\ UNCHANGED res
    <3> DEFINE candidate == [name |-> Name(p), source |-> Head(todo[p])]
               attempt == [url |-> Head(todo[p]), status |-> "pass"]
    <3>1. candidate \in Documents /\ attempt \in Tries
        BY <1>7, <2>1 DEF Documents, Origins, Tries
    <3>2. found[p] \in Seq(Documents) /\ attempts[p] \in Seq(Tries)
        BY <1>0 DEF TypeOK, Documents, Origins, Tries
    <3>3. found' = [found EXCEPT ![p] = Append(found[p], candidate)]
        BY <2>6
    <3>4. attempts' = [attempts EXCEPT ![p] = Append(attempts[p], attempt)]
          /\ todo' = [todo EXCEPT ![p] = Rest(p)] /\ suffix' = [suffix EXCEPT ![p] = 1]
        BY <2>6 DEF Attempted
    <3> HIDE DEF candidate, attempt
    <3>5. Append(found[p], candidate) \in Seq(Documents) /\ Append(attempts[p], attempt) \in Seq(Tries)
        BY <3>1, <3>2
    <3>6. found' \in [Processes -> Seq(Documents)] /\ attempts' \in [Processes -> Seq(Tries)]
        BY <1>0, <3>3, <3>4, <3>5 DEF TypeOK, Documents, Origins, Tries
    <3>7. Rest(p) \in Seq(URLs) /\ Rest(p) \in Seq(Names \cup URLs)
        BY <1>7, <2>1, SeqWidens
    <3> QED BY <1>0, <2>1, <2>3, <2>6, <3>4, <3>6, <3>7
            DEF Own, TypeOK, Tasks, Importing, Creating, Pcs, Running
  <2> QED BY <1>9, <2>4, <2>5, <2>6 DEF Write
<1>10. CASE RemoveFile(p)
  <2>1. pc[p] = "remove" /\ pc[p] \in Creating /\ UNCHANGED crashes /\ FailImport(p)
      BY <1>10 DEF RemoveFile, Creating
  <2>2. dir' \in {dir, Without(Name(p))} /\ faults' \in Nat
      BY <1>5, <1>10 DEF RemoveFile
  <2>3. DOMAIN dir' \in SUBSET Names /\ IsFiniteSet(DOMAIN dir') /\ dir' \in [DOMAIN dir' -> Files]
      BY <1>0, <1>7, <2>1, <2>2, DirTypes
  <2> QED BY <1>4, <1>7, <2>1, <2>2, <2>3
<1>11. CASE AskGuru(p)
  <2>1. GuruMatch # None => <<GuruMatch>> \in Seq(URLs) /\ <<GuruMatch>> \in Seq(Names \cup URLs)
      BY UrlAssumption
  <2>2. /\ UNCHANGED <<dir, suffix, found, attempts, crashes>> /\ faults' \in Nat
        /\ res' \in [Processes -> {"none", "asking", "ok", "error"}]
      BY <1>0, <1>5, <1>11 DEF AskGuru, Return, TypeOK
  <2>3. \/ GuruMatch # None /\ pc' = [pc EXCEPT ![p] = "download"] /\ todo' = [todo EXCEPT ![p] = <<GuruMatch>>]
        \/ pc' = [pc EXCEPT ![p] = "done"] /\ UNCHANGED todo
      BY <1>11 DEF AskGuru, Return
  <2> HIDE DEF Goto
  <2> QED BY <1>0, <2>1, <2>2, <2>3
          DEF Own, TypeOK, Tasks, Importing, Creating, Pcs, Running, Documents, Origins, Tries
<1>12. CASE Crash(p)
  <2>1. pc' = [pc EXCEPT ![p] = "dead"] /\ UNCHANGED <<dir, todo, suffix, found, attempts, res, faults>>
        /\ crashes' = crashes + 1
      BY <1>12 DEF Crash, fileVars, reportVars
  <2>2. crashes' \in Nat
      BY <1>0, <2>1 DEF TypeOK
  <2>3. pc'[p] = "dead" /\ pc' = [pc EXCEPT ![p] = pc'[p]] /\ Tasks(p)'
      BY <1>0, <2>1 DEF TypeOK, Tasks, Importing, Creating
  <2> QED BY <1>0, <2>1, <2>2, <2>3 DEF Own, TypeOK, Pcs, Documents, Origins, Tries
<1> QED BY <1>1, <1>2, <1>3, <1>6, <1>8, <1>9, <1>10, <1>11, <1>12 DEF Step

\* Type correctness: every variable keeps its type.
LEMMA TypedCorrect == Spec => []Typed
<1>1. Init => Typed
  <2> SUFFICES ASSUME Init PROVE Typed
      OBVIOUS
  <2>1. dir = <<>> /\ DOMAIN dir = {} /\ IsFiniteSet({})
      BY FS_EmptySet DEF Init
  <2> QED BY <2>1 DEF Init, Typed, TypeOK, Tasks, Running, Importing, Creating
<1>2. Typed /\ [Next]_vars => Typed'
  <2> SUFFICES ASSUME Typed, [Next]_vars PROVE Typed'
      OBVIOUS
  <2>1. ASSUME NEW p \in Processes, Step(p) \/ Crash(p) PROVE Typed'
    <3>1. Own(p)
        BY <2>1, OwnTypes
    <3>2. \A x \in Processes : x # p => Tasks(x)'
        BY <3>1 DEF Own, Typed, TypeOK, Tasks
    <3>3. pc' \in [Processes -> Pcs]
        BY <3>1 DEF Own, Typed, TypeOK, Pcs
    <3> HIDE DEF Pcs
    <3> QED BY <3>1, <3>2, <3>3 DEF Own, Typed, TypeOK, Documents, Origins, Tries, Pcs
  <2>2. CASE UNCHANGED vars
      BY <2>2 DEF vars, fileVars, reportVars, Typed, TypeOK, Tasks
  <2> QED BY <2>1, <2>2 DEF Next
<1> QED BY <1>1, <1>2, PTL DEF Spec

THEOREM TypeCorrect == Spec => []TypeOK
<1>1. Typed => TypeOK
    BY DEF Typed
<1> QED BY <1>1, TypedCorrect, PTL

----------------------------------------------------------------------------
(***************************************************************************)
(* What a step leaves alone.                                               *)
(***************************************************************************)
Frame(p) ==
    \A x \in Processes : x # p =>
        /\ pc'[x] = pc[x] /\ todo'[x] = todo[x] /\ suffix'[x] = suffix[x]
        /\ found'[x] = found[x] /\ attempts'[x] = attempts[x] /\ res'[x] = res[x]

LEMMA StepFrame ==
    ASSUME TypeOK, NEW p \in Processes, Step(p) \/ Crash(p) PROVE Frame(p) /\ faults' >= faults
<1> USE DEF TypeOK, Frame, Goto, Return, Succeed, Fault, fileVars, reportVars
<1>1. CASE Scan(p)
    BY <1>1 DEF Scan
<1>2. CASE ReadFile(p)
    BY <1>2 DEF ReadFile
<1>3. CASE ProjectURLs(p)
    BY <1>3 DEF ProjectURLs
<1>4. CASE Download(p)
    BY <1>4 DEF Download, FailImport, Attempted
<1>5. CASE Create(p)
    BY <1>5 DEF Create, FailImport, Attempted
<1>6. CASE Write(p)
    BY <1>6 DEF Write, FailImport, Attempted
<1>7. CASE RemoveFile(p)
    BY <1>7 DEF RemoveFile, FailImport, Attempted
<1>8. CASE AskGuru(p)
    BY <1>8 DEF AskGuru
<1>9. CASE Crash(p)
    BY <1>9 DEF Crash
<1> QED BY <1>1, <1>2, <1>3, <1>4, <1>5, <1>6, <1>7, <1>8, <1>9 DEF Step

(***************************************************************************)
(* Files.  A file belongs to the one that made it, who is at it as long as *)
(* it is not whole: nobody else may write or remove it.                    *)
(***************************************************************************)
Holds(p, n) == pc[p] \in {"write", "remove"} /\ Name(p) = n
Owned(p) ==
    pc[p] \in {"write", "remove"} =>
        /\ Name(p) \in DOMAIN dir
        /\ dir[Name(p)] \in {File(p, Head(todo[p]), "empty"), File(p, Head(todo[p]), "part")}
Traced ==
    \A n \in DOMAIN dir :
        dir[n].written = "whole" \/ pc[dir[n].writer] = "dead" \/ faults >= 2 \/ Holds(dir[n].writer, n)
Failing(p) == pc[p] = "remove" => faults >= 1
FilesCorrect ==
    /\ ImportsSurvive /\ Traced
    /\ \A p \in Processes : Owned(p) /\ Failing(p)

Writing == {"write", "remove"}

\* A process takes free names and changes only the file it is writing.
LEMMA OnlyOwnFiles ==
    ASSUME TypeOK, NEW p \in Processes, Owned(p), Step(p) \/ Crash(p)
    PROVE  /\ \A n \in DOMAIN dir : dir[n].writer # p \/ dir[n].written = "whole" =>
                                       n \in DOMAIN dir' /\ dir'[n] = dir[n]
           /\ \A n \in DOMAIN dir' : (n \in DOMAIN dir /\ dir'[n] = dir[n])
                                       \/ (n = Name(p) /\ dir'[n].writer = p)
<1>1. CASE UNCHANGED dir
    BY <1>1
<1>2. CASE Create(p) /\ dir' # dir
  <2>1. Name(p) \notin DOMAIN dir /\ dir' = With(Name(p), File(p, Head(todo[p]), "empty"))
      BY <1>2 DEF Create
  <2> HIDE DEF Name
  <2> QED BY <2>1 DEF With, File
<1>3. CASE Write(p) /\ dir' # dir
  <2>1. pc[p] = "write" /\ \E w \in {"part", "whole"} : dir' = With(Name(p), File(p, Head(todo[p]), w))
      BY <1>3 DEF Write
  <2>2. Name(p) \in DOMAIN dir /\ dir[Name(p)].writer = p /\ dir[Name(p)].written # "whole"
      BY <2>1 DEF Owned, File
  <2> HIDE DEF Name
  <2> QED BY <2>1, <2>2 DEF With, File
<1>4. CASE RemoveFile(p) /\ dir' # dir
  <2>1. pc[p] = "remove" /\ dir' = Without(Name(p))
      BY <1>4 DEF RemoveFile
  <2>2. Name(p) \in DOMAIN dir /\ dir[Name(p)].writer = p /\ dir[Name(p)].written # "whole"
      BY <2>1 DEF Owned, File
  <2> HIDE DEF Name
  <2> QED BY <2>1, <2>2 DEF Without
<1>5. CASE Scan(p) \/ ReadFile(p) \/ ProjectURLs(p) \/ Download(p) \/ AskGuru(p) \/ Crash(p)
    BY <1>1, <1>5 DEF Scan, ReadFile, ProjectURLs, Download, AskGuru, Crash
<1> QED BY <1>1, <1>2, <1>3, <1>4, <1>5 DEF Step

\* A process at a file keeps it until it is whole or given up.
LEMMA OwnedStep ==
    ASSUME Typed, NEW p \in Processes, Owned(p), Failing(p), Step(p) \/ Crash(p)
    PROVE  Owned(p)' /\ Failing(p)'
<1> USE DEF Goto, Succeed
<1>0. TypeOK
    BY DEF Typed
<1>1. CASE pc'[p] \notin Writing
    BY <1>1 DEF Owned, Failing, Writing
<1>2. CASE Create(p) /\ pc'[p] \in Writing
  <2>1. /\ dir' = With(Name(p), File(p, Head(todo[p]), "empty")) /\ pc'[p] = "write"
        /\ UNCHANGED <<todo, suffix>>
      BY <1>0, <1>2 DEF Create, FailImport, Return, TypeOK, Writing, fileVars
  <2>2. Name(p)' = Name(p)
      BY <2>1 DEF Name
  <2> HIDE DEF Name
  <2> QED BY <2>1, <2>2 DEF Owned, Failing, With
<1>3. CASE Write(p) /\ pc'[p] \in Writing
  <2>1. /\ pc[p] = "write" /\ UNCHANGED <<todo, suffix>>
        /\ \/ dir' = With(Name(p), File(p, Head(todo[p]), "part")) /\ pc' = pc
           \/ dir' = dir /\ pc'[p] = "remove" /\ Fault
      BY <1>0, <1>3 DEF Write, TypeOK, Writing, fileVars
  <2>2. Name(p)' = Name(p)
      BY <2>1 DEF Name
  <2>3. Fault => faults' >= 1
      BY <1>0 DEF Fault, TypeOK
  <2> HIDE DEF Name, Fault
  <2> QED BY <2>1, <2>2, <2>3 DEF Owned, Failing, With
<1>4. pc'[p] \in Writing => Create(p) \/ Write(p)
    BY <1>0 DEF Step, Scan, ReadFile, ProjectURLs, Download, RemoveFile, AskGuru, Crash,
                FailImport, Return, TypeOK, Writing
<1> QED BY <1>1, <1>2, <1>3, <1>4

LEMMA TracedStep ==
    ASSUME Typed, Traced, NEW p \in Processes, Owned(p), Failing(p), Step(p) \/ Crash(p)
    PROVE  Traced'
<1> USE DEF Goto, Succeed
<1>0. TypeOK /\ Frame(p) /\ faults' >= faults /\ faults \in Nat /\ faults' \in Nat
    BY StepFrame, OwnTypes DEF Typed, TypeOK, Own
<1> DEFINE StillHolds(w, n) == pc'[w] \in {"write", "remove"} /\ <<Stem[Head(todo'[w])], suffix'[w]>> = n
<1> SUFFICES ASSUME NEW n \in DOMAIN dir'
             PROVE  dir'[n].written = "whole" \/ pc'[dir'[n].writer] = "dead" \/ faults' >= 2
                        \/ StillHolds(dir'[n].writer, n)
    BY DEF Traced, Holds, Name
<1>1. CASE n \in DOMAIN dir /\ dir'[n] = dir[n] /\ dir[n].writer # p
  <2>1. dir[n].writer \in Processes
      BY <1>0, <1>1 DEF TypeOK, Files
  <2>2. dir[n].written = "whole" \/ pc[dir[n].writer] = "dead" \/ faults >= 2 \/ Holds(dir[n].writer, n)
      BY <1>1 DEF Traced
  <2> QED BY <1>0, <1>1, <2>1, <2>2 DEF Frame, Holds, Name
<1>2. CASE n \in DOMAIN dir /\ dir'[n] = dir[n] /\ dir[n].writer = p
  <2>1. dir[n].written = "whole" \/ pc[p] = "dead" \/ faults >= 2 \/ Holds(p, n)
      BY <1>2 DEF Traced
  <2>2. CASE Holds(p, n)
    <3>1. pc[p] \in {"write", "remove"} /\ Name(p) = n
        BY <2>2 DEF Holds
    <3>2. CASE Write(p)
      <4>1. \/ UNCHANGED <<todo, suffix>> /\ pc'[p] \in {"write", "remove"}
            \/ dir' = With(Name(p), File(p, Head(todo[p]), "whole"))
          BY <1>0, <3>2 DEF Write, fileVars, TypeOK
      <4>2. dir' = With(Name(p), File(p, Head(todo[p]), "whole")) => dir'[n].written = "whole"
          BY <3>1 DEF With, File
      <4> QED BY <1>2, <3>1, <4>1, <4>2 DEF Holds, Name
    <3>3. CASE RemoveFile(p)
      <4>1. dir' = Without(Name(p)) \/ Fault
          BY <3>3 DEF RemoveFile
      <4>2. dir' # Without(Name(p))
          BY <3>1 DEF Without
      <4>3. faults >= 1
          BY <3>3 DEF RemoveFile, Failing
      <4> QED BY <1>0, <4>1, <4>2, <4>3 DEF Fault
    <3>4. CASE Crash(p)
        BY <1>0, <1>2, <3>4 DEF Crash, TypeOK
    <3>5. Write(p) \/ RemoveFile(p) \/ Crash(p)
        BY <3>1 DEF Step, Scan, ReadFile, ProjectURLs, Download, Create, AskGuru
    <3> QED BY <3>2, <3>3, <3>4, <3>5
  <2>3. CASE pc[p] = "dead"
      BY <2>3 DEF Step, Scan, ReadFile, ProjectURLs, Download, Create, Write, RemoveFile, AskGuru, Crash, Running
  <2> QED BY <1>0, <1>2, <2>1, <2>2, <2>3
<1>3. CASE ~(n \in DOMAIN dir /\ dir'[n] = dir[n])
  <2>1. n = Name(p) /\ dir'[n].writer = p
      BY <1>0, <1>3, OnlyOwnFiles
  <2>2. CASE Create(p)
    <3>1. dir' = dir \/ (pc'[p] = "write" /\ UNCHANGED <<todo, suffix>>)
        BY <1>0, <2>2 DEF Create, fileVars, TypeOK
    <3> QED BY <1>3, <2>1, <3>1 DEF Holds, Name
  <2>3. CASE Write(p)
    <3>1. \/ dir' = dir
          \/ pc'[p] = "write" /\ UNCHANGED <<todo, suffix>>
          \/ dir' = With(Name(p), File(p, Head(todo[p]), "whole"))
        BY <1>0, <2>3 DEF Write, fileVars, TypeOK
    <3>2. dir' = With(Name(p), File(p, Head(todo[p]), "whole")) => dir'[n].written = "whole"
        BY <2>1 DEF With, File
    <3> QED BY <1>3, <2>1, <3>1, <3>2 DEF Holds, Name
  <2>4. CASE RemoveFile(p)
      BY <1>3, <2>4 DEF RemoveFile, Without
  <2>5. CASE UNCHANGED dir
      BY <1>3, <2>5
  <2> QED BY <2>2, <2>3, <2>4, <2>5 DEF Step, Scan, ReadFile, ProjectURLs, Download, AskGuru, Crash
<1> QED BY <1>1, <1>2, <1>3

LEMMA SurvivalStep ==
    ASSUME Typed, ImportsSurvive, NEW p \in Processes, Owned(p), Step(p) \/ Crash(p)
    PROVE  ImportsSurvive'
<1> USE DEF Goto, Succeed
<1>0. TypeOK /\ Frame(p)
    BY StepFrame DEF Typed
<1> DEFINE Safe(c, w) == c.name \in DOMAIN dir /\ dir[c.name] = File(w, c.source, "whole")
\* An import that was safe stays safe.
<1>1. ASSUME NEW c, NEW w \in Processes, Safe(c, w)
      PROVE  c.name \in DOMAIN dir' /\ dir'[c.name] = File(w, c.source, "whole")
  <2>1. dir[c.name].written = "whole"
      BY <1>1 DEF File
  <2> QED BY <1>0, <1>1, <2>1, OnlyOwnFiles
<1>2. ASSUME NEW w \in Processes, NEW i \in Imported(w)
      PROVE  Safe(found[w][i], w)
    BY DEF ImportsSurvive
<1> SUFFICES ASSUME NEW w \in Processes, NEW i \in DOMAIN found'[w], found'[w][i].source # "local"
             PROVE  found'[w][i].name \in DOMAIN dir' /\ dir'[found'[w][i].name] = File(w, found'[w][i].source, "whole")
    BY DEF ImportsSurvive, Imported, File
<1>3. CASE i \in DOMAIN found[w] /\ found'[w][i] = found[w][i]
  <2>1. i \in Imported(w)
      BY <1>3 DEF Imported
  <2> HIDE DEF Safe
  <2>2. Safe(found[w][i], w)
      BY <1>2, <2>1
  <2> QED BY <1>1, <1>3, <2>2
<1>4. CASE ~(i \in DOMAIN found[w] /\ found'[w][i] = found[w][i])
  <2>1. w = p
      BY <1>0, <1>4 DEF Frame
  <2>2. found[p] \in Seq(Documents)
      BY <1>0 DEF TypeOK, Documents, Origins
  <2>3. CASE ReadFile(p)
    <3> DEFINE c == [name |-> Head(todo[p]), source |-> "local"]
    <3>1. found'[p] \in {found[p], <<>>, Append(found[p], c)}
        BY <1>0, <2>3 DEF ReadFile, TypeOK, reportVars
    <3>2. c.source = "local"
        OBVIOUS
    <3> HIDE DEF c
    <3> QED BY <1>4, <2>1, <2>2, <3>1, <3>2
  <2>4. CASE Write(p)
    <3> DEFINE c == [name |-> Name(p), source |-> Head(todo[p])]
    <3>1. \/ found'[p] = found[p]
          \/ found'[p] = Append(found[p], c) /\ dir' = With(Name(p), File(p, Head(todo[p]), "whole"))
        BY <1>0, <2>4 DEF Write, TypeOK, reportVars
    <3>2. found'[p] = Append(found[p], c) /\ dir' = With(Name(p), File(p, Head(todo[p]), "whole"))
        BY <1>4, <2>1, <3>1
    <3>3. c.name \in DOMAIN dir' /\ dir'[c.name] = File(p, c.source, "whole")
        BY <3>2 DEF With
    <3> HIDE DEF c
    <3>4. found'[w][i] = c
        BY <1>4, <2>1, <2>2, <3>2
    <3> QED BY <2>1, <3>3, <3>4
  <2>5. CASE UNCHANGED found
      BY <1>4, <2>5
  <2> QED BY <2>3, <2>4, <2>5 DEF Step, Scan, ProjectURLs, Download, Create, RemoveFile, AskGuru, Crash,
                                  FailImport, reportVars
<1> QED BY <1>3, <1>4

\* The files are correct in every state.
LEMMA FilesAlways == Spec => []FilesCorrect
<1>1. Init => FilesCorrect
    BY DEF Init, FilesCorrect, ImportsSurvive, Imported, Traced, Owned, Failing
<1>2. Typed /\ FilesCorrect /\ [Next]_vars => FilesCorrect'
  <2> SUFFICES ASSUME Typed, FilesCorrect, [Next]_vars PROVE FilesCorrect'
      OBVIOUS
  <2>1. ASSUME NEW p \in Processes, Step(p) \/ Crash(p) PROVE FilesCorrect'
    <3>1. Owned(p) /\ Failing(p) /\ ImportsSurvive /\ Traced /\ TypeOK
        BY DEF FilesCorrect, Typed
    <3>2. ImportsSurvive' /\ Traced' /\ Owned(p)' /\ Failing(p)'
        BY <2>1, <3>1, SurvivalStep, TracedStep, OwnedStep
    <3>3. ASSUME NEW x \in Processes, x # p PROVE Owned(x)' /\ Failing(x)'
      <4>1. Owned(x) /\ Failing(x) /\ Frame(p) /\ faults' >= faults
          BY <2>1, <3>1, StepFrame DEF FilesCorrect
      <4>2. pc'[x] = pc[x] /\ todo'[x] = todo[x] /\ Name(x)' = Name(x)
          BY <3>3, <4>1 DEF Frame, Name
      <4>3. faults \in Nat /\ faults' \in Nat
          BY <2>1, <3>1, OwnTypes DEF Own, TypeOK
      <4>4. Failing(x)'
          BY <4>1, <4>2, <4>3 DEF Failing
      <4>5. ASSUME pc[x] \in {"write", "remove"}
            PROVE  Name(x) \in DOMAIN dir' /\ dir'[Name(x)] = dir[Name(x)]
        <5>1. Name(x) \in DOMAIN dir /\ dir[Name(x)].writer = x
            BY <4>1, <4>5 DEF Owned, File
        <5> HIDE DEF Name
        <5> QED BY <2>1, <3>1, <3>3, <5>1, OnlyOwnFiles
      <4> HIDE DEF Name
      <4> QED BY <4>1, <4>2, <4>4, <4>5 DEF Owned, File
    <3> QED BY <3>2, <3>3 DEF FilesCorrect
  <2>2. CASE UNCHANGED vars
    <3>1. UNCHANGED <<dir, pc, todo, suffix, found, faults>>
        BY <2>2 DEF vars, fileVars, reportVars
    <3> QED BY <3>1 DEF FilesCorrect, ImportsSurvive, Imported, Traced, Holds, Owned, Failing, Name, File
  <2> QED BY <2>1, <2>2 DEF Next
<1> QED BY <1>1, <1>2, TypedCorrect, PTL DEF Spec

\* An import that was reported stays whole, however many discoveries race for
\* its name, and whoever fails or dies.
THEOREM ImportsCorrect == Spec => []ImportsSurvive
<1>1. FilesCorrect => ImportsSurvive
    BY DEF FilesCorrect
<1> QED BY <1>1, FilesAlways, PTL

\* Once nobody runs, only crashes and double faults have left files that are not whole.
THEOREM LitterCorrect == Spec => []OnlyCrashesLitter
<1>1. Typed /\ FilesCorrect => OnlyCrashesLitter
  <2> SUFFICES ASSUME Typed, FilesCorrect, \A p \in Processes : pc[p] \notin Running, NEW n \in DOMAIN dir
               PROVE  dir[n].written = "whole" \/ pc[dir[n].writer] = "dead" \/ faults >= 2
      BY DEF OnlyCrashesLitter
  <2>1. dir[n].writer \in Processes
      BY DEF Typed, TypeOK, Files
  <2> QED BY <2>1 DEF FilesCorrect, Traced, Holds, Running
<1> QED BY <1>1, FilesAlways, TypedCorrect, PTL

(***************************************************************************)
(* Reports.  The URLs are tried in turn, the best match of APIs.guru last  *)
(* and only when there is no candidate.                                    *)
(***************************************************************************)
Wanted(p) == Unique(Mentioned[p])
Passed(p) == {i \in DOMAIN attempts[p] : attempts[p][i].status = "pass"}
Covered(p) ==
    /\ Len(Wanted(p)) <= Len(attempts[p])
    /\ \A i \in 1..Len(Wanted(p)) : attempts[p][i].url = Wanted(p)[i]
InTurn(p) ==
    /\ Len(Wanted(p)) = Len(attempts[p]) + Len(todo[p])
    /\ \A i \in 1..Len(Wanted(p)) :
           IF i <= Len(attempts[p]) THEN attempts[p][i].url = Wanted(p)[i]
                                    ELSE todo[p][i - Len(attempts[p])] = Wanted(p)[i]
Tried(p) ==
    /\ pc[p] \in {"scan", "read", "urls"} => attempts[p] = <<>> /\ res[p] = "none"
    /\ pc[p] \in Importing /\ ~Asking(p) => InTurn(p) /\ res[p] = "none"
    /\ pc[p] = "guru" => todo[p] = <<>> /\ ~Asking(p)
    /\ Asking(p) => /\ Covered(p) /\ pc[p] \in {"download", "create", "write", "remove", "dead"}
                    /\ pc[p] = "download" /\ todo[p] = <<>> => found[p] # <<>>
    /\ res[p] = "ok" => found[p] # <<>> /\ Covered(p)
Counted(p) == Cardinality(Imported(p)) = Cardinality(Passed(p))
ReportsCorrect == \A p \in Processes : Tried(p) /\ Counted(p)

LEMMA WantedType == ASSUME NEW p \in Processes PROVE Wanted(p) \in Seq(URLs) /\ Len(Wanted(p)) \in Nat
<1>1. Mentioned[p] \in Seq(URLs)
    BY UrlAssumption
<1>2. Wanted(p) \in Seq(URLs)
    BY <1>1, UniqueType DEF Wanted
<1> QED BY <1>2

\* An attempt is one more, at the URL that was next.
LEMMA Advance ==
    ASSUME Typed, NEW p \in Processes, pc[p] \in Importing, todo[p] # <<>>,
           NEW status \in {"pass", "fail"}, Attempted(p, status)
    PROVE  /\ InTurn(p) => InTurn(p)'
           /\ Covered(p) => Covered(p)'
           /\ attempts'[p] = Append(attempts[p], [url |-> Head(todo[p]), status |-> status])
<1> DEFINE attempt == [url |-> Head(todo[p]), status |-> status]
           n == Len(attempts[p])
           m == Len(todo[p])
<1>1. todo[p] \in Seq(URLs) /\ attempts[p] \in Seq(Tries)
    BY DEF Typed, TypeOK, Tasks, Tries
<1>2. Head(todo[p]) \in URLs /\ Head(todo[p]) = todo[p][1]
    BY <1>1
<1>3. attempt \in Tries /\ attempt.url = Head(todo[p])
    BY <1>2 DEF Tries
<1>4. todo'[p] = Tail(todo[p])
    BY DEF Attempted, Rest, Typed, TypeOK
<1>5. attempts'[p] = Append(attempts[p], attempt)
    BY DEF Attempted, Typed, TypeOK
<1>6. /\ n \in Nat /\ m \in Nat /\ m # 0
      /\ Len(todo'[p]) = m - 1 /\ \A i \in 1..(m - 1) : todo'[p][i] = todo[p][i + 1]
    BY <1>1, <1>4
<1> HIDE DEF attempt
<1>7. /\ Len(attempts'[p]) = n + 1 /\ \A i \in 1..n : attempts'[p][i] = attempts[p][i]
      /\ attempts'[p][n + 1] = attempt
    BY <1>1, <1>3, <1>5
<1>8. Len(Wanted(p)) \in Nat /\ Wanted(p)' = Wanted(p)
    BY WantedType DEF Wanted
<1> DEFINE W == Wanted(p)
<1>9. ASSUME InTurn(p) PROVE InTurn(p)'
  <2>1. /\ Len(W) = n + m
        /\ \A i \in 1..Len(W) : IF i <= n THEN attempts[p][i].url = W[i] ELSE todo[p][i - n] = W[i]
      BY <1>9 DEF InTurn
  <2> HIDE DEF W, n, m
  <2>2. Len(W) = Len(attempts'[p]) + Len(todo'[p])
      BY <1>6, <1>7, <2>1
  <2>3. ASSUME NEW i \in 1..Len(W)
        PROVE  IF i <= n + 1 THEN attempts'[p][i].url = W[i] ELSE todo'[p][i - (n + 1)] = W[i]
    <3>1. CASE i <= n
      <4>1. attempts[p][i].url = W[i]
          BY <2>1, <3>1
      <4>2. i \in 1..n /\ i <= n + 1
          BY <1>6, <2>1, <3>1
      <4> QED BY <1>7, <4>1, <4>2
    <3>2. CASE i = n + 1
      <4>1. ~(i <= n) /\ i - n = 1 /\ i <= n + 1
          BY <1>6, <3>2
      <4>2. todo[p][1] = W[i]
          BY <2>1, <4>1
      <4> QED BY <1>2, <1>3, <1>7, <3>2, <4>1, <4>2
    <3>3. CASE i > n + 1
      <4>1. n \in Nat /\ m \in Nat /\ i \in Nat /\ i <= n + m
          BY <1>6, <2>1
      <4>2. ~(i <= n) /\ ~(i <= n + 1) /\ i - (n + 1) \in 1..(m - 1) /\ (i - (n + 1)) + 1 = i - n
          BY <3>3, <4>1
      <4>3. todo[p][i - n] = W[i]
          BY <2>1, <4>2
      <4> QED BY <1>6, <4>2, <4>3
    <3>4. i \in Nat
        BY <1>6, <2>1
    <3> QED BY <1>6, <3>1, <3>2, <3>3, <3>4
  <2> QED BY <1>7, <1>8, <2>2, <2>3 DEF InTurn, W, n
<1>10. ASSUME Covered(p) PROVE Covered(p)'
  <2>1. Len(W) <= n /\ \A i \in 1..Len(W) : attempts[p][i].url = W[i]
      BY <1>10 DEF Covered
  <2> HIDE DEF W, n, m
  <2>2. \A i \in 1..Len(W) : i \in 1..n
      BY <1>6, <1>8, <2>1 DEF W
  <2>3. Len(W) <= n + 1
      BY <1>6, <1>8, <2>1 DEF W
  <2>4. \A i \in 1..Len(W) : attempts'[p][i].url = W[i]
      BY <1>7, <2>1, <2>2
  <2> QED BY <1>7, <1>8, <2>3, <2>4 DEF Covered, W
<1> QED BY <1>5, <1>9, <1>10 DEF attempt

\* Nothing is left to do: every URL was tried.
LEMMA AllTried ==
    ASSUME Typed, NEW p \in Processes, InTurn(p), todo[p] = <<>>
    PROVE  Covered(p)
<1>1. Len(Wanted(p)) \in Nat /\ Len(attempts[p]) \in Nat /\ Len(todo[p]) = 0
    BY WantedType DEF Typed, TypeOK
<1>2. Len(Wanted(p)) = Len(attempts[p])
    BY <1>1 DEF InTurn
<1>3. \A i \in 1..Len(Wanted(p)) : i <= Len(attempts[p])
    BY <1>1, <1>2
<1> QED BY <1>1, <1>2, <1>3 DEF InTurn, Covered

LEMMA TriedStep ==
    ASSUME Typed, NEW p \in Processes, Tried(p), Step(p) \/ Crash(p)
    PROVE  Tried(p)'
<1> USE DEF Goto, Succeed
<1>0. TypeOK /\ Wanted(p)' = Wanted(p)
    BY DEF Typed, Wanted
\* A failing import.
<1>1. ASSUME pc[p] \in Importing, pc[p] # "guru", todo[p] # <<>>, FailImport(p) PROVE Tried(p)'
  <2>1. (InTurn(p) => InTurn(p)') /\ (Covered(p) => Covered(p)')
      BY <1>1, Advance DEF FailImport
  <2>2. \/ Asking(p) /\ pc'[p] = "done" /\ res'[p] = "error"
        \/ ~Asking(p) /\ pc'[p] = "download" /\ res'[p] = res[p]
      BY <1>0, <1>1 DEF FailImport, Return, TypeOK
  <2> HIDE DEF Goto
  <2>3. CASE Asking(p) /\ pc'[p] = "done" /\ res'[p] = "error"
      BY <2>3 DEF Tried, Asking, Importing
  <2>4. CASE ~Asking(p) /\ pc'[p] = "download" /\ res'[p] = res[p]
    <3>1. InTurn(p)' /\ res'[p] = "none"
        BY <1>1, <2>1, <2>4 DEF Tried
    <3> QED BY <2>4, <3>1 DEF Tried, Asking, Importing
  <2> QED BY <2>2, <2>3, <2>4
<1>2. CASE Scan(p)
  <2>1. pc[p] = "scan" /\ pc'[p] = "read" /\ attempts'[p] = attempts[p] /\ res'[p] = res[p]
      BY <1>0, <1>2 DEF Scan, reportVars, TypeOK
  <2> QED BY <2>1 DEF Tried, Asking, Importing
<1>3. CASE ReadFile(p)
  <2>1. /\ pc[p] = "read" /\ attempts'[p] = attempts[p]
        /\ \/ pc'[p] \in {"read", "urls"} /\ res'[p] = res[p]
           \/ pc'[p] = "done" /\ res'[p] = "error"
      BY <1>0, <1>3 DEF ReadFile, Return, reportVars, TypeOK
  <2> QED BY <2>1 DEF Tried, Asking, Importing
<1>4. CASE ProjectURLs(p)
  <2>1. /\ pc[p] = "urls" /\ attempts'[p] = attempts[p]
        /\ \/ pc'[p] = "download" /\ res'[p] = res[p] /\ todo'[p] = Wanted(p)
           \/ pc'[p] = "done" /\ res'[p] = "error"
      BY <1>0, <1>4 DEF ProjectURLs, Return, TypeOK, Wanted
  <2>2. attempts[p] = <<>> /\ res[p] = "none"
      BY <2>1 DEF Tried
  <2>3. CASE pc'[p] = "done" /\ res'[p] = "error"
      BY <2>3 DEF Tried, Asking, Importing
  <2>4. CASE pc'[p] = "download" /\ res'[p] = res[p] /\ todo'[p] = Wanted(p)
    <3>1. Len(attempts'[p]) = 0 /\ Len(Wanted(p)) \in Nat
        BY <2>1, <2>2, WantedType
    <3>2. Len(Wanted(p)) = Len(attempts'[p]) + Len(todo'[p])
        BY <2>4, <3>1
    <3>3. \A i \in 1..Len(Wanted(p)) : ~(i <= Len(attempts'[p])) /\ i - Len(attempts'[p]) = i
        BY <3>1
    <3>4. InTurn(p)'
        BY <1>0, <2>4, <3>2, <3>3 DEF InTurn
    <3> QED BY <2>2, <2>4, <3>4 DEF Tried, Asking, Importing
  <2> QED BY <2>1, <2>3, <2>4
<1>5. CASE Download(p)
  <2>1. pc[p] = "download" /\ pc[p] \in Importing /\ pc[p] # "guru"
      BY <1>5 DEF Download, Importing
  <2>2. CASE todo[p] # <<>> /\ FailImport(p)
      BY <1>1, <2>1, <2>2
  <2>3. CASE todo[p] # <<>> /\ Goto(p, "create") /\ UNCHANGED <<fileVars, reportVars>>
    <3>1. /\ pc'[p] = "create" /\ todo'[p] = todo[p] /\ found'[p] = found[p]
          /\ attempts'[p] = attempts[p] /\ res'[p] = res[p]
        BY <1>0, <2>3 DEF fileVars, reportVars, TypeOK
    <3> QED BY <1>0, <2>1, <3>1 DEF Tried, Asking, Importing, InTurn, Covered
  <2>4. CASE /\ todo[p] = <<>> /\ UNCHANGED <<fileVars, found, attempts>>
             /\ IF found[p] = <<>> /\ ~Asking(p)
                THEN Goto(p, "guru") /\ UNCHANGED res ELSE Return(p, "ok")
    <3>1. todo'[p] = todo[p] /\ found'[p] = found[p] /\ attempts'[p] = attempts[p]
        BY <2>4 DEF fileVars
    <3>2. ~Asking(p) => Covered(p) /\ InTurn(p)
        BY <2>1, <2>4, AllTried DEF Tried
    <3>3. Asking(p) => Covered(p) /\ found[p] # <<>>
        BY <2>1, <2>4 DEF Tried
    <3>4. CASE found[p] = <<>> /\ ~Asking(p) /\ pc'[p] = "guru" /\ res'[p] = res[p]
        BY <1>0, <2>1, <2>4, <3>1, <3>2, <3>4 DEF Tried, Asking, Importing, InTurn, Covered
    <3>5. CASE ~(found[p] = <<>> /\ ~Asking(p)) /\ pc'[p] = "done" /\ res'[p] = "ok"
        BY <1>0, <3>1, <3>2, <3>3, <3>5 DEF Tried, Asking, Importing, Covered
    <3> QED BY <1>0, <2>4, <3>4, <3>5 DEF Return, TypeOK
  <2> QED BY <1>5, <2>2, <2>3, <2>4 DEF Download
<1>6. ASSUME pc[p] \in Creating PROVE pc[p] \in Importing /\ pc[p] # "guru" /\ todo[p] # <<>>
    BY <1>6 DEF Creating, Importing, Typed, Tasks
<1>7. CASE Create(p)
  <2>1. pc[p] = "create" /\ pc[p] \in Creating
      BY <1>7 DEF Create, Creating
  <2>2. CASE FailImport(p)
      BY <1>1, <1>6, <2>1, <2>2
  <2>3. CASE /\ pc'[p] \in {"create", "write"} /\ todo'[p] = todo[p] /\ found'[p] = found[p]
             /\ attempts'[p] = attempts[p] /\ res'[p] = res[p]
      BY <1>0, <2>1, <2>3 DEF Tried, Asking, Importing, InTurn, Covered
  <2> QED BY <1>0, <1>7, <2>2, <2>3 DEF Create, fileVars, reportVars, TypeOK
<1>8. CASE Write(p)
  <2>1. pc[p] = "write" /\ pc[p] \in Creating /\ pc[p] \in Importing /\ todo[p] # <<>>
      BY <1>6, <1>8 DEF Write, Creating
  <2>2. CASE /\ pc'[p] \in {"write", "remove"} /\ todo'[p] = todo[p] /\ found'[p] = found[p]
             /\ attempts'[p] = attempts[p] /\ res'[p] = res[p]
      BY <1>0, <2>1, <2>2 DEF Tried, Asking, Importing, InTurn, Covered
  <2>3. CASE /\ found' = [found EXCEPT ![p] = Append(@, [name |-> Name(p), source |-> Head(todo[p])])]
             /\ Attempted(p, "pass") /\ pc'[p] = "download" /\ res'[p] = res[p]
    <3>1. (InTurn(p) => InTurn(p)') /\ (Covered(p) => Covered(p)')
        BY <2>1, <2>3, Advance
    <3>2. found'[p] # <<>>
      <4> DEFINE c == [name |-> Name(p), source |-> Head(todo[p])]
      <4>1. found[p] \in Seq(Documents) /\ found'[p] = Append(found[p], c)
          BY <1>0, <2>3 DEF TypeOK, Documents, Origins
      <4> HIDE DEF c
      <4> QED BY <4>1
    <3> QED BY <2>1, <2>3, <3>1, <3>2 DEF Tried, Asking, Importing
  <2> QED BY <1>0, <1>8, <2>2, <2>3 DEF Write, fileVars, reportVars, TypeOK
<1>9. CASE RemoveFile(p)
  <2>1. pc[p] = "remove" /\ pc[p] \in Creating /\ FailImport(p)
      BY <1>9 DEF RemoveFile, Creating
  <2> QED BY <1>1, <1>6, <2>1
<1>10. CASE AskGuru(p)
  <2>1. /\ pc[p] = "guru" /\ attempts'[p] = attempts[p] /\ found'[p] = found[p]
        /\ \/ pc'[p] = "download" /\ todo'[p] = <<GuruMatch>> /\ res'[p] = "asking"
           \/ pc'[p] = "done" /\ res'[p] = "error"
      BY <1>0, <1>10 DEF AskGuru, Return, TypeOK
  <2>2. Covered(p)
      BY <2>1, AllTried DEF Tried, Importing
  <2>3. Covered(p)'
      BY <1>0, <2>1, <2>2 DEF Covered
  <2>4. <<GuruMatch>> # <<>>
      OBVIOUS
  <2> QED BY <2>1, <2>3, <2>4 DEF Tried, Asking, Importing
<1>11. CASE Crash(p)
  <2>1. /\ pc'[p] = "dead" /\ todo'[p] = todo[p] /\ found'[p] = found[p]
        /\ attempts'[p] = attempts[p] /\ res'[p] = res[p] /\ pc[p] \in Running
      BY <1>0, <1>11 DEF Crash, fileVars, reportVars, TypeOK
  <2> QED BY <1>0, <2>1 DEF Tried, Asking, Importing, Covered, Running
<1> QED BY <1>2, <1>3, <1>4, <1>5, <1>7, <1>8, <1>9, <1>10, <1>11 DEF Step

\* One more element that is marked, or not, in a sequence.
LEMMA MarkedFinite ==
    ASSUME NEW S, NEW s \in Seq(S), NEW mark PROVE IsFiniteSet({i \in DOMAIN s : s[i] \in mark})
<1>1. IsFiniteSet(1..Len(s)) /\ {i \in DOMAIN s : s[i] \in mark} \subseteq 1..Len(s)
    BY FS_Interval
<1> QED BY <1>1, FS_Subset

LEMMA Marked ==
    ASSUME NEW S, NEW s \in Seq(S), NEW e \in S, NEW mark \in SUBSET S
    PROVE  /\ e \notin mark => {i \in DOMAIN Append(s, e) : Append(s, e)[i] \in mark} = {i \in DOMAIN s : s[i] \in mark}
           /\ e \in mark => Cardinality({i \in DOMAIN Append(s, e) : Append(s, e)[i] \in mark})
                                = Cardinality({i \in DOMAIN s : s[i] \in mark}) + 1
<1> DEFINE n == Len(s)
           marked == {i \in DOMAIN s : s[i] \in mark}
           t == Append(s, e)
           more == {i \in DOMAIN t : t[i] \in mark}
<1>1. n \in Nat /\ DOMAIN s = 1..n /\ DOMAIN t = 1..(n + 1) /\ t[n + 1] = e /\ \A i \in 1..n : t[i] = s[i]
    OBVIOUS
<1>2. IsFiniteSet(marked) /\ n + 1 \notin marked
  <2>1. IsFiniteSet(marked)
      BY MarkedFinite
  <2>2. n + 1 \notin DOMAIN s
      BY <1>1
  <2> QED BY <2>1, <2>2
<1>3. more = {i \in 1..(n + 1) : t[i] \in mark} /\ marked = {i \in 1..n : s[i] \in mark}
    BY <1>1
<1> HIDE DEF t, n, more, marked
<1>4. 1..(n + 1) = (1..n) \cup {n + 1}
    BY <1>1
<1>5. e \notin mark => more = marked
    BY <1>1, <1>3, <1>4
<1>6. e \in mark => more = marked \cup {n + 1}
    BY <1>1, <1>3, <1>4
<1>7. e \in mark => Cardinality(more) = Cardinality(marked) + 1
    BY <1>2, <1>6, FS_AddElement
<1> QED BY <1>5, <1>7 DEF t, more, marked

LEMMA CountedStep ==
    ASSUME Typed, NEW p \in Processes, Tried(p), Counted(p), Step(p) \/ Crash(p)
    PROVE  Counted(p)'
<1> USE DEF Goto, Succeed
<1> DEFINE imports == {c \in Documents : c.source # "local"}
           passes == {a \in Tries : a.status = "pass"}
           Imports(s) == {i \in DOMAIN s : s[i] \in imports}
           Passes(s) == {i \in DOMAIN s : s[i] \in passes}
<1>0. TypeOK /\ found[p] \in Seq(Documents) /\ attempts[p] \in Seq(Tries)
    BY DEF Typed, TypeOK, Documents, Origins, Tries
<1>1. found'[p] \in Seq(Documents) /\ attempts'[p] \in Seq(Tries)
    BY OwnTypes DEF Own
<1>2. /\ Imported(p) = Imports(found[p]) /\ Imported(p)' = Imports(found'[p])
      /\ Passed(p) = Passes(attempts[p]) /\ Passed(p)' = Passes(attempts'[p])
    BY <1>0, <1>1 DEF Imported, Passed
<1>3. Cardinality(Imports(found[p])) = Cardinality(Passes(attempts[p]))
    BY <1>2 DEF Counted
<1> SUFFICES Cardinality(Imports(found'[p])) = Cardinality(Passes(attempts'[p]))
    BY <1>2 DEF Counted
<1> HIDE DEF Imports, Passes
<1>4. CASE found'[p] = found[p] /\ attempts'[p] = attempts[p]
    BY <1>3, <1>4
<1>5. CASE pc[p] \in Importing /\ todo[p] # <<>> /\ FailImport(p)
  <2> DEFINE attempt == [url |-> Head(todo[p]), status |-> "fail"]
  <2>1. attempts'[p] = Append(attempts[p], attempt) /\ found'[p] = found[p]
      BY <1>5, Advance DEF FailImport
  <2>2. attempt \in Tries /\ attempt \notin passes
    <3>1. todo[p] \in Seq(URLs)
        BY <1>5 DEF Typed, Tasks
    <3> QED BY <1>5, <3>1 DEF Tries
  <2>3. passes \in SUBSET Tries
      OBVIOUS
  <2> HIDE DEF attempt, passes
  <2>4. Passes(attempts'[p]) = Passes(attempts[p])
      BY <1>0, <2>1, <2>2, <2>3, Marked DEF Passes
  <2> QED BY <1>3, <2>1, <2>4
<1>6. CASE ReadFile(p)
  <2> DEFINE c == [name |-> Head(todo[p]), source |-> "local"]
  <2>1. attempts'[p] = attempts[p] /\ attempts[p] = <<>>
      BY <1>6 DEF ReadFile, reportVars, Tried
  <2>2. \/ found'[p] = found[p] \/ found'[p] = <<>>
        \/ found'[p] = Append(found[p], c) /\ Head(todo[p]) \in DOMAIN dir
      BY <1>0, <1>6 DEF ReadFile, reportVars, TypeOK
  <2>3. Passes(attempts[p]) = {}
      BY <2>1 DEF Passes
  <2>4. Imports(found[p]) = {}
    <3>1. IsFiniteSet(Imports(found[p]))
        BY <1>0, MarkedFinite DEF Imports
    <3>2. Cardinality(Imports(found[p])) = 0
        BY <1>3, <2>3, FS_EmptySet
    <3> QED BY <3>1, <3>2, FS_EmptySet
  <2>5. CASE found'[p] = <<>>
    <3>1. Imports(found'[p]) = {}
        BY <2>5 DEF Imports
    <3> QED BY <1>3, <2>1, <2>4, <3>1
  <2>6. CASE found'[p] = Append(found[p], c) /\ Head(todo[p]) \in DOMAIN dir
    <3>1. c \in Documents /\ c \notin imports
        BY <1>0, <2>6 DEF TypeOK, Documents, Origins
    <3>2. imports \in SUBSET Documents
        OBVIOUS
    <3> HIDE DEF c, imports
    <3>3. Imports(found'[p]) = Imports(found[p])
        BY <1>0, <2>6, <3>1, <3>2, Marked DEF Imports
    <3> QED BY <1>3, <2>1, <3>3
  <2> QED BY <1>4, <2>1, <2>2, <2>5, <2>6
<1>7. CASE Write(p)
  <2> DEFINE c == [name |-> Name(p), source |-> Head(todo[p])]
             attempt == [url |-> Head(todo[p]), status |-> "pass"]
  <2>1. pc[p] \in Creating /\ pc[p] \in Importing /\ todo[p] # <<>>
      BY <1>7 DEF Write, Creating, Importing, Typed, Tasks
  <2>2. \/ found'[p] = found[p] /\ attempts'[p] = attempts[p]
        \/ found'[p] = Append(found[p], c) /\ Attempted(p, "pass")
      BY <1>0, <1>7 DEF Write, reportVars, TypeOK
  <2>3. CASE found'[p] = Append(found[p], c) /\ Attempted(p, "pass")
    <3>1. attempts'[p] = Append(attempts[p], attempt)
        BY <2>1, <2>3, Advance
    <3>2. c \in imports /\ attempt \in passes /\ c \in Documents /\ attempt \in Tries
        BY <2>1, NameType, UrlAssumption DEF Documents, Origins, Tries
    <3>3. imports \in SUBSET Documents /\ passes \in SUBSET Tries
        OBVIOUS
    <3> HIDE DEF c, attempt, imports, passes
    <3>4. Cardinality(Imports(found'[p])) = Cardinality(Imports(found[p])) + 1
        BY <1>0, <2>3, <3>2, <3>3, Marked DEF Imports
    <3>5. Cardinality(Passes(attempts'[p])) = Cardinality(Passes(attempts[p])) + 1
      <4> DEFINE s == attempts[p]
      <4>1. s \in Seq(Tries) /\ attempts'[p] = Append(s, attempt)
          BY <1>0, <3>1
      <4> HIDE DEF s
      <4>2. Cardinality({i \in DOMAIN Append(s, attempt) : Append(s, attempt)[i] \in passes})
                = Cardinality({i \in DOMAIN s : s[i] \in passes}) + 1
          BY <3>2, <3>3, <4>1, Marked
      <4> QED BY <4>1, <4>2 DEF Passes, s
    <3> QED BY <1>3, <3>4, <3>5
  <2> QED BY <1>4, <2>2, <2>3
<1>8. ASSUME pc[p] \in Creating PROVE pc[p] \in Importing /\ todo[p] # <<>>
    BY <1>8 DEF Creating, Importing, Typed, Tasks
<1>9. \/ found'[p] = found[p] /\ attempts'[p] = attempts[p]
      \/ pc[p] \in Importing /\ todo[p] # <<>> /\ FailImport(p)
      \/ ReadFile(p) \/ Write(p)
    BY <1>8 DEF Step, Scan, ProjectURLs, Download, Create, RemoveFile, AskGuru, Crash,
                reportVars, Creating, Importing
<1> QED BY <1>4, <1>5, <1>6, <1>7, <1>9

\* The reports are correct in every state.
LEMMA ReportsAlways == Spec => []ReportsCorrect
<1>1. Init => ReportsCorrect
  <2> SUFFICES ASSUME Init, NEW p \in Processes PROVE Tried(p) /\ Counted(p)
      BY DEF ReportsCorrect
  <2>1. Imported(p) = {} /\ Passed(p) = {}
      BY DEF Init, Imported, Passed
  <2> QED BY <2>1 DEF Init, Tried, Counted, Asking, Importing
<1>2. Typed /\ ReportsCorrect /\ [Next]_vars => ReportsCorrect'
  <2> SUFFICES ASSUME Typed, ReportsCorrect, [Next]_vars, NEW x \in Processes PROVE Tried(x)' /\ Counted(x)'
      BY DEF ReportsCorrect
  <2>1. Tried(x) /\ Counted(x)
      BY DEF ReportsCorrect
  <2>2. Wanted(x)' = Wanted(x)
      BY DEF Wanted
  <2>3. CASE /\ pc'[x] = pc[x] /\ todo'[x] = todo[x] /\ found'[x] = found[x]
             /\ attempts'[x] = attempts[x] /\ res'[x] = res[x]
      BY <2>1, <2>2, <2>3 DEF Tried, Counted, Imported, Passed, Asking, InTurn, Covered
  <2>4. ASSUME NEW p \in Processes, Step(p) \/ Crash(p) PROVE Tried(x)' /\ Counted(x)'
    <3>1. CASE x = p
        BY <2>1, <2>4, <3>1, TriedStep, CountedStep
    <3>2. CASE x # p
      <4>1. Frame(p)
          BY <2>4, StepFrame DEF Typed
      <4> QED BY <2>3, <3>2, <4>1 DEF Frame
    <3> QED BY <3>1, <3>2
  <2>5. CASE UNCHANGED vars
      BY <2>3, <2>5 DEF vars, fileVars, reportVars
  <2> QED BY <2>4, <2>5 DEF Next
<1> QED BY <1>1, <1>2, TypedCorrect, PTL DEF Spec

\* A discovery that succeeds has tried every URL, in turn, has a candidate, and reports
\* one for every import that passed.
THEOREM SkipCorrect == Spec => []NothingIsSkipped
<1>1. Typed /\ ReportsCorrect => NothingIsSkipped
  <2> SUFFICES ASSUME Typed, ReportsCorrect, NEW p \in Processes, res[p] = "ok"
               PROVE  /\ found[p] # <<>>
                      /\ Wanted(p) \in {SubSeq([i \in DOMAIN attempts[p] |-> attempts[p][i].url], 1, n) :
                                            n \in 0..Len(attempts[p])}
                      /\ Cardinality(Imported(p)) = Cardinality(Passed(p))
      BY DEF NothingIsSkipped, Wanted, Passed
  <2>1. found[p] # <<>> /\ Covered(p) /\ Cardinality(Imported(p)) = Cardinality(Passed(p))
      BY DEF ReportsCorrect, Tried, Counted
  <2>2. Wanted(p) \in Seq(URLs) /\ Len(Wanted(p)) \in Nat
      BY WantedType
  <2>3. attempts[p] \in Seq(Tries) /\ Len(attempts[p]) \in Nat
    <3>1. attempts[p] \in Seq(Tries)
        BY DEF Typed, TypeOK, Tries
    <3> QED BY <3>1
  <2> DEFINE urls == [i \in DOMAIN attempts[p] |-> attempts[p][i].url]
             n == Len(Wanted(p))
  <2>4. n \in 0..Len(attempts[p])
      BY <2>1, <2>2, <2>3 DEF Covered
  <2>5. SubSeq(urls, 1, n) = [i \in 1..n |-> urls[i]]
    <3> HIDE DEF urls, n
    <3>1. n \in Nat
        BY <2>2 DEF n
    <3> QED BY <3>1
  <2>6. \A i \in 1..n : urls[i] = Wanted(p)[i]
      BY <2>1, <2>2, <2>3 DEF Covered
  <2>7. Wanted(p) = [i \in 1..n |-> Wanted(p)[i]]
      BY <2>2
  <2>8. Wanted(p) = SubSeq(urls, 1, n)
    <3> HIDE DEF urls, n
    <3> QED BY <2>5, <2>6, <2>7
  <2> QED BY <2>1, <2>4, <2>8
<1> QED BY <1>1, ReportsAlways, TypedCorrect, PTL

----------------------------------------------------------------------------
(***************************************************************************)
(* A finite set in a strict order: each element once, by its rank.         *)
(***************************************************************************)
Strict(S, order) ==
    /\ \A x, y \in S : <<x, y>> \in order => <<y, x>> \notin order
    /\ \A x, y \in S : x = y \/ <<x, y>> \in order \/ <<y, x>> \in order
    /\ \A x, y, z \in S : <<x, y>> \in order /\ <<y, z>> \in order => <<x, z>> \in order
Below(S, order, x) == {y \in S : <<y, x>> \in order}

LEMMA RankType ==
    ASSUME NEW S, IsFiniteSet(S), NEW order, Strict(S, order), NEW x \in S
    PROVE  Cardinality(Below(S, order, x)) \in 0..(Cardinality(S) - 1)
<1>1. IsFiniteSet(Below(S, order, x)) /\ Below(S, order, x) \subseteq S /\ x \notin Below(S, order, x)
    BY FS_Subset DEF Below, Strict
<1>2. /\ Cardinality(Below(S, order, x)) <= Cardinality(S)
      /\ Cardinality(Below(S, order, x)) # Cardinality(S)
    BY <1>1, FS_Subset
<1> QED BY <1>1, <1>2, FS_CardinalityType

LEMMA RankGrows ==
    ASSUME NEW S, IsFiniteSet(S), NEW order, Strict(S, order),
           NEW x \in S, NEW y \in S, <<x, y>> \in order
    PROVE  Cardinality(Below(S, order, x)) < Cardinality(Below(S, order, y))
<1>1. IsFiniteSet(Below(S, order, x)) /\ IsFiniteSet(Below(S, order, y))
    BY FS_Subset DEF Below
<1>2. /\ Below(S, order, x) \subseteq Below(S, order, y)
      /\ x \in Below(S, order, y) /\ x \notin Below(S, order, x)
    BY DEF Below, Strict
<1>3. /\ Cardinality(Below(S, order, x)) <= Cardinality(Below(S, order, y))
      /\ Cardinality(Below(S, order, x)) # Cardinality(Below(S, order, y))
    BY <1>1, <1>2, FS_Subset
<1> QED BY <1>1, <1>3, FS_CardinalityType

LEMMA RankReached ==
    ASSUME NEW S, IsFiniteSet(S), NEW order, Strict(S, order), NEW n \in 1..Cardinality(S)
    PROVE  \E x \in S : Cardinality(Below(S, order, x)) = n - 1
<1> DEFINE T == 0..(Cardinality(S) - 1)
           rank == [x \in S |-> Cardinality(Below(S, order, x))]
<1>1. Cardinality(S) \in Nat
    BY FS_CardinalityType
<1>2. rank \in [S -> T]
    BY RankType
<1>3. ASSUME NEW x \in S, NEW y \in S, rank[x] = rank[y] PROVE x = y
  <2>1. Cardinality(Below(S, order, x)) \in Nat /\ Cardinality(Below(S, order, y)) \in Nat
      BY RankType
  <2>2. <<x, y>> \notin order /\ <<y, x>> \notin order
      BY <1>3, <2>1, RankGrows
  <2> QED BY <2>2 DEF Strict
<1>4. rank \in Injection(S, T)
    BY <1>2, <1>3 DEF Injection, IsInjective
<1>5. IsFiniteSet(T) /\ Cardinality(T) = Cardinality(S)
  <2> DEFINE last == Cardinality(S) - 1
  <2>1. last \in Int /\ Cardinality(S) = last + 1 /\ Cardinality(S) >= 0 /\ T = 0..last
      BY <1>1
  <2> HIDE DEF last, T
  <2>2. IsFiniteSet(0..last) /\ Cardinality(0..last) = IF 0 > last THEN 0 ELSE last - 0 + 1
      BY <2>1, FS_Interval
  <2> QED BY <2>1, <2>2
<1>6. rank \in Surjection(S, T)
  <2> HIDE DEF rank, T
  <2> QED BY <1>4, <1>5, FS_Injection
<1>7. n - 1 \in T
    BY <1>1
<1>8. \A k \in T : \E x \in S : rank[x] = k
  <2> HIDE DEF rank, T
  <2> QED BY <1>6 DEF Surjection
<1> QED BY <1>7, <1>8

LEMMA InOrderIs ==
    ASSUME NEW S, IsFiniteSet(S), NEW order, Strict(S, order)
    PROVE  LET at == InOrder(S, order) IN
           /\ Cardinality(S) \in Nat /\ at \in [1..Cardinality(S) -> S]
           /\ \A i, j \in 1..Cardinality(S) : i < j => <<at[i], at[j]>> \in order
           /\ \A i, j \in 1..Cardinality(S) : at[i] = at[j] => i = j
           /\ \A x \in S : \E i \in 1..Cardinality(S) : at[i] = x
<1> DEFINE n == Cardinality(S)
           rank(x) == Cardinality(Below(S, order, x))
           ranked(i) == CHOOSE x \in S : Cardinality(Below(S, order, x)) = i - 1
           at == InOrder(S, order)
<1>1. n \in Nat
    BY FS_CardinalityType
<1>2. ASSUME NEW i \in 1..n PROVE ranked(i) \in S /\ rank(ranked(i)) = i - 1
  <2> DEFINE k == i - 1
  <2>1. \E x \in S : Cardinality(Below(S, order, x)) = k
      BY RankReached
  <2> HIDE DEF k
  <2>2. /\ (CHOOSE x \in S : Cardinality(Below(S, order, x)) = k) \in S
        /\ Cardinality(Below(S, order, CHOOSE x \in S : Cardinality(Below(S, order, x)) = k)) = k
      BY <2>1, Zenon
  <2> QED BY <2>2 DEF k
<1>3. at = [i \in 1..n |-> ranked(i)]
    BY DEF InOrder, Below
<1> HIDE DEF at, ranked
<1>4. ASSUME NEW i \in 1..n, NEW j \in 1..n, i < j PROVE <<at[i], at[j]>> \in order
  <2>1. at[i] \in S /\ at[j] \in S /\ rank(at[i]) = i - 1 /\ rank(at[j]) = j - 1
      BY <1>2, <1>3
  <2>2. i \in Nat /\ j \in Nat
      BY <1>1
  <2>3. ~(rank(at[j]) < rank(at[i])) /\ rank(at[i]) # rank(at[j])
      BY <1>4, <2>1, <2>2
  <2>4. <<at[j], at[i]>> \notin order
      BY <2>1, <2>3, RankGrows
  <2> QED BY <2>1, <2>3, <2>4 DEF Strict
<1>5. ASSUME NEW i \in 1..n, NEW j \in 1..n, at[i] = at[j] PROVE i = j
  <2>1. rank(at[i]) = i - 1 /\ rank(at[j]) = j - 1 /\ i \in Nat /\ j \in Nat
      BY <1>1, <1>2, <1>3
  <2> QED BY <1>5, <2>1
<1>6. ASSUME NEW x \in S PROVE \E i \in 1..n : at[i] = x
  <2>1. rank(x) \in 0..(n - 1) /\ n \in Nat
      BY <1>1, RankType
  <2> DEFINE i == rank(x) + 1
  <2>2. i \in 1..n /\ i - 1 = rank(x)
      BY <2>1
  <2>3. at[i] \in S /\ rank(at[i]) = rank(x)
      BY <1>2, <1>3, <2>2
  <2>4. <<at[i], x>> \notin order /\ <<x, at[i]>> \notin order
      BY <2>1, <2>3, RankGrows
  <2> QED BY <2>2, <2>3, <2>4 DEF Strict
<1>7. at \in [1..n -> S]
    BY <1>2, <1>3
<1> QED BY <1>1, <1>4, <1>5, <1>6, <1>7 DEF at

(***************************************************************************)
(* The orders of the model are strict.                                     *)
(***************************************************************************)
LEMMA AscendingIsStrict == ASSUME NEW S \in SUBSET Nat PROVE Strict(S, Ascending(S))
<1>1. \A x, y \in S : <<x, y>> \in Ascending(S) <=> x < y
    BY DEF Ascending
<1>2. \A x \in S : x \in Nat
    OBVIOUS
<1> HIDE DEF Ascending
<1> QED BY <1>1, <1>2 DEF Strict

LEMMA LexicalIsStrict == ASSUME NEW S \in SUBSET (Nat \X Nat) PROVE Strict(S, Lexical(S))
<1>1. \A x, y \in S : <<x, y>> \in Lexical(S) <=> x[1] < y[1] \/ (x[1] = y[1] /\ x[2] < y[2])
    BY DEF Lexical
<1>2. \A x \in S : x[1] \in Nat /\ x[2] \in Nat /\ x = <<x[1], x[2]>>
    OBVIOUS
<1>3. ASSUME NEW x \in S, NEW y \in S, x[1] = y[1], x[2] = y[2] PROVE x = y
    BY <1>2, <1>3
<1> HIDE DEF Lexical
<1>4. \A x, y \in S : <<x, y>> \in Lexical(S) => <<y, x>> \notin Lexical(S)
    BY <1>1, <1>2
<1>5. \A x, y \in S : x = y \/ <<x, y>> \in Lexical(S) \/ <<y, x>> \in Lexical(S)
  <2> SUFFICES ASSUME NEW x \in S, NEW y \in S, x # y
               PROVE  <<x, y>> \in Lexical(S) \/ <<y, x>> \in Lexical(S)
      OBVIOUS
  <2>1. x[1] # y[1] \/ x[2] # y[2]
      BY <1>3
  <2>2. x[1] \in Nat /\ x[2] \in Nat /\ y[1] \in Nat /\ y[2] \in Nat
      BY <1>2
  <2> QED BY <1>1, <2>1, <2>2
<1>6. \A x, y, z \in S : <<x, y>> \in Lexical(S) /\ <<y, z>> \in Lexical(S) => <<x, z>> \in Lexical(S)
    BY <1>1, <1>2
<1> QED BY <1>4, <1>5, <1>6 DEF Strict

\* sort.SliceStable puts the places in a strict order, whenever "less" is one that
\* leaves ties.
Weak(D, less) ==
    /\ \A x, y \in D : <<x, y>> \in less => <<y, x>> \notin less
    /\ \A x, y, z \in D : <<x, y>> \in less /\ <<y, z>> \in less => <<x, z>> \in less
    /\ \A x, y, z \in D : <<x, y>> \in less => <<x, z>> \in less \/ <<z, y>> \in less
Breaking(D, less) ==
    {p \in D \X D : <<p[1], p[2]>> \in less \/ (<<p[2], p[1]>> \notin less /\ p[1] < p[2])}

LEMMA StableIsStrict ==
    ASSUME NEW D \in SUBSET Nat, NEW less, Weak(D, less)
    PROVE  Strict(D, Breaking(D, less))
<1>1. \A x, y \in D :
         <<x, y>> \in Breaking(D, less) <=> <<x, y>> \in less \/ (<<y, x>> \notin less /\ x < y)
    BY DEF Breaking
<1>2. \A x \in D : x \in Nat
    OBVIOUS
<1> HIDE DEF Breaking
<1>3. \A x, y \in D : <<x, y>> \in Breaking(D, less) => <<y, x>> \notin Breaking(D, less)
    BY <1>1, <1>2 DEF Weak
<1>4. \A x, y \in D : x = y \/ <<x, y>> \in Breaking(D, less) \/ <<y, x>> \in Breaking(D, less)
  <2> SUFFICES ASSUME NEW x \in D, NEW y \in D, x # y
               PROVE  <<x, y>> \in Breaking(D, less) \/ <<y, x>> \in Breaking(D, less)
      OBVIOUS
  <2>1. x < y \/ y < x
      BY <1>2
  <2> QED BY <1>1, <2>1
<1>5. ASSUME NEW x \in D, NEW y \in D, NEW z \in D,
             <<x, y>> \in Breaking(D, less), <<y, z>> \in Breaking(D, less)
      PROVE  <<x, z>> \in Breaking(D, less)
  <2> DEFINE before(u, v) == <<u, v>> \in less
  <2>1. /\ before(x, y) => before(x, z) \/ before(z, y)
        /\ before(y, z) => before(y, x) \/ before(x, z)
        /\ before(x, y) /\ before(y, z) => before(x, z)
        /\ before(z, x) => before(z, y) \/ before(y, x)
        /\ before(x, y) => ~before(y, x)
        /\ before(y, z) => ~before(z, y)
      BY DEF Weak
  <2>2. before(x, y) \/ (~before(y, x) /\ x < y)
      BY <1>1, <1>5
  <2>3. before(y, z) \/ (~before(z, y) /\ y < z)
      BY <1>1, <1>5
  <2>4. x < y /\ y < z => x < z
      BY <1>2
  <2> HIDE DEF before
  <2>5. before(x, z) \/ (~before(z, x) /\ x < z)
      BY <2>1, <2>2, <2>3, <2>4
  <2> QED BY <1>1, <2>5 DEF before
<1> HIDE DEF Weak
<1> QED BY <1>3, <1>4, <1>5 DEF Strict

Rates(e) == e.score \in Nat /\ e.title \in Nat
LEMMA HigherIsWeak ==
    ASSUME NEW e, NEW f, NEW g, Rates(e), Rates(f), Rates(g)
    PROVE  /\ Higher(e, f) => ~Higher(f, e)
           /\ Higher(e, f) /\ Higher(f, g) => Higher(e, g)
           /\ Higher(e, f) => Higher(e, g) \/ Higher(g, f)
BY DEF Higher, Rates

LEMMA BeforeIsWeak ==
    ASSUME NEW e, NEW f, NEW g, Rates(e), Rates(f), Rates(g), e.doc \in Nat, f.doc \in Nat, g.doc \in Nat
    PROVE  /\ Before(e, f) => ~Before(f, e)
           /\ Before(e, f) /\ Before(f, g) => Before(e, g)
           /\ Before(e, f) => Before(e, g) \/ Before(g, f)
<1> USE DEF Before, Higher, Rates
<1>1. Before(e, f) => ~Before(f, e)
    OBVIOUS
<1>2. Before(e, f) /\ Before(f, g) => Before(e, g)
    OBVIOUS
<1>3. Before(e, f) => Before(e, g) \/ Before(g, f)
    OBVIOUS
<1> QED BY <1>1, <1>2, <1>3

LEMMA HigherSorts ==
    ASSUME NEW V, NEW s \in Seq(V), \A e \in V : Rates(e)
    PROVE  Strict(DOMAIN s, Stably(s, Higher))
<1> DEFINE D == DOMAIN s
           less == {p \in D \X D : Higher(s[p[1]], s[p[2]])}
<1>1. \A x, y \in D : <<x, y>> \in less <=> Higher(s[x], s[y])
    OBVIOUS
<1>2. \A x \in D : Rates(s[x])
    OBVIOUS
<1>3. Weak(D, less)
  <2> HIDE DEF less, D
  <2> QED BY <1>1, <1>2, HigherIsWeak DEF Weak
<1>4. Stably(s, Higher) = Breaking(D, less)
    BY DEF Stably, Breaking
<1>5. D \in SUBSET Nat
    OBVIOUS
<1> HIDE DEF less
<1> QED BY <1>3, <1>4, <1>5, StableIsStrict

LEMMA BeforeSorts ==
    ASSUME NEW V, NEW s \in Seq(V), \A e \in V : Rates(e) /\ e.doc \in Nat
    PROVE  Strict(DOMAIN s, Stably(s, Before))
<1> DEFINE D == DOMAIN s
           less == {p \in D \X D : Before(s[p[1]], s[p[2]])}
<1>1. \A x, y \in D : <<x, y>> \in less <=> Before(s[x], s[y])
    OBVIOUS
<1>2. \A x \in D : Rates(s[x]) /\ s[x].doc \in Nat
    OBVIOUS
<1>3. Weak(D, less)
  <2> HIDE DEF less, D
  <2> QED BY <1>1, <1>2, BeforeIsWeak DEF Weak
<1>4. Stably(s, Before) = Breaking(D, less)
    BY DEF Stably, Breaking
<1>5. D \in SUBSET Nat
    OBVIOUS
<1> HIDE DEF less
<1> QED BY <1>3, <1>4, <1>5, StableIsStrict

(***************************************************************************)
(* What an arrangement of a sequence holds.                                *)
(***************************************************************************)
LEMMA ArrangedIs ==
    ASSUME NEW V, NEW s, NEW places, IsFiniteSet(places), NEW order, Strict(places, order),
           \A i \in places : s[i] \in V
    PROVE  LET t == Arranged(s, places, order)
               n == Cardinality(places)
           IN /\ t \in Seq(V) /\ Len(t) = n /\ DOMAIN t = 1..n
              /\ \E at \in [1..n -> places] :
                    /\ \A k \in 1..n : t[k] = s[at[k]]
                    /\ \A j, k \in 1..n : at[j] = at[k] => j = k
                    /\ \A j, k \in 1..n : j < k => <<at[j], at[k]>> \in order
                    /\ \A i \in places : \E k \in 1..n : at[k] = i
<1> DEFINE n == Cardinality(places)
           at == InOrder(places, order)
           t == Arranged(s, places, order)
<1>1. /\ n \in Nat /\ at \in [1..n -> places]
      /\ \A i, j \in 1..n : i < j => <<at[i], at[j]>> \in order
      /\ \A i, j \in 1..n : at[i] = at[j] => i = j
      /\ \A x \in places : \E i \in 1..n : at[i] = x
    BY InOrderIs
<1>2. t = [k \in DOMAIN at |-> s[at[k]]]
    BY DEF Arranged
<1> HIDE DEF at, t, n
<1>3. t = [k \in 1..n |-> s[at[k]]] /\ \A k \in 1..n : s[at[k]] \in V
    BY <1>1, <1>2
<1>4. t \in Seq(V) /\ Len(t) = n /\ DOMAIN t = 1..n
    BY <1>1, <1>3
<1>5. \A k \in 1..n : t[k] = s[at[k]]
    BY <1>3
<1> QED BY <1>1, <1>4, <1>5 DEF t, n

LEMMA DomainIs == ASSUME NEW V, NEW s \in Seq(V)
                  PROVE  /\ DOMAIN s = 1..Len(s) /\ Len(s) \in Nat /\ IsFiniteSet(DOMAIN s)
                         /\ Cardinality(DOMAIN s) = Len(s) /\ \A i \in DOMAIN s : s[i] \in V
<1>1. DOMAIN s = 1..Len(s) /\ Len(s) \in Nat /\ \A i \in DOMAIN s : s[i] \in V
    OBVIOUS
<1>2. IsFiniteSet(1..Len(s)) /\ Cardinality(1..Len(s)) = Len(s)
    BY <1>1, FS_Interval
<1> QED BY <1>1, <1>2

LEMMA KeptIs ==
    ASSUME NEW V, NEW s \in Seq(V), NEW places \in SUBSET DOMAIN s
    PROVE  /\ Kept(s, places) \in Seq(V) /\ Len(Kept(s, places)) = Cardinality(places)
           /\ \A e : (\E k \in DOMAIN Kept(s, places) : Kept(s, places)[k] = e)
                        <=> \E i \in places : s[i] = e
<1>1. IsFiniteSet(places) /\ places \in SUBSET Nat /\ \A i \in places : s[i] \in V
    BY DomainIs, FS_Subset
<1>2. Strict(places, Ascending(places))
    BY <1>1, AscendingIsStrict
<1> DEFINE t == Kept(s, places)
           n == Cardinality(places)
<1>3. /\ t \in Seq(V) /\ Len(t) = n /\ DOMAIN t = 1..n
      /\ \E at \in [1..n -> places] :
            /\ \A k \in 1..n : t[k] = s[at[k]]
            /\ \A i \in places : \E k \in 1..n : at[k] = i
  <2> DEFINE order == Ascending(places)
  <2> HIDE DEF order
  <2> QED BY <1>1, <1>2, ArrangedIs DEF Kept, order
<1> HIDE DEF t, n
<1>4. \A e : (\E k \in DOMAIN t : t[k] = e) <=> \E i \in places : s[i] = e
    BY <1>3
<1> QED BY <1>3, <1>4 DEF t, n

\* A sequence and one that holds the same elements as often, the best first.
Rearranges(s, t) ==
    /\ Len(t) = Len(s)
    /\ \E at \in [DOMAIN s -> DOMAIN s] :
          /\ \A k \in DOMAIN s : t[k] = s[at[k]]
          /\ \A j, k \in DOMAIN s : at[j] = at[k] => j = k
          /\ \A i \in DOMAIN s : \E k \in DOMAIN s : at[k] = i

\* sortResults (text.go): no result is lost, doubled or changed by the sort, and none
\* comes after one that it ought to precede.
THEOREM BestFirst ==
    ASSUME NEW V, NEW s \in Seq(V), \A e \in V : Rates(e) /\ e.doc \in Nat
    PROVE  LET t == SortResults(s) IN
           /\ t \in Seq(V) /\ Rearranges(s, t)
           /\ \A j, k \in DOMAIN t : j < k => ~Before(t[k], t[j])
<1> DEFINE t == SortResults(s)
           n == Len(s)
           order == Stably(s, Before)
<1>1. IsFiniteSet(DOMAIN s) /\ Cardinality(DOMAIN s) = n /\ DOMAIN s = 1..n /\ \A i \in DOMAIN s : s[i] \in V
    BY DomainIs
<1>2. Strict(DOMAIN s, order)
    BY BeforeSorts
<1>3. t = Arranged(s, DOMAIN s, order)
    BY DEF SortResults
<1>4. \A j, k \in DOMAIN s : <<j, k>> \in order => Before(s[j], s[k]) \/ ~Before(s[k], s[j])
    BY DEF Stably
<1> HIDE DEF t, order, n
<1>0. /\ t \in Seq(V) /\ Len(t) = n /\ DOMAIN t = 1..n
      /\ \E at \in [1..n -> DOMAIN s] :
            /\ \A k \in 1..n : t[k] = s[at[k]]
            /\ \A j, k \in 1..n : at[j] = at[k] => j = k
            /\ \A j, k \in 1..n : j < k => <<at[j], at[k]>> \in order
            /\ \A i \in DOMAIN s : \E k \in 1..n : at[k] = i
  <2> DEFINE D == DOMAIN s
  <2>1. IsFiniteSet(D) /\ Cardinality(D) = n /\ Strict(D, order) /\ t = Arranged(s, D, order)
        /\ \A i \in D : s[i] \in V
      BY <1>1, <1>2, <1>3
  <2> HIDE DEF D
  <2>2. /\ t \in Seq(V) /\ Len(t) = n /\ DOMAIN t = 1..n
        /\ \E at \in [1..n -> D] :
              /\ \A k \in 1..n : t[k] = s[at[k]]
              /\ \A j, k \in 1..n : at[j] = at[k] => j = k
              /\ \A j, k \in 1..n : j < k => <<at[j], at[k]>> \in order
              /\ \A i \in D : \E k \in 1..n : at[k] = i
      BY <2>1, ArrangedIs
  <2> QED BY <2>2 DEF D
<1>5. t \in Seq(V) /\ Len(t) = n /\ DOMAIN t = 1..n
    BY <1>0
<1>6. PICK at \in [1..n -> DOMAIN s] :
          /\ \A k \in 1..n : t[k] = s[at[k]]
          /\ \A j, k \in 1..n : at[j] = at[k] => j = k
          /\ \A j, k \in 1..n : j < k => <<at[j], at[k]>> \in order
          /\ \A i \in DOMAIN s : \E k \in 1..n : at[k] = i
    BY <1>0
<1>7. Rearranges(s, t)
  <2>1. at \in [DOMAIN s -> DOMAIN s] /\ Len(t) = Len(s)
      BY <1>1, <1>5, <1>6 DEF n
  <2>2. /\ \A k \in DOMAIN s : t[k] = s[at[k]]
        /\ \A j, k \in DOMAIN s : at[j] = at[k] => j = k
        /\ \A i \in DOMAIN s : \E k \in DOMAIN s : at[k] = i
      BY <1>1, <1>6
  <2> QED BY <2>1, <2>2, Zenon DEF Rearranges
<1>8. ASSUME NEW j \in 1..n, NEW k \in 1..n, j < k PROVE ~Before(t[k], t[j])
  <2>1. at[j] \in DOMAIN s /\ at[k] \in DOMAIN s /\ t[j] = s[at[j]] /\ t[k] = s[at[k]]
        /\ <<at[j], at[k]>> \in order
      BY <1>6, <1>8
  <2>2. Before(t[j], t[k]) \/ ~Before(t[k], t[j])
      BY <1>4, <2>1
  <2>3. t[j] \in V /\ t[k] \in V
      BY <1>1, <2>1
  <2> QED BY <2>2, <2>3, BeforeIsWeak
<1> QED BY <1>5, <1>7, <1>8 DEF t
(***************************************************************************)
(* Types of what the sources answer.                                       *)
(***************************************************************************)
Results == [source : Kinds, doc : Nat, title : Nat, score : Nat, validated : BOOLEAN]
Answers == [results : Seq(Results), failed : BOOLEAN, status : {"pass", "fail"}]

LEMMA FirstIs ==
    ASSUME NEW V, NEW s \in Seq(V), NEW limit \in Nat
    PROVE  First(s, limit) \in Seq(V) /\ (First(s, limit) = <<>> => s = <<>>)
<1>1. CASE limit = Everything \/ Len(s) <= limit
    BY <1>1 DEF First
<1>2. CASE limit # Everything /\ limit < Len(s)
  <2>1. limit \in 1..Len(s)
      BY <1>2 DEF Everything
  <2>2. First(s, limit) = SubSeq(s, 1, limit)
      BY <1>2 DEF First
  <2>3. SubSeq(s, 1, limit) \in Seq(V) /\ Len(SubSeq(s, 1, limit)) = limit
      BY <2>1
  <2> QED BY <2>1, <2>2, <2>3
<1> QED BY <1>1, <1>2

LEMMA ResultType ==
    ASSUME NEW kind \in Kinds, NEW e, e.doc \in Nat, e.title \in Nat, e.score \in Nat,
           NEW validated \in BOOLEAN
    PROVE  Result(kind, e, validated) \in Results
BY DEF Result, Results

\* An answer under a limit is the beginning of the answer without one, and tells why it
\* has nothing.
Sound(answer, full, limit) ==
    /\ answer \in Answers
    /\ answer.failed => answer.results = <<>>
    /\ ~answer.failed => answer.status = "pass"
    /\ answer.results = First(full.results, limit)
    /\ answer.results = <<>> => full.results = <<>>

LEMMA BestIs ==
    ASSUME NEW s \in Seq(Results), NEW limit \in Nat
    PROVE  Sound(Answer(Best(s, limit)), Answer(Best(s, Everything)), limit)
<1> DEFINE t == SortResults(s)
<1>1. \A e \in Results : Rates(e) /\ e.doc \in Nat
    BY DEF Results, Rates
<1>2. t \in Seq(Results)
    BY <1>1, BestFirst
<1>3. Best(s, limit) = First(t, limit) /\ Best(s, Everything) = t
    BY DEF Best, First
<1> HIDE DEF t
<1>4. First(t, limit) \in Seq(Results) /\ (First(t, limit) = <<>> => t = <<>>)
    BY <1>2, FirstIs
<1> QED BY <1>3, <1>4 DEF Sound, Answer, Answers

LEMMA FailuresAreSound ==
    ASSUME NEW limit \in Nat
    PROVE  Sound(Failed, Failed, limit) /\ Sound(Garbled, Garbled, limit) /\ Sound(Answer(<<>>), Answer(<<>>), limit)
<1> First(<<>>, limit) = <<>>
    BY DEF First
<1> <<>> \in Seq(Results)
    OBVIOUS
<1> QED BY DEF Sound, Failed, Garbled, Answer, Answers

LEMMA PreferredType == ASSUME NEW api \in Api PROVE Preferred(api) \in Version
<1>1. api.versions \in Seq(Version)
    BY DEF Api
<1>2. CASE api.preferred \in DOMAIN api.versions
    BY <1>1, <1>2 DEF Preferred
<1>3. CASE api.preferred \notin DOMAIN api.versions /\ api.versions = <<>>
    BY <1>3 DEF Preferred, Version
<1>4. CASE api.preferred \notin DOMAIN api.versions /\ api.versions # <<>>
  <2>1. api.versions[Len(api.versions)] \in Version
      BY <1>1, <1>4
  <2> QED BY <1>4, <2>1 DEF Preferred
<1> QED BY <1>2, <1>3, <1>4

LEMMA GuruIsSound ==
    ASSUME NEW w \in Webs, NEW limit \in Nat
    PROVE  Sound(SearchAPIsGuru(w, limit), SearchAPIsGuru(w, Everything), limit)
<1> DEFINE result(i) == Result("apis-guru", Preferred(w.guru[i]), FALSE)
           listed == [i \in DOMAIN w.guru |-> result(i)]
           matches == Kept(listed, {i \in DOMAIN listed : listed[i].doc # 0 /\ listed[i].score > 0})
<1>1. \A i \in DOMAIN w.guru : result(i) \in Results
  <2> SUFFICES ASSUME NEW i \in DOMAIN w.guru PROVE result(i) \in Results
      OBVIOUS
  <2>1. w.guru[i] \in Api
      BY WebAssumption
  <2>2. Preferred(w.guru[i]) \in Version
      BY <2>1, PreferredType
  <2> QED BY <2>2, ResultType DEF Version, Kinds
<1>2. listed \in Seq(Results)
  <2> HIDE DEF result
  <2>1. w.guru \in Seq(Api)
      BY WebAssumption
  <2> QED BY <1>1, <2>1
<1>3. matches \in Seq(Results)
  <2> HIDE DEF listed
  <2> QED BY <1>2, KeptIs
<1>4. CASE "apis-guru" \in w.garbled
    BY <1>4, FailuresAreSound DEF SearchAPIsGuru
<1>5. CASE "apis-guru" \notin w.garbled
  <2>1. \A n : SearchAPIsGuru(w, n) = Answer(Best(matches, n))
      BY <1>5 DEF SearchAPIsGuru
  <2> HIDE DEF matches
  <2> QED BY <1>3, <2>1, BestIs
<1> QED BY <1>4, <1>5

LEMMA GreatestNumber ==
    ASSUME NEW n \in Nat, NEW S \in SUBSET (1..n), S # {} PROVE \E m \in S : \A k \in S : k <= m
<1> DEFINE T == {n - i : i \in S}
<1>1. T \in SUBSET Nat /\ T # {}
  <2>1. \A i \in S : n - i \in Nat
      OBVIOUS
  <2> QED BY <2>1
<1>2. PICK m \in T : \A k \in T : m <= k
  <2> HIDE DEF T
  <2> QED BY <1>1, LeastNumber
<1>3. PICK i \in S : m = n - i
    OBVIOUS
<1>4. \A k \in S : n - i <= n - k
    BY <1>2, <1>3
<1>5. \A k \in S : k <= i
    BY <1>4
<1> QED BY <1>5

Lines == Seq([tag : Tags, value : Nat])
Entries == [name : Nat, doc : Nat, title : Nat, score : Nat]

LEMMA FieldType ==
    ASSUME NEW lines \in Lines, NEW end \in DOMAIN lines, NEW tag PROVE Field(lines, end, tag) \in Nat
<1> DEFINE said == {i \in 1..end : lines[i].tag = tag /\ \A j \in i..end : lines[j].tag # "result"}
           last == CHOOSE i \in said : \A j \in said : j <= i
<1>1. Field(lines, end, tag) = IF said = {} THEN 0 ELSE lines[last].value
    BY DEF Field
<1>2. end \in Nat /\ said \subseteq 1..end /\ said \subseteq DOMAIN lines
    BY DEF Lines
<1>3. ASSUME said # {} PROVE last \in said
  <2> HIDE DEF said
  <2>1. \E i \in said : \A j \in said : j <= i
      BY <1>2, <1>3, GreatestNumber
  <2> QED BY <2>1
<1> HIDE DEF said, last
<1>4. ASSUME said # {} PROVE lines[last].value \in Nat
  <2>1. last \in DOMAIN lines
      BY <1>2, <1>3, <1>4
  <2> DEFINE Line == [tag : Tags, value : Nat]
  <2>2. lines \in Seq(Line)
      BY DEF Lines
  <2> HIDE DEF Line
  <2>3. lines[last] \in Line
      BY <2>1, <2>2
  <2> QED BY <2>3 DEF Line
<1> QED BY <1>1, <1>4

LEMMA EntriesType == ASSUME NEW lines \in Lines PROVE LAPEntries(lines) \in Seq(Entries)
<1> DEFINE block(i) == [name |-> Field(lines, i, "name"), doc |-> Field(lines, i, "doc"),
                        title |-> Field(lines, i, "title"), score |-> Field(lines, i, "score")]
           blocks == [i \in DOMAIN lines |-> block(i)]
           ends == {i \in DOMAIN lines : lines[i].tag = "endresult"}
<1>1. \A i \in DOMAIN lines : block(i) \in Entries
    BY FieldType DEF Entries
<1>2. blocks \in Seq(Entries) /\ DOMAIN blocks = DOMAIN lines
  <2> HIDE DEF block
  <2> QED BY <1>1 DEF Lines
<1>3. LAPEntries(lines) = Kept(blocks, ends)
    BY DEF LAPEntries
<1>4. ends \in SUBSET DOMAIN blocks
    BY <1>2
<1> HIDE DEF blocks, ends
<1> QED BY <1>2, <1>3, <1>4, KeptIs

LEMMA DistinctType == ASSUME NEW V, NEW s \in Seq(V) PROVE Distinct(s) \in Seq(V)
<1> DEFINE places == {i \in DOMAIN s : \A j \in 1..(i - 1) : s[j].doc # s[i].doc}
<1>1. places \in SUBSET DOMAIN s
    OBVIOUS
<1>2. Distinct(s) = Kept(s, places)
    BY DEF Distinct
<1> HIDE DEF places
<1> QED BY <1>1, <1>2, KeptIs

LEMMA LAPIsSound ==
    ASSUME NEW w \in Webs, NEW limit \in Nat
    PROVE  Sound(SearchLAPRegistry(w, limit), SearchLAPRegistry(w, Everything), limit)
<1> DEFINE entries == LAPEntries(w.lap)
           once == Distinct(entries)
           result(i) == Result("lap-registry", once[i], FALSE)
           listed == [i \in DOMAIN once |-> result(i)]
           matches == Kept(listed, {i \in DOMAIN listed : listed[i].score > 0})
           bad == \/ Malformed(w.lap)
                  \/ \E i \in DOMAIN entries : entries[i].name = 0 \/ entries[i].doc = 0
<1>1. entries \in Seq(Entries)
    BY EntriesType, WebAssumption DEF Lines
<1>2. once \in Seq(Entries)
  <2> HIDE DEF entries
  <2> QED BY <1>1, DistinctType
<1>3. listed \in Seq(Results)
  <2> HIDE DEF once
  <2>1. \A i \in DOMAIN once : once[i] \in Entries
      BY <1>2
  <2>2. \A i \in DOMAIN once : result(i) \in Results
      BY <2>1, ResultType DEF Entries, Kinds
  <2> HIDE DEF result
  <2> QED BY <1>2, <2>2
<1>4. matches \in Seq(Results)
  <2> HIDE DEF listed
  <2> QED BY <1>3, KeptIs
<1>5. \A n : SearchLAPRegistry(w, n) = IF bad THEN Failed ELSE Answer(Best(matches, n))
    BY DEF SearchLAPRegistry
<1> HIDE DEF matches, bad
<1>6. CASE bad
    BY <1>5, <1>6, FailuresAreSound
<1>7. CASE ~bad
    BY <1>4, <1>5, <1>7, BestIs
<1> QED BY <1>6, <1>7

LEMMA ConcatType ==
    ASSUME NEW V, NEW n \in Nat, NEW lists, DOMAIN lists = 1..n, \A i \in 1..n : lists[i] \in Seq(V)
    PROVE  Concat(lists) \in Seq(V)
<1> DEFINE row(i) == {i} \X (DOMAIN lists[i])
           rows == {row(i) : i \in 1..n}
           map == [i \in 1..n |-> row(i)]
           places == UNION rows
           order == Lexical(places)
           at == InOrder(places, order)
<1>1. IsFiniteSet(rows)
  <2> HIDE DEF row
  <2>1. map \in Surjection(1..n, rows)
      BY DEF Surjection
  <2>2. IsFiniteSet(1..n)
      BY FS_Interval
  <2> HIDE DEF map, rows
  <2> QED BY <2>1, <2>2, FS_Surjection
<1>2. \A i \in 1..n : IsFiniteSet(row(i))
  <2> SUFFICES ASSUME NEW i \in 1..n PROVE IsFiniteSet(row(i))
      OBVIOUS
  <2>1. IsFiniteSet({i}) /\ IsFiniteSet(DOMAIN lists[i])
      BY FS_Singleton, DomainIs
  <2> QED BY <2>1, FS_Product
<1>3. IsFiniteSet(places)
  <2> HIDE DEF row
  <2>1. \A T \in rows : IsFiniteSet(T)
      BY <1>2
  <2> HIDE DEF rows
  <2> QED BY <1>1, <2>1, FS_UNION
<1>4. \A p \in places : p \in Nat \X Nat /\ p[1] \in 1..n /\ p[2] \in DOMAIN lists[p[1]]
  <2> SUFFICES ASSUME NEW i \in 1..n, NEW p \in row(i)
               PROVE  p \in Nat \X Nat /\ p[1] \in 1..n /\ p[2] \in DOMAIN lists[p[1]]
      OBVIOUS
  <2>1. p = <<i, p[2]>> /\ p[1] = i /\ p[2] \in DOMAIN lists[i]
      OBVIOUS
  <2>2. p[2] \in Nat /\ i \in Nat
      BY <2>1, DomainIs
  <2> QED BY <2>1, <2>2
<1>5. places \in SUBSET (Nat \X Nat)
    BY <1>4
<1>6. Strict(places, order)
  <2> HIDE DEF places
  <2> QED BY <1>5, LexicalIsStrict
<1> DEFINE m == Cardinality(places)
           entry(k) == lists[at[k][1]][at[k][2]]
<1>7. m \in Nat /\ at \in [1..m -> places]
  <2> HIDE DEF places, order
  <2> QED BY <1>3, <1>6, InOrderIs
<1>8. \A k \in 1..m : entry(k) \in V
  <2> SUFFICES ASSUME NEW k \in 1..m PROVE entry(k) \in V
      OBVIOUS
  <2> HIDE DEF at, places, m
  <2>1. at[k][1] \in 1..n /\ at[k][2] \in DOMAIN lists[at[k][1]]
      BY <1>4, <1>7
  <2> QED BY <2>1
<1>9. Concat(lists) = [k \in 1..m |-> entry(k)]
  <2>1. Concat(lists) = [k \in DOMAIN at |-> lists[at[k][1]][at[k][2]]]
      BY DEF Concat
  <2> HIDE DEF at, m
  <2> QED BY <1>7, <2>1
<1> HIDE DEF entry, m
<1> QED BY <1>7, <1>8, <1>9

Targets == [doc : Nat, title : Nat, score : Nat, openapi : BOOLEAN]

LEMMA RFCIsSound ==
    ASSUME NEW w \in Webs, NEW limit \in Nat
    PROVE  Sound(SearchRFC9727(w, limit), SearchRFC9727(w, Everything), limit)
<1> DEFINE lists == [i \in DOMAIN w.rfc |-> w.rfc[i].targets]
           targets == Concat(lists)
           open == {i \in DOMAIN targets : targets[i].openapi}
           described == Kept(targets, open)
           once == Distinct(described)
           rated(t) == [doc |-> t.doc, title |-> t.title, score |-> IF t.score = 0 THEN 1 ELSE t.score]
           result(i) == Result("rfc9727", rated(once[i]), FALSE)
           listed == [i \in DOMAIN once |-> result(i)]
           bad == \/ \E i \in DOMAIN w.rfc : w.rfc[i].targets # <<>> /\ ~w.rfc[i].anchored
                  \/ Len(targets) > LinkLimit
                  \/ \E i \in DOMAIN described : described[i].doc = 0
<1>1. targets \in Seq(Targets)
  <2>1. w.rfc \in Seq(LinkSet)
      BY WebAssumption
  <2>2. \A i \in DOMAIN w.rfc : w.rfc[i].targets \in Seq(Targets)
    <3>1. \A i \in DOMAIN w.rfc : w.rfc[i] \in LinkSet
        BY <2>1
    <3> QED BY <3>1 DEF LinkSet, Targets
  <2>3. PICK n \in Nat : DOMAIN w.rfc = 1..n
      BY <2>1
  <2>4. DOMAIN lists = 1..n /\ \A i \in 1..n : lists[i] \in Seq(Targets)
      BY <2>2, <2>3
  <2> HIDE DEF lists
  <2> QED BY <2>4, ConcatType
<1>2. described \in Seq(Targets)
  <2>1. open \in SUBSET DOMAIN targets
      OBVIOUS
  <2> HIDE DEF targets, open
  <2> QED BY <1>1, <2>1, KeptIs
<1>3. once \in Seq(Targets)
  <2> HIDE DEF described
  <2> QED BY <1>2, DistinctType
<1>4. listed \in Seq(Results)
  <2> HIDE DEF once
  <2>1. \A i \in DOMAIN once : once[i] \in Targets
      BY <1>3
  <2>2. \A i \in DOMAIN once : result(i) \in Results
    <3> SUFFICES ASSUME NEW i \in DOMAIN once PROVE result(i) \in Results
        OBVIOUS
    <3>1. rated(once[i]).doc \in Nat /\ rated(once[i]).title \in Nat /\ rated(once[i]).score \in Nat
        BY <2>1 DEF Targets
    <3> HIDE DEF rated
    <3> QED BY <3>1, ResultType DEF Kinds
  <2> HIDE DEF result
  <2> QED BY <1>3, <2>2
<1>5. \A m : SearchRFC9727(w, m) = IF bad THEN Failed ELSE Answer(Best(listed, m))
    BY DEF SearchRFC9727
<1> HIDE DEF listed, bad
<1>6. CASE bad
    BY <1>5, <1>6, FailuresAreSound
<1>7. CASE ~bad
    BY <1>4, <1>5, <1>7, BestIs
<1> QED BY <1>6, <1>7

(***************************************************************************)
(* The candidates of the probes.                                           *)
(***************************************************************************)
LEMMA MatchesType ==
    ASSUME NEW w \in Webs, NEW n \in Nat
    PROVE  Matches(w, n) \in Seq(Page) /\ \A i \in DOMAIN Matches(w, n) : Matches(w, n)[i].link \in Links
<1> DEFINE places == {i \in DOMAIN w.public : w.public[i].score > 0 /\ w.public[i].link # ""}
           matching == Kept(w.public, places)
           D == DOMAIN matching
           order == Stably(matching, Higher)
           sorted == Arranged(matching, D, order)
           Linked == {p \in Page : p.link # ""}
<1>1. w.public \in Seq(Page)
    BY WebAssumption
<1>2. matching \in Seq(Page) /\ \A k \in D : \E i \in places : w.public[i] = matching[k]
  <2>1. places \in SUBSET DOMAIN w.public
      OBVIOUS
  <2> HIDE DEF places
  <2> DEFINE s == w.public
  <2>2. s \in Seq(Page) /\ places \in SUBSET DOMAIN s
      BY <1>1, <2>1
  <2> HIDE DEF s
  <2>3. /\ Kept(s, places) \in Seq(Page)
        /\ \A e : (\E k \in DOMAIN Kept(s, places) : Kept(s, places)[k] = e) <=> \E i \in places : s[i] = e
      BY <2>2, KeptIs
  <2>4. /\ Kept(s, places) \in Seq(Page)
        /\ \A k \in DOMAIN Kept(s, places) : \E i \in places : s[i] = Kept(s, places)[k]
      BY <2>3
  <2> QED BY <2>4 DEF s
<1>3. \A k \in D : matching[k] \in Linked
  <2> SUFFICES ASSUME NEW k \in D PROVE matching[k] \in Linked
      OBVIOUS
  <2>1. matching[k] \in Page
    <3> HIDE DEF matching
    <3> QED BY <1>2, DomainIs
  <2>2. \E i \in places : w.public[i] = matching[k]
      BY <1>2
  <2> HIDE DEF matching
  <2> QED BY <2>1, <2>2
<1>4. IsFiniteSet(D) /\ Strict(D, order)
  <2>1. \A e \in Page : Rates(e)
      BY DEF Page, Rates
  <2> HIDE DEF matching
  <2> QED BY <1>2, <2>1, DomainIs, HigherSorts
<1>5. sorted \in Seq(Linked)
  <2> HIDE DEF matching, D, order, Linked
  <2> QED BY <1>3, <1>4, ArrangedIs
<1>6. Matches(w, n) = First(sorted, n)
    BY DEF Matches
<1> HIDE DEF sorted, Linked
<1>7. Matches(w, n) \in Seq(Linked)
    BY <1>5, <1>6, FirstIs
<1>8. \A e \in Linked : e \in Page /\ e.link \in Links
    BY DEF Linked, Page
<1> QED BY <1>7, <1>8

LEMMA CandidatesType == ASSUME NEW w \in Webs, NEW o \in Options PROVE Candidates(w, o) \in Seq(Version)
<1> DEFINE n == ProbeLimit(o)
           pages == Matches(w, n)
           candidate(i, j) == [doc |-> WellKnown[pages[i].link][j], title |-> pages[i].title,
                               score |-> pages[i].score]
           list(i) == [j \in DOMAIN WellKnown[pages[i].link] |-> candidate(i, j)]
           lists == [i \in DOMAIN pages |-> list(i)]
<1>1. n \in Nat
    BY OptionAssumption DEF ProbeLimit
<1>2. pages \in Seq(Page) /\ \A i \in DOMAIN pages : pages[i].link \in Links
  <2> HIDE DEF n
  <2> QED BY <1>1, MatchesType
<1> HIDE DEF pages
<1>3. \A i \in DOMAIN pages : list(i) \in Seq(Version)
  <2> SUFFICES ASSUME NEW i \in DOMAIN pages PROVE list(i) \in Seq(Version)
      OBVIOUS
  <2> DEFINE docs == WellKnown[pages[i].link]
  <2>1. docs \in Seq(Nat)
    <3>1. docs \in Seq(Nat \ {0})
        BY <1>2, ProbeAssumption
    <3> QED BY <3>1
  <2>2. pages[i] \in Page
      BY <1>2
  <2>3. pages[i].title \in Nat /\ pages[i].score \in Nat
      BY <2>2 DEF Page
  <2>4. \A j \in DOMAIN docs : candidate(i, j) \in Version
    <3> HIDE DEF docs
    <3>1. \A j \in DOMAIN docs : docs[j] \in Nat
        BY <2>1
    <3> QED BY <2>3, <3>1 DEF Version, docs
  <2> HIDE DEF candidate
  <2> QED BY <2>1, <2>4
<1>4. PICK m \in Nat : DOMAIN pages = 1..m
    BY <1>2
<1>5. DOMAIN lists = 1..m /\ \A i \in 1..m : lists[i] \in Seq(Version)
  <2> HIDE DEF list
  <2> QED BY <1>3, <1>4
<1>6. Candidates(w, o) = Concat(lists)
    BY DEF Candidates, pages
<1> HIDE DEF lists
<1> QED BY <1>4, <1>5, <1>6, ConcatType

\* What there is to probe depends on the key alone.
LEMMA CandidatesAreKeyed ==
    ASSUME NEW w, NEW o \in Options, NEW p \in Options, Key(o) = Key(p)
    PROVE  Candidates(w, o) = Candidates(w, p)
<1>1. o.limit = p.limit /\ o.probe = p.probe
    BY DEF Key
<1> QED BY <1>1 DEF Candidates, ProbeLimit

(***************************************************************************)
(* A web: what the sources answer and what there is to probe.              *)
(***************************************************************************)
Web(ans, prb) ==
    /\ \A o \in Options, kind \in Kinds : Sound(ans[o.limit][kind], ans[Everything][kind], o.limit)
    /\ \A o \in Options : prb[o] \in Seq(Version)
    /\ \A o, p \in Options : Key(o) = Key(p) => prb[o] = prb[p]

LEMMA WebIs == ASSUME NEW w \in Webs PROVE Web(AnswersOf(w), ProbesOf(w))
<1> DEFINE Limits == {o.limit : o \in Options} \cup {Everything}
           public == IF "public-apis" \in w.garbled THEN Garbled ELSE Answer(<<>>)
           answer(limit, kind) ==
               CASE kind = "apis-guru" -> SearchAPIsGuru(w, limit)
                 [] kind = "lap-registry" -> SearchLAPRegistry(w, limit)
                 [] kind = "rfc9727" -> SearchRFC9727(w, limit)
                 [] kind = "public-apis" -> public
           ans == AnswersOf(w)
           prb == ProbesOf(w)
<1>1. \A limit \in Limits, kind \in Kinds : ans[limit][kind] = answer(limit, kind)
    BY DEF AnswersOf
<1> HIDE DEF ans
<1>2. \A o \in Options, kind \in Kinds : Sound(ans[o.limit][kind], ans[Everything][kind], o.limit)
  <2> SUFFICES ASSUME NEW o \in Options, NEW kind \in Kinds
               PROVE  Sound(ans[o.limit][kind], ans[Everything][kind], o.limit)
      OBVIOUS
  <2> DEFINE limit == o.limit
  <2>1. limit \in Nat /\ limit \in Limits /\ Everything \in Limits
      BY OptionAssumption
  <2> HIDE DEF limit, Limits, answer
  <2>2. ans[limit][kind] = answer(limit, kind) /\ ans[Everything][kind] = answer(Everything, kind)
      BY <1>1, <2>1
  <2>3. Sound(answer(limit, kind), answer(Everything, kind), limit)
    <3>1. CASE kind = "apis-guru"
        BY <2>1, <3>1, GuruIsSound DEF answer
    <3>2. CASE kind = "lap-registry"
        BY <2>1, <3>2, LAPIsSound DEF answer
    <3>3. CASE kind = "rfc9727"
        BY <2>1, <3>3, RFCIsSound DEF answer
    <3>4. CASE kind = "public-apis"
        BY <2>1, <3>4, FailuresAreSound DEF answer
    <3> QED BY <3>1, <3>2, <3>3, <3>4 DEF Kinds
  <2> QED BY <2>2, <2>3 DEF limit
<1>3. \A o \in Options : prb[o] = Candidates(w, o)
    BY DEF ProbesOf
<1> HIDE DEF prb
<1>4. \A o \in Options : prb[o] \in Seq(Version)
    BY <1>3, CandidatesType
<1>5. \A o, p \in Options : Key(o) = Key(p) => prb[o] = prb[p]
    BY <1>3, CandidatesAreKeyed
<1> QED BY <1>2, <1>4, <1>5 DEF Web, ans, prb

(***************************************************************************)
(* The types of the callers and of the cache.                              *)
(***************************************************************************)
Said == [source : Kinds \cup {"cache"}, doc : Nat, status : {"pass", "fail", "miss"}]
Reports == [results : Seq(Results), attempts : Seq(Said), error : BOOLEAN]
Records == [results : Seq(Results), attempts : Seq(Said)]
Probing == [todo : Seq(Version), seen : SUBSET Nat, over : BOOLEAN]
Stages == Kinds \cup {"idle", "load", "check", "download", "store"}

Cached(records) == DOMAIN records \subseteq Keys /\ records \in [DOMAIN records -> Records]
SearchTyped ==
    /\ stage \in [Callers -> Stages]
    /\ opts \in [Callers -> Options]
    /\ report \in [Callers -> Reports]
    /\ probing \in [Callers -> Probing]
    /\ Cached(cache)

\* The state of one caller: its stage, options, report and probes.
Caller(at, o, r, p) == at \in Stages /\ o \in Options /\ r \in Reports /\ p \in Probing

LEMMA FirstSourceType == ASSUME NEW o \in Options PROVE FirstSource(o) \in Kinds
BY OptionAssumption DEF FirstSource, Kinds

LEMMA EmptyType == Empty \in Reports /\ NoProbes \in Probing
<1>1. <<>> \in Seq(Results) /\ <<>> \in Seq(Said) /\ <<>> \in Seq(Version)
    OBVIOUS
<1> QED BY <1>1 DEF Empty, NoProbes, Reports, Probing

LEMMA TypedInit == SearchInit => SearchTyped /\ Web(answers, probes)
<1> SUFFICES ASSUME SearchInit PROVE SearchTyped /\ Web(answers, probes)
    OBVIOUS
<1>1. Web(answers, probes)
    BY WebIs DEF SearchInit
<1>2. (CHOOSE o \in Options : TRUE) \in Options
    BY OptionAssumption
<1>3. stage \in [Callers -> Stages] /\ opts \in [Callers -> Options]
    BY <1>2 DEF SearchInit, Stages
<1>4. report \in [Callers -> Reports] /\ probing \in [Callers -> Probing]
    BY EmptyType DEF SearchInit
<1>5. Cached(cache)
    BY DEF SearchInit, Cached
<1> QED BY <1>1, <1>3, <1>4, <1>5 DEF SearchTyped

\* A report with one more attempt, other results, or an error.
LEMMA AttemptType ==
    ASSUME NEW source \in Kinds \cup {"cache"}, NEW doc \in Nat, NEW status \in {"pass", "fail", "miss"}
    PROVE  Attempt(source, doc, status) \in Said
BY DEF Attempt, Said

LEMMA AppendIs ==
    ASSUME NEW V, NEW s \in Seq(V), NEW e \in V
    PROVE  /\ Append(s, e) \in Seq(V) /\ Len(Append(s, e)) = Len(s) + 1
           /\ ToSet(Append(s, e)) = ToSet(s) \cup {e}
<1> DEFINE t == Append(s, e)
<1>1. t \in Seq(V) /\ Len(t) = Len(s) + 1 /\ DOMAIN t = 1..(Len(s) + 1) /\ DOMAIN s = 1..Len(s)
      /\ Len(s) \in Nat
    OBVIOUS
<1>2. t[Len(s) + 1] = e /\ \A i \in DOMAIN s : t[i] = s[i]
    OBVIOUS
<1> HIDE DEF t
<1>3. \A i \in DOMAIN t : i \in DOMAIN s \/ i = Len(s) + 1
    BY <1>1
<1>4. DOMAIN s \subseteq DOMAIN t /\ Len(s) + 1 \in DOMAIN t
    BY <1>1
<1>5. ToSet(t) = ToSet(s) \cup {e}
    BY <1>2, <1>3, <1>4 DEF ToSet
<1> QED BY <1>1, <1>5 DEF t

LEMMA PrefixIs ==
    ASSUME NEW V, NEW s \in Seq(V), NEW e \in V
    PROVE  <<e>> \o s \in Seq(V) /\ ToSet(s) \subseteq ToSet(<<e>> \o s)
<1> DEFINE t == <<e>> \o s
<1>1. t \in Seq(V) /\ DOMAIN t = 1..(Len(s) + 1) /\ DOMAIN s = 1..Len(s) /\ Len(s) \in Nat
    OBVIOUS
<1>2. \A i \in DOMAIN s : i + 1 \in DOMAIN t /\ t[i + 1] = s[i]
    BY <1>1
<1> HIDE DEF t
<1>3. ToSet(s) \subseteq ToSet(t)
    BY <1>2 DEF ToSet
<1> QED BY <1>1, <1>3 DEF t

LEMMA TailIs ==
    ASSUME NEW V, NEW s \in Seq(V), s # <<>>
    PROVE  /\ Head(s) \in V /\ Tail(s) \in Seq(V)
           /\ ToSet(s) = {Head(s)} \cup ToSet(Tail(s))
<1> DEFINE t == Tail(s)
<1>1. t \in Seq(V) /\ DOMAIN t = 1..(Len(s) - 1) /\ DOMAIN s = 1..Len(s) /\ Len(s) \in Nat \ {0}
    OBVIOUS
<1>2. Head(s) = s[1] /\ 1 \in DOMAIN s /\ s[1] \in V
    BY <1>1
<1>3. \A i \in DOMAIN t : i + 1 \in DOMAIN s /\ t[i] = s[i + 1]
    BY <1>1
<1>4. \A i \in DOMAIN s : i = 1 \/ (i - 1 \in DOMAIN t /\ s[i] = t[i - 1])
    BY <1>1
<1> HIDE DEF t
<1>5. ToSet(s) = {Head(s)} \cup ToSet(t)
    BY <1>2, <1>3, <1>4 DEF ToSet
<1> QED BY <1>1, <1>2, <1>5 DEF t

\* The results in their order: the same documents, once each when they were once each.
Docs(r) == {r.results[i].doc : i \in DOMAIN r.results}
Once(r) == IsInjective([i \in DOMAIN r.results |-> r.results[i].doc])

LEMMA OnceIs ==
    ASSUME NEW r
    PROVE  Once(r) <=> \A i, j \in DOMAIN r.results : r.results[i].doc = r.results[j].doc => i = j
BY DEF Once, IsInjective

(***************************************************************************)
(* The inductive invariant.  Its parts are operators of the answers and of *)
(* what there is to probe, which no step changes.                          *)
(***************************************************************************)
Fruitful(ans, r, source) ==
    ~(Says(r, source, 0, "fail") \/ (Says(r, source, 0, "pass") /\ ans[Everything][source].results = <<>>))
Missed(ans, r, o, n) == \A i \in 1..(n - 1) : ~Fruitful(ans, r, Sources(o)[i])
Whole(ans, prb, r, source, o) ==
    IF source # "public-apis" THEN r.results = First(ans[Everything][source].results, o.limit)
    ELSE /\ Docs(r) \subseteq Valid /\ Once(r)
         /\ \/ Len(r.results) = o.limit
            \/ \A e \in ToSet(prb[o]) : e.doc \in Docs(r) \/ Says(r, source, e.doc, "fail")
Justified(ans, prb, r, o) ==
    \E n \in DOMAIN Sources(o) :
        /\ Missed(ans, r, o, n)
        /\ Says(r, Sources(o)[n], 0, "pass")
        /\ Whole(ans, prb, r, Sources(o)[n], o)

\* It is the turn of a source: those before it had nothing.
Turn(ans, r, o, source) ==
    ~r.error /\ \E n \in DOMAIN Sources(o) : Sources(o)[n] = source /\ Missed(ans, r, o, n)

\* What the probes so far have found, and what became of each document tried.
Probed(prb, at, o, r, p) ==
    /\ Docs(r) \subseteq Valid \cap p.seen
    /\ Once(r)
    /\ Len(r.results) < o.limit
    /\ \A e \in ToSet(prb[o]) : e \in ToSet(p.todo) \/ e.doc \in p.seen
    /\ \A doc \in p.seen :
          \/ doc \in Docs(r) \/ Says(r, "public-apis", doc, "fail")
          \/ at = "download" /\ doc = Head(p.todo).doc
    /\ at = "download" => p.todo # <<>> /\ Head(p.todo).doc \in p.seen \ Docs(r)

Progress(ans, prb, at, o, r, p) ==
    /\ at = "load" => r = Empty /\ p.seen = {}
    /\ at \in Kinds => Turn(ans, r, o, at) /\ r.results = <<>> /\ p.seen = {}
    /\ at \in {"check", "download"} =>
          /\ Turn(ans, r, o, "public-apis")
          /\ Says(r, "public-apis", 0, "pass")
          /\ Probed(prb, at, o, r, p)
    /\ at = "store" => r.error \/ Justified(ans, prb, r, o)
    /\ at = "idle" => \/ r = Empty \/ r.error \/ Justified(ans, prb, r, o)
                      \/ o.mode = "offline" /\ r.results = <<>>

Justifies(ans, prb, records) ==
    \A k \in DOMAIN records : \E o \in Options : Key(o) = k /\ Justified(ans, prb, records[k], o)
SearchInv ==
    /\ SearchTyped
    /\ Web(answers, probes)
    /\ Justifies(answers, probes, cache)
    /\ \A c \in Callers : Progress(answers, probes, stage[c], opts[c], report[c], probing[c])

LEMMA JustifiedIs == ASSUME NEW r, NEW o PROVE Justified(answers, probes, r, o) <=> Explained(r, o)
<1>1. \A source : ~Fruitful(answers, r, source) <=> Fruitless(r, source)
    BY DEF Fruitful, Fruitless, Full
<1>2. \A source : Whole(answers, probes, r, source, o) <=> Complete(r, source, o)
    BY DEF Whole, Complete, Docs, Once, Full
<1> HIDE DEF Fruitful, Whole
<1> QED BY <1>1, <1>2 DEF Justified, Explained, Missed

\* The sources of a search, in their order.
LEMMA SourcesAre ==
    ASSUME NEW o \in Options
    PROVE  /\ 1 \in DOMAIN Sources(o) /\ Sources(o)[1] = FirstSource(o)
           /\ \A n \in DOMAIN Sources(o) :
                 /\ n \in Nat /\ n >= 1 /\ Sources(o)[n] \in Kinds
                 /\ Sources(o)[n] = "rfc9727" => o.provider \/ o.source # "auto"
                 /\ o.source = "auto" /\ Sources(o)[n] # "public-apis" =>
                       n + 1 \in DOMAIN Sources(o) /\ Sources(o)[n + 1] = NextSource(o, Sources(o)[n])
<1>1. o.source \in Kinds \cup {"auto"} /\ o.provider \in BOOLEAN
    BY OptionAssumption
<1>2. CASE o.source # "auto"
  <2>1. Sources(o) = <<o.source>>
      BY <1>2 DEF Sources
  <2> QED BY <1>1, <1>2, <2>1 DEF FirstSource
<1>3. CASE o.source = "auto" /\ o.provider
  <2>1. Sources(o) = <<"apis-guru", "lap-registry", "rfc9727", "public-apis">>
      BY <1>3 DEF Sources
  <2>2. DOMAIN Sources(o) = 1..4
      BY <2>1
  <2> QED BY <1>3, <2>1, <2>2 DEF FirstSource, NextSource, Kinds
<1>4. CASE o.source = "auto" /\ ~o.provider
  <2>1. Sources(o) = <<"apis-guru", "lap-registry", "public-apis">>
      BY <1>4 DEF Sources
  <2>2. DOMAIN Sources(o) = 1..3
      BY <2>1
  <2> QED BY <1>4, <2>1, <2>2 DEF FirstSource, NextSource, Kinds
<1> QED BY <1>1, <1>2, <1>3, <1>4

\* Attempts are only added.
LEMMA MissedMore ==
    ASSUME NEW ans, NEW r, NEW q, NEW o, NEW n,
           ToSet(r.attempts) \subseteq ToSet(q.attempts), Missed(ans, r, o, n)
    PROVE  Missed(ans, q, o, n)
<1>1. \A source, doc, status : Says(r, source, doc, status) => Says(q, source, doc, status)
    BY DEF Says
<1> QED BY <1>1 DEF Missed, Fruitful

LEMMA TurnMore ==
    ASSUME NEW ans, NEW r, NEW q, NEW o, NEW source,
           ToSet(r.attempts) \subseteq ToSet(q.attempts), Turn(ans, r, o, source), ~q.error
    PROVE  Turn(ans, q, o, source)
BY MissedMore DEF Turn

LEMMA JustifiedMore ==
    ASSUME NEW ans, NEW prb, NEW r, NEW q, NEW o,
           ToSet(r.attempts) \subseteq ToSet(q.attempts), r.results = q.results,
           Justified(ans, prb, r, o)
    PROVE  Justified(ans, prb, q, o)
<1>1. \A source, doc, status : Says(r, source, doc, status) => Says(q, source, doc, status)
    BY DEF Says
<1>2. \A source : Whole(ans, prb, r, source, o) => Whole(ans, prb, q, source, o)
    BY <1>1 DEF Whole, Docs, Once
<1> HIDE DEF Whole, Missed
<1> QED BY <1>1, <1>2, MissedMore DEF Justified

\* Two searches of one key have the same report.
LEMMA JustifiedKeyed ==
    ASSUME NEW ans, NEW prb, Web(ans, prb), NEW r, NEW o \in Options, NEW u \in Options,
           Key(o) = Key(u), Justified(ans, prb, r, o)
    PROVE  Justified(ans, prb, r, u)
<1>1. o.source = u.source /\ o.provider = u.provider /\ o.limit = u.limit
    BY DEF Key
<1>2. Sources(o) = Sources(u)
    BY <1>1 DEF Sources
<1>3. prb[o] = prb[u]
    BY DEF Web
<1>4. \A n : Missed(ans, r, o, n) => Missed(ans, r, u, n)
    BY <1>2 DEF Missed
<1>5. \A source : Whole(ans, prb, r, source, o) => Whole(ans, prb, r, source, u)
    BY <1>1, <1>3 DEF Whole
<1> QED BY <1>2, <1>4, <1>5 DEF Justified

\* A source that had nothing hands over to the next one.
LEMMA TurnPasses ==
    ASSUME NEW ans, NEW r, NEW o \in Options, o.source = "auto", NEW source, source # "public-apis",
           Turn(ans, r, o, source), ~Fruitful(ans, r, source)
    PROVE  Turn(ans, r, o, NextSource(o, source))
<1>1. PICK n \in DOMAIN Sources(o) : Sources(o)[n] = source /\ Missed(ans, r, o, n)
    BY DEF Turn
<1>2. n \in Nat /\ n >= 1 /\ n + 1 \in DOMAIN Sources(o) /\ Sources(o)[n + 1] = NextSource(o, source)
    BY <1>1, SourcesAre
<1>3. Missed(ans, r, o, n + 1)
  <2> SUFFICES ASSUME NEW i \in 1..n PROVE ~Fruitful(ans, r, Sources(o)[i])
      BY <1>2 DEF Missed
  <2>1. i = n \/ i \in 1..(n - 1)
      BY <1>2
  <2> HIDE DEF Fruitful
  <2> QED BY <1>1, <2>1 DEF Missed
<1> QED BY <1>2, <1>3 DEF Turn

LEMMA TurnJustifies ==
    ASSUME NEW ans, NEW prb, NEW r, NEW o, NEW source, Turn(ans, r, o, source),
           Says(r, source, 0, "pass"), Whole(ans, prb, r, source, o)
    PROVE  Justified(ans, prb, r, o)
<1> HIDE DEF Whole, Missed
<1> QED BY DEF Turn, Justified

\* A report after an attempt.
Noted(r, source, doc, status) == [r EXCEPT !.attempts = Append(r.attempts, Attempt(source, doc, status))]

LEMMA NotedIs ==
    ASSUME NEW r \in Reports, NEW source \in Kinds, NEW doc \in Nat, NEW status \in {"pass", "fail"}
    PROVE  LET q == Noted(r, source, doc, status) IN
           /\ q \in Reports /\ q.results = r.results /\ q.error = r.error
           /\ q.attempts = Append(r.attempts, Attempt(source, doc, status))
           /\ ToSet(r.attempts) \subseteq ToSet(q.attempts)
           /\ Says(q, source, doc, status)
<1> DEFINE a == Attempt(source, doc, status)
           q == Noted(r, source, doc, status)
           more == Append(r.attempts, a)
<1>1. r.results \in Seq(Results) /\ r.attempts \in Seq(Said) /\ r.error \in BOOLEAN
      /\ r = [results |-> r.results, attempts |-> r.attempts, error |-> r.error]
    BY DEF Reports
<1>2. a \in Said
    BY AttemptType
<1>3. more \in Seq(Said) /\ ToSet(more) = ToSet(r.attempts) \cup {a}
  <2> HIDE DEF a
  <2> QED BY <1>1, <1>2, AppendIs
<1>4. q = [r EXCEPT !.attempts = more]
    BY DEF Noted
<1> HIDE DEF more, q
<1>5. q = [results |-> r.results, attempts |-> more, error |-> r.error]
    BY <1>1, <1>4
<1>6. q \in Reports
    BY <1>1, <1>3, <1>5 DEF Reports
<1>7. a \in ToSet(q.attempts)
    BY <1>3, <1>5
<1> QED BY <1>3, <1>5, <1>6, <1>7 DEF q, Says, a, more

\* A source that is asked once.
LEMMA ConcludeStep ==
    ASSUME NEW ans, NEW prb, NEW o \in Options, NEW r \in Reports, NEW p \in Probing,
           NEW source \in Kinds, source # "public-apis",
           Progress(ans, prb, source, o, r, p),
           NEW answer,
           \/ Sound(answer, ans[Everything][source], o.limit)
           \/ answer = Failed
           \/ answer = NotAsked /\ source = "rfc9727" /\ ~o.provider
    PROVE  LET said == [r EXCEPT !.attempts =
                           IF answer.status = "none" THEN r.attempts
                           ELSE Append(r.attempts, Attempt(source, 0, answer.status))]
               told == [said EXCEPT !.results = answer.results, !.error = answer.failed]
           IN /\ said \in Reports /\ told \in Reports
              /\ o.source = "auto" /\ answer.results = <<>> =>
                    Progress(ans, prb, NextSource(o, source), o, said, p)
              /\ o.source # "auto" \/ answer.results # <<>> => Progress(ans, prb, "store", o, told, p)
<1> DEFINE said == [r EXCEPT !.attempts =
                       IF answer.status = "none" THEN r.attempts
                       ELSE Append(r.attempts, Attempt(source, 0, answer.status))]
           told == [said EXCEPT !.results = answer.results, !.error = answer.failed]
<1>1. Turn(ans, r, o, source) /\ r.results = <<>> /\ p.seen = {} /\ ~r.error
    BY DEF Progress, Turn
<1>2. answer.status \in {"pass", "fail", "none"} /\ answer.results \in Seq(Results) /\ answer.failed \in BOOLEAN
  <2>0. <<>> \in Seq(Results)
      OBVIOUS
  <2>1. CASE Sound(answer, ans[Everything][source], o.limit)
    <3>1. answer \in Answers
        BY <2>1 DEF Sound
    <3> QED BY <3>1 DEF Answers
  <2>2. CASE answer = Failed
    <3>1. answer.status = "fail" /\ answer.results = <<>> /\ answer.failed = TRUE
        BY <2>2 DEF Failed
    <3> QED BY <2>0, <3>1
  <2>3. CASE answer = NotAsked
    <3>1. answer.status = "none" /\ answer.results = <<>> /\ answer.failed = TRUE
        BY <2>3 DEF NotAsked
    <3> QED BY <2>0, <3>1
  <2> QED BY <2>1, <2>2, <2>3
<1>3. /\ said \in Reports /\ said.results = <<>> /\ ~said.error
      /\ ToSet(r.attempts) \subseteq ToSet(said.attempts)
      /\ answer.status = "none" \/ Says(said, source, 0, answer.status)
  <2>1. CASE answer.status = "none"
    <3>1. said = r
        BY <2>1 DEF Reports
    <3> HIDE DEF said
    <3> QED BY <1>1, <2>1, <3>1
  <2>2. CASE answer.status # "none"
    <3> DEFINE status == answer.status
               q == Noted(r, source, 0, status)
    <3>1. said = q
        BY <2>2 DEF Noted
    <3>2. status \in {"pass", "fail"} /\ 0 \in Nat
        BY <1>2, <2>2
    <3> HIDE DEF said, status
    <3>3. /\ q \in Reports /\ q.results = r.results /\ q.error = r.error
          /\ ToSet(r.attempts) \subseteq ToSet(q.attempts) /\ Says(q, source, 0, status)
        BY <3>2, NotedIs
    <3> HIDE DEF q
    <3> QED BY <1>1, <3>1, <3>3 DEF status
  <2> QED BY <2>1, <2>2
<1>4. /\ told \in Reports /\ told.attempts = said.attempts
      /\ told.results = answer.results /\ told.error = answer.failed
  <2> HIDE DEF said
  <2>0. said = [results |-> said.results, attempts |-> said.attempts, error |-> said.error]
      BY <1>3 DEF Reports
  <2>1. told = [results |-> answer.results, attempts |-> said.attempts, error |-> answer.failed]
    <3> DEFINE a == said.attempts
               b == said.error
               x == said.results
               y == answer.results
               z == answer.failed
    <3>1. said = [results |-> x, attempts |-> a, error |-> b]
        BY <2>0
    <3> HIDE DEF a, b, x, y, z
    <3> DEFINE half == [said EXCEPT !.results = y]
    <3>2. half = [results |-> y, attempts |-> a, error |-> b]
        BY <3>1
    <3> HIDE DEF half
    <3>3. [half EXCEPT !.error = z] = [results |-> y, attempts |-> a, error |-> z]
        BY <3>2
    <3> QED BY <3>3 DEF a, y, z, half
  <2>2. said.attempts \in Seq(Said)
      BY <1>3 DEF Reports
  <2> HIDE DEF told
  <2> QED BY <1>2, <2>1, <2>2 DEF Reports
<1> HIDE DEF said, told
<1>5. Turn(ans, said, o, source)
    BY <1>1, <1>3, TurnMore
<1>6. ASSUME o.source = "auto", answer.results = <<>>
      PROVE  Progress(ans, prb, NextSource(o, source), o, said, p)
  <2>1. answer.status # "none"
    <3>1. source = "rfc9727" => o.provider
        BY <1>1, <1>6, SourcesAre DEF Turn
    <3> QED BY <3>1 DEF Sound, Answers, Failed
  <2>2. ~Fruitful(ans, said, source)
    <3>1. CASE answer.status = "fail"
        BY <1>3, <3>1 DEF Fruitful
    <3>2. CASE answer.status = "pass"
      <4>1. ans[Everything][source].results = <<>>
          BY <1>6, <3>2 DEF Sound, Failed, NotAsked
      <4> QED BY <1>3, <3>2, <4>1 DEF Fruitful
    <3> QED BY <1>2, <2>1, <3>1, <3>2
  <2>3. Turn(ans, said, o, NextSource(o, source)) /\ NextSource(o, source) \in Kinds
      BY <1>5, <1>6, <2>2, TurnPasses DEF NextSource, Kinds
  <2>4. NextSource(o, source) \notin {"load", "check", "download", "store", "idle"}
      BY <2>3 DEF Kinds
  <2> QED BY <1>1, <1>3, <2>3, <2>4 DEF Progress
<1>7. Progress(ans, prb, "store", o, told, p)
  <2>1. CASE answer.failed
    <3>1. told.error
        BY <1>4, <2>1
    <3> QED BY <3>1 DEF Progress, Kinds
  <2>2. CASE ~answer.failed
    <3>1. Sound(answer, ans[Everything][source], o.limit)
        BY <2>2 DEF Failed, NotAsked
    <3>2. answer.status = "pass" /\ answer.results = First(ans[Everything][source].results, o.limit)
        BY <2>2, <3>1 DEF Sound
    <3>3. Says(told, source, 0, "pass")
        BY <1>3, <1>4, <3>2 DEF Says
    <3>4. Turn(ans, told, o, source)
        BY <1>4, <1>5, <2>2, TurnMore
    <3>5. Whole(ans, prb, told, source, o)
        BY <1>4, <3>2 DEF Whole
    <3>6. Justified(ans, prb, told, o)
        BY <3>3, <3>4, <3>5, TurnJustifies
    <3> QED BY <3>6 DEF Progress, Kinds
  <2> QED BY <2>1, <2>2
<1> QED BY <1>3, <1>4, <1>6, <1>7 DEF said, told

LEMMA DocType ==
    ASSUME NEW p \in Probing, p.todo # <<>>
    PROVE  /\ Head(p.todo) \in Version /\ Head(p.todo).doc \in Nat
           /\ Tail(p.todo) \in Seq(Version) /\ ToSet(p.todo) = {Head(p.todo)} \cup ToSet(Tail(p.todo))
<1> DEFINE s == p.todo
<1>1. s \in Seq(Version) /\ s # <<>>
    BY DEF Probing
<1> HIDE DEF s
<1>2. Head(s) \in Version /\ Tail(s) \in Seq(Version) /\ ToSet(s) = {Head(s)} \cup ToSet(Tail(s))
    BY <1>1, TailIs
<1>3. Head(s).doc \in Nat
    BY <1>2 DEF Version
<1> QED BY <1>2, <1>3 DEF s

\* The probes begin.
LEMMA PublicStep ==
    ASSUME NEW ans, NEW prb, Web(ans, prb), NEW o \in Options, NEW r \in Reports, NEW p \in Probing,
           Progress(ans, prb, "public-apis", o, r, p)
    PROVE  LET q == Noted(r, "public-apis", 0, "pass")
               u == [p EXCEPT !.todo = prb[o]]
           IN q \in Reports /\ u \in Probing /\ Progress(ans, prb, "check", o, q, u)
<1> DEFINE q == Noted(r, "public-apis", 0, "pass")
           u == [p EXCEPT !.todo = prb[o]]
<1>1. Turn(ans, r, o, "public-apis") /\ r.results = <<>> /\ p.seen = {} /\ ~r.error
    BY DEF Progress, Kinds, Turn
<1>2. /\ q \in Reports /\ q.results = r.results /\ q.error = r.error
      /\ ToSet(r.attempts) \subseteq ToSet(q.attempts) /\ Says(q, "public-apis", 0, "pass")
    BY NotedIs DEF Kinds
<1>3. u \in Probing /\ u.todo = prb[o] /\ u.seen = {}
  <2>1. prb[o] \in Seq(Version)
      BY DEF Web
  <2> QED BY <1>1, <2>1 DEF Probing
<1> HIDE DEF q, u
<1>4. Turn(ans, q, o, "public-apis")
    BY <1>1, <1>2, TurnMore
<1>5. Probed(prb, "check", o, q, u)
  <2>1. q.results = <<>> /\ DOMAIN q.results = {} /\ Len(q.results) = 0
      BY <1>1, <1>2
  <2>2. Docs(q) = {} /\ Once(q)
      BY <2>1, OnceIs DEF Docs
  <2>3. o.limit \in Nat \ {0}
      BY OptionAssumption
  <2>4. Len(q.results) < o.limit
      BY <2>1, <2>3
  <2> QED BY <1>3, <2>2, <2>4 DEF Probed
<1>6. Progress(ans, prb, "check", o, q, u)
    BY <1>2, <1>4, <1>5 DEF Progress, Kinds
<1> QED BY <1>2, <1>3, <1>6 DEF q, u

\* Sorting a report changes nothing else about it.
LEMMA SortedReport ==
    ASSUME NEW r \in Reports
    PROVE  LET q == [r EXCEPT !.results = SortResults(r.results)] IN
           /\ q \in Reports /\ q.attempts = r.attempts /\ q.error = r.error
           /\ Docs(q) = Docs(r) /\ (Once(r) => Once(q)) /\ Len(q.results) = Len(r.results)
<1> DEFINE s == r.results
           t == SortResults(s)
           q == [r EXCEPT !.results = t]
<1>1. s \in Seq(Results) /\ r \in [results : Seq(Results), attempts : Seq(Said), error : BOOLEAN]
    BY DEF Reports
<1>2. \A e \in Results : Rates(e) /\ e.doc \in Nat
    BY DEF Results, Rates
<1>3. t \in Seq(Results) /\ Rearranges(s, t)
  <2> HIDE DEF s
  <2> QED BY <1>1, <1>2, BestFirst
<1> HIDE DEF t
<1>4. q \in Reports /\ q.results = t /\ q.attempts = r.attempts /\ q.error = r.error
    BY <1>1, <1>3 DEF Reports
<1> HIDE DEF q
<1>5. Len(t) = Len(s)
    BY <1>3 DEF Rearranges
<1>6. PICK at \in [DOMAIN s -> DOMAIN s] :
          /\ \A k \in DOMAIN s : t[k] = s[at[k]]
          /\ \A j, k \in DOMAIN s : at[j] = at[k] => j = k
          /\ \A i \in DOMAIN s : \E k \in DOMAIN s : at[k] = i
    BY <1>3 DEF Rearranges
<1>7. DOMAIN t = DOMAIN s
    BY <1>1, <1>3, <1>5, DomainIs
<1>8. Docs(q) = Docs(r)
  <2>1. \A k \in DOMAIN t : \E i \in DOMAIN s : t[k].doc = s[i].doc
      BY <1>6, <1>7
  <2>2. \A i \in DOMAIN s : \E k \in DOMAIN t : t[k].doc = s[i].doc
      BY <1>6, <1>7
  <2> HIDE DEF s
  <2>3. {t[k].doc : k \in DOMAIN t} = {s[i].doc : i \in DOMAIN s}
      BY <2>1, <2>2
  <2> QED BY <1>4, <2>3 DEF Docs, s
<1>9. Once(r) => Once(q)
  <2> SUFFICES ASSUME Once(r), NEW j \in DOMAIN t, NEW k \in DOMAIN t, t[j].doc = t[k].doc PROVE j = k
      BY <1>4, OnceIs
  <2>1. at[j] \in DOMAIN s /\ at[k] \in DOMAIN s /\ s[at[j]].doc = s[at[k]].doc
      BY <1>6, <1>7
  <2>2. at[j] = at[k]
      BY <2>1, OnceIs
  <2> QED BY <1>6, <1>7, <2>2
<1> QED BY <1>4, <1>5, <1>8, <1>9 DEF q, t

\* The probes end with a report that lacks nothing.
LEMMA FinishStep ==
    ASSUME NEW ans, NEW prb, NEW o, NEW r \in Reports, NEW p,
           Turn(ans, r, o, "public-apis"), Says(r, "public-apis", 0, "pass"),
           Docs(r) \subseteq Valid, Once(r),
           \/ Len(r.results) = o.limit
           \/ \A e \in ToSet(prb[o]) : e.doc \in Docs(r) \/ Says(r, "public-apis", e.doc, "fail")
    PROVE  LET q == [r EXCEPT !.results = SortResults(r.results)] IN
           q \in Reports /\ Progress(ans, prb, "store", o, q, p)
<1> DEFINE q == [r EXCEPT !.results = SortResults(r.results)]
<1>1. /\ q \in Reports /\ q.attempts = r.attempts /\ q.error = r.error
      /\ Docs(q) = Docs(r) /\ (Once(r) => Once(q)) /\ Len(q.results) = Len(r.results)
    BY SortedReport
<1> HIDE DEF q
<1>2. \A doc, status : Says(r, "public-apis", doc, status) => Says(q, "public-apis", doc, status)
    BY <1>1 DEF Says
<1>3. Turn(ans, q, o, "public-apis")
  <2>1. ~q.error
      BY <1>1 DEF Turn
  <2> QED BY <1>1, <2>1, TurnMore
<1>4. Whole(ans, prb, q, "public-apis", o)
    BY <1>1, <1>2 DEF Whole
<1>5. Justified(ans, prb, q, o)
    BY <1>2, <1>3, <1>4, TurnJustifies
<1> QED BY <1>1, <1>5 DEF Progress, Kinds, q

\* An error excuses a report.
LEMMA ExcusedStep ==
    ASSUME NEW ans, NEW prb, NEW o, NEW r, r.error, NEW p
    PROVE  Progress(ans, prb, "store", o, r, p)
BY DEF Progress, Kinds

\* Before a candidate.
LEMMA CheckDone ==
    ASSUME NEW ans, NEW prb, NEW o, NEW r \in Reports, NEW p \in Probing,
           Progress(ans, prb, "check", o, r, p), p.todo = <<>>
    PROVE  LET q == [r EXCEPT !.results = SortResults(r.results)] IN
           q \in Reports /\ Progress(ans, prb, "store", o, q, p)
<1>1. Turn(ans, r, o, "public-apis") /\ Says(r, "public-apis", 0, "pass") /\ Probed(prb, "check", o, r, p)
    BY DEF Progress
<1>2. Docs(r) \subseteq Valid /\ Once(r)
    BY <1>1 DEF Probed
<1>3. ToSet(p.todo) = {}
    BY DEF ToSet
<1>4. \A e \in ToSet(prb[o]) : e.doc \in Docs(r) \/ Says(r, "public-apis", e.doc, "fail")
    BY <1>1, <1>3 DEF Probed
<1> QED BY <1>1, <1>2, <1>4, FinishStep

LEMMA CheckNext ==
    ASSUME NEW ans, NEW prb, NEW o, NEW r \in Reports, NEW p \in Probing,
           Progress(ans, prb, "check", o, r, p), p.todo # <<>>
    PROVE  LET doc == Head(p.todo).doc
               u == [p EXCEPT !.seen = p.seen \cup {doc},
                              !.todo = IF doc \in p.seen THEN Tail(p.todo) ELSE p.todo]
           IN /\ u \in Probing
              /\ Progress(ans, prb, IF doc \in p.seen THEN "check" ELSE "download", o, r, u)
<1> DEFINE doc == Head(p.todo).doc
           rest == IF doc \in p.seen THEN Tail(p.todo) ELSE p.todo
           seen == p.seen \cup {doc}
           u == [p EXCEPT !.seen = seen, !.todo = rest]
           at == IF doc \in p.seen THEN "check" ELSE "download"
<1>1. Turn(ans, r, o, "public-apis") /\ Says(r, "public-apis", 0, "pass") /\ Probed(prb, "check", o, r, p)
    BY DEF Progress
<1>2. /\ doc \in Nat /\ Tail(p.todo) \in Seq(Version) /\ p.todo \in Seq(Version)
      /\ ToSet(p.todo) = {Head(p.todo)} \cup ToSet(Tail(p.todo))
    BY DocType DEF Probing
<1>3. u \in Probing /\ u.todo = rest /\ u.seen = seen
  <2>1. rest \in Seq(Version) /\ seen \in SUBSET Nat
      BY <1>2 DEF Probing
  <2> HIDE DEF rest, seen
  <2> QED BY <2>1 DEF Probing
<1> HIDE DEF u
<1>4. \A e \in ToSet(prb[o]) : e \in ToSet(rest) \/ e.doc \in seen
    BY <1>1, <1>2 DEF Probed
<1>5. \A d \in seen : d \in Docs(r) \/ Says(r, "public-apis", d, "fail") \/ (at = "download" /\ d = Head(rest).doc)
    BY <1>1 DEF Probed
<1>6. at = "download" => rest # <<>> /\ Head(rest).doc \in seen \ Docs(r)
    BY <1>1 DEF Probed
<1>7. Docs(r) \subseteq Valid \cap seen /\ Once(r) /\ Len(r.results) < o.limit
    BY <1>1 DEF Probed
<1> HIDE DEF rest, seen
<1>8. at \in {"check", "download"}
    OBVIOUS
<1> HIDE DEF at
<1>9. Probed(prb, at, o, r, u)
    BY <1>3, <1>4, <1>5, <1>6, <1>7 DEF Probed
<1>10. Progress(ans, prb, at, o, r, u)
    BY <1>1, <1>8, <1>9 DEF Progress, Kinds
<1> QED BY <1>3, <1>10 DEF u, at, rest, seen

\* A candidate is accepted: one document more.
Found(r, e) ==
    [r EXCEPT !.attempts = Append(r.attempts, Attempt("public-apis", e.doc, "pass")),
              !.results = Append(r.results, Result("public-apis", e, TRUE))]

LEMMA FoundIs ==
    ASSUME NEW r \in Reports, NEW e \in Version, e.doc \notin Docs(r), Once(r)
    PROVE  LET q == Found(r, e) IN
           /\ q \in Reports /\ q.error = r.error
           /\ ToSet(r.attempts) \subseteq ToSet(q.attempts)
           /\ Docs(q) = Docs(r) \cup {e.doc} /\ Once(q) /\ Len(q.results) = Len(r.results) + 1
<1> DEFINE a == Attempt("public-apis", e.doc, "pass")
           f == Result("public-apis", e, TRUE)
           s == r.results
           noted == Append(r.attempts, a)
           t == Append(s, f)
           half == [r EXCEPT !.attempts = noted]
           q == [half EXCEPT !.results = t]
<1>1. /\ s \in Seq(Results) /\ r.attempts \in Seq(Said) /\ r.error \in BOOLEAN
      /\ r = [results |-> s, attempts |-> r.attempts, error |-> r.error]
    BY DEF Reports
<1>2. e.doc \in Nat /\ e.title \in Nat /\ e.score \in Nat
    BY DEF Version
<1>3. a \in Said
    BY <1>2, AttemptType DEF Kinds
<1>4. f \in Results /\ f.doc = e.doc
    BY <1>2, ResultType DEF Kinds, Result
<1>5. noted \in Seq(Said) /\ ToSet(noted) = ToSet(r.attempts) \cup {a}
  <2> HIDE DEF a
  <2> QED BY <1>1, <1>3, AppendIs
<1>6. /\ t \in Seq(Results) /\ Len(t) = Len(s) + 1
      /\ DOMAIN s = 1..Len(s) /\ Len(s) \in Nat /\ DOMAIN t = 1..(Len(s) + 1)
      /\ t[Len(s) + 1] = f /\ \A i \in DOMAIN s : t[i] = s[i]
  <2> HIDE DEF f, s
  <2> QED BY <1>1, <1>4
<1>7. Found(r, e) = q
    BY DEF Found
<1> HIDE DEF a, f, noted, t
<1>8. q = [results |-> t, attempts |-> noted, error |-> r.error]
  <2>1. half = [results |-> s, attempts |-> noted, error |-> r.error]
      BY <1>1
  <2> HIDE DEF half
  <2> QED BY <2>1
<1> HIDE DEF q
<1>9. q \in Reports /\ q.results = t /\ q.attempts = noted /\ q.error = r.error
    BY <1>1, <1>5, <1>6, <1>8 DEF Reports
<1>10. Docs(q) = Docs(r) \cup {e.doc}
  <2>1. \A i \in DOMAIN t : i \in DOMAIN s \/ i = Len(s) + 1
      BY <1>6
  <2>2. DOMAIN s \subseteq DOMAIN t /\ Len(s) + 1 \in DOMAIN t
      BY <1>6
  <2>3. {t[i].doc : i \in DOMAIN t} = {s[i].doc : i \in DOMAIN s} \cup {e.doc}
    <3> HIDE DEF s
    <3> QED BY <1>4, <1>6, <2>1, <2>2
  <2> QED BY <1>9, <2>3 DEF Docs
<1>11. Once(q)
  <2> SUFFICES ASSUME NEW i \in DOMAIN t, NEW j \in DOMAIN t, t[i].doc = t[j].doc PROVE i = j
      BY <1>9, OnceIs
  <2>1. \A k \in DOMAIN s : s[k].doc # e.doc
      BY DEF Docs
  <2>2. \A k \in DOMAIN t : k \in DOMAIN s \/ (k = Len(s) + 1 /\ t[k].doc = e.doc)
      BY <1>4, <1>6
  <2>3. CASE i \in DOMAIN s /\ j \in DOMAIN s
    <3>1. s[i].doc = s[j].doc
        BY <1>6, <2>3
    <3> QED BY <2>3, <3>1, OnceIs
  <2>4. CASE i \notin DOMAIN s \/ j \notin DOMAIN s
      BY <1>6, <2>1, <2>2, <2>4
  <2> QED BY <2>3, <2>4
<1> QED BY <1>5, <1>6, <1>7, <1>9, <1>10, <1>11

\* The end of the download of a candidate.
LEMMA DownloadIs ==
    ASSUME NEW ans, NEW prb, NEW o, NEW r, NEW p \in Probing,
           Progress(ans, prb, "download", o, r, p)
    PROVE  LET e == Head(p.todo)
               u == [p EXCEPT !.todo = Tail(p.todo)]
           IN /\ Turn(ans, r, o, "public-apis") /\ Says(r, "public-apis", 0, "pass")
              /\ Docs(r) \subseteq Valid /\ Once(r) /\ Len(r.results) < o.limit
              /\ e \in Version /\ e.doc \in Nat /\ e.doc \notin Docs(r)
              /\ u \in Probing /\ u.seen = p.seen
              /\ \A q : /\ Docs(q) \subseteq Valid \cap (Docs(r) \cup {e.doc})
                        /\ Docs(r) \subseteq Docs(q) /\ Once(q) /\ Len(q.results) < o.limit
                        /\ ToSet(r.attempts) \subseteq ToSet(q.attempts)
                        /\ e.doc \in Docs(q) \/ Says(q, "public-apis", e.doc, "fail")
                        => Probed(prb, "check", o, q, u)
<1> DEFINE e == Head(p.todo)
           u == [p EXCEPT !.todo = Tail(p.todo)]
<1>1. Turn(ans, r, o, "public-apis") /\ Says(r, "public-apis", 0, "pass") /\ Probed(prb, "download", o, r, p)
    BY DEF Progress
<1>2. /\ Docs(r) \subseteq Valid /\ Docs(r) \subseteq p.seen /\ Once(r) /\ Len(r.results) < o.limit
      /\ p.todo # <<>> /\ e.doc \in p.seen \ Docs(r)
    BY <1>1 DEF Probed
<1>3. /\ e \in Version /\ e.doc \in Nat /\ Tail(p.todo) \in Seq(Version)
      /\ ToSet(p.todo) = {e} \cup ToSet(Tail(p.todo))
    BY <1>2, DocType
<1>4. u \in Probing /\ u.seen = p.seen /\ u.todo = Tail(p.todo)
    BY <1>3 DEF Probing
<1>5. /\ \A d \in ToSet(prb[o]) : d \in ToSet(p.todo) \/ d.doc \in p.seen
      /\ \A doc \in p.seen : doc \in Docs(r) \/ Says(r, "public-apis", doc, "fail") \/ doc = e.doc
    BY <1>1 DEF Probed
<1> HIDE DEF e, u
<1>6. ASSUME NEW q, Docs(q) \subseteq Valid \cap (Docs(r) \cup {e.doc}), Docs(r) \subseteq Docs(q), Once(q),
             Len(q.results) < o.limit, ToSet(r.attempts) \subseteq ToSet(q.attempts),
             e.doc \in Docs(q) \/ Says(q, "public-apis", e.doc, "fail")
      PROVE  Probed(prb, "check", o, q, u)
  <2>1. \A doc : Says(r, "public-apis", doc, "fail") => Says(q, "public-apis", doc, "fail")
      BY <1>6 DEF Says
  <2>2. \A doc \in u.seen : doc \in Docs(q) \/ Says(q, "public-apis", doc, "fail")
      BY <1>4, <1>5, <1>6, <2>1
  <2>3. \A d \in ToSet(prb[o]) : d \in ToSet(u.todo) \/ d.doc \in u.seen
      BY <1>2, <1>3, <1>4, <1>5
  <2>4. Docs(q) \subseteq Valid \cap u.seen
      BY <1>2, <1>4, <1>6
  <2> QED BY <1>6, <2>2, <2>3, <2>4 DEF Probed
<1> QED BY <1>1, <1>2, <1>3, <1>4, <1>6 DEF e, u

LEMMA DownloadFound ==
    ASSUME NEW ans, NEW prb, NEW o \in Options, NEW r \in Reports, NEW p \in Probing,
           Progress(ans, prb, "download", o, r, p), Head(p.todo).doc \in Valid
    PROVE  LET q == Found(r, Head(p.todo))
               sorted == [q EXCEPT !.results = SortResults(q.results)]
               u == [p EXCEPT !.todo = Tail(p.todo)]
           IN /\ q \in Reports /\ sorted \in Reports /\ u \in Probing
              /\ Len(q.results) >= o.limit => Progress(ans, prb, "store", o, sorted, u)
              /\ ~(Len(q.results) >= o.limit) => Progress(ans, prb, "check", o, q, u)
<1> DEFINE e == Head(p.todo)
           q == Found(r, e)
           sorted == [q EXCEPT !.results = SortResults(q.results)]
           u == [p EXCEPT !.todo = Tail(p.todo)]
<1>1. /\ Turn(ans, r, o, "public-apis") /\ Says(r, "public-apis", 0, "pass")
      /\ Docs(r) \subseteq Valid /\ Once(r) /\ Len(r.results) < o.limit
      /\ e \in Version /\ e.doc \in Nat /\ e.doc \notin Docs(r) /\ u \in Probing
    BY DownloadIs
<1>2. \A g : /\ Docs(g) \subseteq Valid \cap (Docs(r) \cup {e.doc})
             /\ Docs(r) \subseteq Docs(g) /\ Once(g) /\ Len(g.results) < o.limit
             /\ ToSet(r.attempts) \subseteq ToSet(g.attempts)
             /\ e.doc \in Docs(g) \/ Says(g, "public-apis", e.doc, "fail")
             => Probed(prb, "check", o, g, u)
    BY DownloadIs
<1>3. e.doc \in Valid
    OBVIOUS
<1> HIDE DEF e, u
<1>4. /\ q \in Reports /\ q.error = r.error /\ ToSet(r.attempts) \subseteq ToSet(q.attempts)
      /\ Docs(q) = Docs(r) \cup {e.doc} /\ Once(q) /\ Len(q.results) = Len(r.results) + 1
    BY <1>1, FoundIs
<1> HIDE DEF q
<1>5. Says(q, "public-apis", 0, "pass")
    BY <1>1, <1>4 DEF Says
<1>6. Turn(ans, q, o, "public-apis")
  <2>1. ~q.error
      BY <1>1, <1>4 DEF Turn
  <2> QED BY <1>1, <1>4, <2>1, TurnMore
<1>7. o.limit \in Nat /\ Len(r.results) \in Nat
    BY OptionAssumption DEF Reports
<1>8. ASSUME Len(q.results) >= o.limit PROVE Progress(ans, prb, "store", o, sorted, u)
  <2>1. Len(q.results) = o.limit
      BY <1>1, <1>4, <1>7, <1>8
  <2>2. Docs(q) \subseteq Valid
      BY <1>1, <1>3, <1>4
  <2> QED BY <1>4, <1>5, <1>6, <2>1, <2>2, FinishStep
<1>9. ASSUME ~(Len(q.results) >= o.limit) PROVE Progress(ans, prb, "check", o, q, u)
  <2>1. Len(q.results) < o.limit
      BY <1>4, <1>7, <1>9
  <2>2. Docs(q) \subseteq Valid \cap (Docs(r) \cup {e.doc})
      BY <1>1, <1>3, <1>4
  <2>3. Probed(prb, "check", o, q, u)
      BY <1>2, <1>4, <2>1, <2>2
  <2> QED BY <1>5, <1>6, <2>3 DEF Progress, Kinds
<1>10. sorted \in Reports
    BY <1>4, SortedReport
<1> QED BY <1>1, <1>4, <1>8, <1>9, <1>10 DEF q, u, e

LEMMA DownloadLost ==
    ASSUME NEW ans, NEW prb, NEW o, NEW r \in Reports, NEW p \in Probing,
           Progress(ans, prb, "download", o, r, p)
    PROVE  LET q == Noted(r, "public-apis", Head(p.todo).doc, "fail")
               u == [p EXCEPT !.todo = Tail(p.todo)]
           IN q \in Reports /\ u \in Probing /\ Progress(ans, prb, "check", o, q, u)
<1> DEFINE e == Head(p.todo)
           q == Noted(r, "public-apis", e.doc, "fail")
           u == [p EXCEPT !.todo = Tail(p.todo)]
<1>1. /\ Turn(ans, r, o, "public-apis") /\ Says(r, "public-apis", 0, "pass")
      /\ Docs(r) \subseteq Valid /\ Once(r) /\ Len(r.results) < o.limit
      /\ e \in Version /\ e.doc \in Nat /\ e.doc \notin Docs(r) /\ u \in Probing
    BY DownloadIs
<1>2. \A g : /\ Docs(g) \subseteq Valid \cap (Docs(r) \cup {e.doc})
             /\ Docs(r) \subseteq Docs(g) /\ Once(g) /\ Len(g.results) < o.limit
             /\ ToSet(r.attempts) \subseteq ToSet(g.attempts)
             /\ e.doc \in Docs(g) \/ Says(g, "public-apis", e.doc, "fail")
             => Probed(prb, "check", o, g, u)
    BY DownloadIs
<1> HIDE DEF e, u
<1>3. /\ q \in Reports /\ q.results = r.results /\ q.error = r.error
      /\ ToSet(r.attempts) \subseteq ToSet(q.attempts) /\ Says(q, "public-apis", e.doc, "fail")
    BY <1>1, NotedIs DEF Kinds
<1> HIDE DEF q
<1>4. Docs(q) = Docs(r) /\ Once(q)
    BY <1>1, <1>3 DEF Docs, Once
<1>5. Says(q, "public-apis", 0, "pass")
    BY <1>1, <1>3 DEF Says
<1>6. Turn(ans, q, o, "public-apis")
  <2>1. ~q.error
      BY <1>1, <1>3 DEF Turn
  <2> QED BY <1>1, <1>3, <2>1, TurnMore
<1>7. Probed(prb, "check", o, q, u)
  <2>1. Docs(q) \subseteq Valid \cap (Docs(r) \cup {e.doc}) /\ Docs(r) \subseteq Docs(q) /\ Len(q.results) < o.limit
      BY <1>1, <1>3, <1>4
  <2> QED BY <1>2, <1>3, <1>4, <2>1
<1>8. Progress(ans, prb, "check", o, q, u)
    BY <1>5, <1>6, <1>7 DEF Progress, Kinds
<1> QED BY <1>1, <1>3, <1>8 DEF q, u, e

(***************************************************************************)
(* The steps.                                                              *)
(***************************************************************************)
Becomes(f, g, c, v) == g = [f EXCEPT ![c] = v] \/ (g = f /\ v = f[c])

\* One caller moves on.
LEMMA Moved ==
    ASSUME SearchInv, NEW c \in Callers, NEW at, NEW o, NEW r, NEW p, Caller(at, o, r, p),
           Progress(answers, probes, at, o, r, p),
           Becomes(stage, stage', c, at), Becomes(opts, opts', c, o),
           Becomes(report, report', c, r), Becomes(probing, probing', c, p),
           UNCHANGED webVars,
           Cached(cache'), Justifies(answers, probes, cache')
    PROVE  SearchInv'
<1>1. at \in Stages /\ o \in Options /\ r \in Reports /\ p \in Probing
    BY DEF Caller
<1>2. /\ stage \in [Callers -> Stages] /\ opts \in [Callers -> Options]
      /\ report \in [Callers -> Reports] /\ probing \in [Callers -> Probing]
      /\ Web(answers, probes)
      /\ \A d \in Callers : Progress(answers, probes, stage[d], opts[d], report[d], probing[d])
    BY DEF SearchInv, SearchTyped
<1>3. answers' = answers /\ probes' = probes
    BY DEF webVars
<1>4. stage' \in [Callers -> Stages] /\ stage'[c] = at /\ \A d \in Callers : d # c => stage'[d] = stage[d]
    BY <1>1, <1>2 DEF Becomes
<1>5. opts' \in [Callers -> Options] /\ opts'[c] = o /\ \A d \in Callers : d # c => opts'[d] = opts[d]
    BY <1>1, <1>2 DEF Becomes
<1>6. report' \in [Callers -> Reports] /\ report'[c] = r /\ \A d \in Callers : d # c => report'[d] = report[d]
    BY <1>1, <1>2 DEF Becomes
<1>7. /\ probing' \in [Callers -> Probing] /\ probing'[c] = p
      /\ \A d \in Callers : d # c => probing'[d] = probing[d]
    BY <1>1, <1>2 DEF Becomes
<1>8. \A d \in Callers : Progress(answers', probes', stage'[d], opts'[d], report'[d], probing'[d])
  <2> SUFFICES ASSUME NEW d \in Callers
               PROVE  Progress(answers', probes', stage'[d], opts'[d], report'[d], probing'[d])
      OBVIOUS
  <2>1. CASE d = c
      BY <1>3, <1>4, <1>5, <1>6, <1>7, <2>1
  <2>2. CASE d # c
      BY <1>2, <1>3, <1>4, <1>5, <1>6, <1>7, <2>2
  <2> QED BY <2>1, <2>2
<1>9. SearchTyped'
    BY <1>4, <1>5, <1>6, <1>7 DEF SearchTyped
<1>10. Web(answers', probes') /\ Justifies(answers', probes', cache')
    BY <1>2, <1>3
<1> QED BY <1>8, <1>9, <1>10 DEF SearchInv

LEMMA MovedOnly ==
    ASSUME SearchInv, NEW c \in Callers, NEW at, NEW o, NEW r, NEW p, Caller(at, o, r, p),
           Progress(answers, probes, at, o, r, p),
           Becomes(stage, stage', c, at), Becomes(opts, opts', c, o),
           Becomes(report, report', c, r), Becomes(probing, probing', c, p),
           UNCHANGED <<webVars, cache>>
    PROVE  SearchInv'
<1>1. Cached(cache) /\ Justifies(answers, probes, cache)
    BY DEF SearchInv, SearchTyped
<1>2. cache' = cache
    OBVIOUS
<1>3. Cached(cache') /\ Justifies(answers, probes, cache')
    BY <1>1, <1>2
<1> QED BY <1>3, Moved

\* The state of one caller.
LEMMA CallerIs ==
    ASSUME SearchInv, NEW c \in Callers
    PROVE  /\ Web(answers, probes)
           /\ stage[c] \in Stages /\ opts[c] \in Options /\ report[c] \in Reports /\ probing[c] \in Probing
           /\ Progress(answers, probes, stage[c], opts[c], report[c], probing[c])
BY DEF SearchInv, SearchTyped

LEMMA Begins ==
    ASSUME NEW ans, NEW prb, NEW o \in Options, NEW p, p.seen = {}
    PROVE  Progress(ans, prb, "load", o, Empty, p) /\ Progress(ans, prb, FirstSource(o), o, Empty, p)
<1>1. Progress(ans, prb, "load", o, Empty, p)
    BY DEF Progress, Kinds
<1>2. Turn(ans, Empty, o, FirstSource(o))
    BY SourcesAre DEF Turn, Missed, Empty
<1>3. FirstSource(o) \in Kinds
    BY FirstSourceType
<1>4. Empty.results = <<>>
    BY DEF Empty
<1>5. FirstSource(o) \notin {"load", "check", "download", "store", "idle"}
    BY <1>3 DEF Kinds
<1>6. Progress(ans, prb, FirstSource(o), o, Empty, p)
    BY <1>2, <1>3, <1>4, <1>5 DEF Progress
<1> QED BY <1>1, <1>6

LEMMA SearchKeeps ==
    ASSUME SearchInv, NEW c \in Callers, NEW o \in Options, Search(c, o)
    PROVE  SearchInv'
<1> DEFINE at == IF o.mode \in {"refresh", "bypass"} THEN FirstSource(o) ELSE "load"
<1>1. /\ stage' = [stage EXCEPT ![c] = at] /\ opts' = [opts EXCEPT ![c] = o]
      /\ report' = [report EXCEPT ![c] = Empty] /\ probing' = [probing EXCEPT ![c] = NoProbes]
      /\ UNCHANGED <<webVars, cache>>
    BY DEF Search, Proceed, Set, Probe
<1>2. at \in Stages
    BY FirstSourceType DEF Stages
<1>3. Progress(answers, probes, at, o, Empty, NoProbes)
    BY Begins DEF NoProbes
<1>4. Caller(at, o, Empty, NoProbes)
    BY <1>2, EmptyType DEF Caller
<1> HIDE DEF at
<1>5. Becomes(stage, stage', c, at) /\ Becomes(opts, opts', c, o)
    BY <1>1 DEF Becomes
<1>6. Becomes(report, report', c, Empty) /\ Becomes(probing, probing', c, NoProbes)
    BY <1>1 DEF Becomes
<1> QED BY <1>1, <1>3, <1>4, <1>5, <1>6, MovedOnly

LEMMA LoadKeeps ==
    ASSUME SearchInv, NEW c \in Callers, LoadSearch(c)
    PROVE  SearchInv'
<1> DEFINE o == opts[c]
           k == Key(o)
           r == report[c]
           p == probing[c]
           hit == [results |-> cache[k].results, error |-> FALSE,
                   attempts |-> <<Attempt("cache", 0, "pass")>> \o cache[k].attempts]
           missed == [Empty EXCEPT !.attempts = <<Attempt("cache", 0, "miss")>>]
           broken == [Empty EXCEPT !.error = TRUE]
<1>1. /\ Web(answers, probes) /\ o \in Options /\ r \in Reports /\ p \in Probing
      /\ Progress(answers, probes, "load", o, r, p)
    BY CallerIs DEF LoadSearch
<1>2. r = Empty /\ p.seen = {}
    BY <1>1 DEF Progress
<1>3. opts' = opts /\ probing' = probing /\ UNCHANGED <<webVars, cache>>
    BY DEF LoadSearch
<1>4. Becomes(opts, opts', c, o) /\ Becomes(probing, probing', c, p)
    BY <1>3 DEF Becomes
<1>5. ASSUME k \in DOMAIN cache, stage' = [stage EXCEPT ![c] = "idle"], report' = [report EXCEPT ![c] = hit]
      PROVE  SearchInv'
  <2> DEFINE stored == cache[k]
  <2>1. stored \in Records /\ \E u \in Options : Key(u) = k /\ Justified(answers, probes, stored, u)
      BY <1>5 DEF SearchInv, SearchTyped, Justifies, Cached
  <2> HIDE DEF stored
  <2>2. Justified(answers, probes, stored, o)
      BY <1>1, <2>1, JustifiedKeyed
  <2>3. Attempt("cache", 0, "pass") \in Said
      BY AttemptType
  <2>4. stored.results \in Seq(Results) /\ stored.attempts \in Seq(Said)
      BY <2>1 DEF Records
  <2> DEFINE a == Attempt("cache", 0, "pass")
             more == <<a>> \o stored.attempts
  <2>5. more \in Seq(Said) /\ ToSet(stored.attempts) \subseteq ToSet(more)
    <3> HIDE DEF a
    <3> QED BY <2>3, <2>4, PrefixIs DEF a
  <2>6. hit = [results |-> stored.results, error |-> FALSE, attempts |-> more]
      BY DEF stored
  <2> HIDE DEF more, hit
  <2>7. hit \in Reports /\ hit.results = stored.results /\ hit.attempts = more
      BY <2>4, <2>5, <2>6 DEF Reports
  <2>8. Justified(answers, probes, hit, o)
      BY <2>2, <2>5, <2>7, JustifiedMore
  <2>9. Progress(answers, probes, "idle", o, hit, p) /\ Caller("idle", o, hit, p)
      BY <1>1, <2>7, <2>8 DEF Progress, Kinds, Caller, Stages
  <2>10. Becomes(stage, stage', c, "idle") /\ Becomes(report, report', c, hit)
      BY <1>5 DEF Becomes, hit
  <2> HIDE DEF o, p
  <2> QED BY <1>3, <1>4, <2>9, <2>10, MovedOnly
<1>6. ASSUME o.mode = "offline", stage' = [stage EXCEPT ![c] = "idle"],
             report' = [report EXCEPT ![c] = missed]
      PROVE  SearchInv'
  <2>1. missed.results = <<>>
      BY DEF Empty
  <2>2. missed \in Reports
    <3>1. Attempt("cache", 0, "miss") \in Said
        BY AttemptType
    <3> DEFINE a == Attempt("cache", 0, "miss")
               one == <<a>>
               e == Empty
    <3> HIDE DEF a
    <3>2. one \in Seq(Said)
        BY <3>1 DEF a
    <3>3. e \in Reports
        BY EmptyType
    <3> HIDE DEF one, e
    <3>4. [e EXCEPT !.attempts = one] \in Reports
        BY <3>2, <3>3 DEF Reports
    <3> QED BY <3>4 DEF one, a, e
  <2> HIDE DEF missed
  <2>3. Progress(answers, probes, "idle", o, missed, p) /\ Caller("idle", o, missed, p)
      BY <1>1, <1>6, <2>1, <2>2 DEF Progress, Kinds, Caller, Stages
  <2>4. Becomes(stage, stage', c, "idle") /\ Becomes(report, report', c, missed)
      BY <1>6 DEF Becomes
  <2> HIDE DEF o, p
  <2> QED BY <1>3, <1>4, <2>3, <2>4, MovedOnly
<1>7. ASSUME stage' = [stage EXCEPT ![c] = FirstSource(o)], report' = report
      PROVE  SearchInv'
  <2>1. Progress(answers, probes, FirstSource(o), o, r, p)
      BY <1>1, <1>2, Begins
  <2>2. Caller(FirstSource(o), o, r, p)
      BY <1>1, FirstSourceType DEF Caller, Stages
  <2>3. Becomes(stage, stage', c, FirstSource(o)) /\ Becomes(report, report', c, r)
      BY <1>7 DEF Becomes
  <2> DEFINE at == FirstSource(o)
  <2> HIDE DEF o, p, r, at
  <2> QED BY <1>3, <1>4, <2>1, <2>2, <2>3, MovedOnly DEF at
<1>8. ASSUME stage' = [stage EXCEPT ![c] = "idle"], report' = [report EXCEPT ![c] = broken]
      PROVE  SearchInv'
  <2>1. broken \in Reports /\ broken.error
      BY EmptyType DEF Empty, Reports
  <2> HIDE DEF broken
  <2>2. Progress(answers, probes, "idle", o, broken, p) /\ Caller("idle", o, broken, p)
      BY <1>1, <2>1 DEF Progress, Kinds, Caller, Stages
  <2>3. Becomes(stage, stage', c, "idle") /\ Becomes(report, report', c, broken)
      BY <1>8 DEF Becomes
  <2> HIDE DEF o, p
  <2> QED BY <1>3, <1>4, <2>2, <2>3, MovedOnly
<1> HIDE DEF hit, missed, broken
<1> QED BY <1>5, <1>6, <1>7, <1>8 DEF LoadSearch, Reply, Proceed, Set, hit, missed, broken

LEMMA AskKeeps ==
    ASSUME SearchInv, NEW c \in Callers, NEW source \in Kinds, source # "public-apis",
           NEW answer,
           \/ answer = Served(c, source)
           \/ answer = NotAsked /\ source = "rfc9727" /\ ~opts[c].provider,
           Ask(c, source, answer)
    PROVE  SearchInv'
<1> DEFINE o == opts[c]
           r == report[c]
           p == probing[c]
           said(a) == [r EXCEPT !.attempts =
                          IF a.status = "none" THEN r.attempts
                          ELSE Append(r.attempts, Attempt(source, 0, a.status))]
           told(a) == [said(a) EXCEPT !.results = a.results, !.error = a.failed]
           next == NextSource(o, source)
<1>1. /\ Web(answers, probes) /\ o \in Options /\ r \in Reports /\ p \in Probing
      /\ Progress(answers, probes, source, o, r, p)
    BY CallerIs DEF Ask
<1>2. opts' = opts /\ probing' = probing /\ UNCHANGED <<webVars, cache>>
    BY DEF Ask
<1>3. Becomes(opts, opts', c, o) /\ Becomes(probing, probing', c, p)
    BY <1>2 DEF Becomes
<1>4. \/ Sound(answer, answers[Everything][source], o.limit)
      \/ answer = NotAsked /\ source = "rfc9727" /\ ~o.provider
    BY <1>1 DEF Web, Served
<1>5. next \in Kinds
    BY DEF NextSource, Kinds
<1>6. ASSUME NEW a, a = answer \/ a = Failed, Conclude(c, source, a) PROVE SearchInv'
  <2>1. /\ said(a) \in Reports /\ told(a) \in Reports
        /\ o.source = "auto" /\ a.results = <<>> => Progress(answers, probes, next, o, said(a), p)
        /\ o.source # "auto" \/ a.results # <<>> => Progress(answers, probes, "store", o, told(a), p)
    <3>1. \/ Sound(a, answers[Everything][source], o.limit) \/ a = Failed
          \/ a = NotAsked /\ source = "rfc9727" /\ ~o.provider
        BY <1>4, <1>6
    <3> HIDE DEF o, r, p
    <3> QED BY <1>1, <3>1, ConcludeStep
  <2>2. CASE o.source = "auto" /\ a.results = <<>>
    <3>1. stage' = [stage EXCEPT ![c] = next] /\ report' = [report EXCEPT ![c] = said(a)]
        BY <1>6, <2>2 DEF Conclude, Proceed, Set
    <3> DEFINE q == said(a)
    <3>2. Progress(answers, probes, next, o, q, p)
        BY <2>1, <2>2
    <3>3. Caller(next, o, q, p)
        BY <1>1, <1>5, <2>1 DEF Caller, Stages
    <3> HIDE DEF q, o, p, next
    <3>4. Becomes(stage, stage', c, next) /\ Becomes(report, report', c, q)
        BY <3>1 DEF Becomes, q
    <3> QED BY <1>2, <1>3, <3>2, <3>3, <3>4, MovedOnly
  <2>3. CASE ~(o.source = "auto" /\ a.results = <<>>)
    <3>1. stage' = [stage EXCEPT ![c] = "store"] /\ report' = [report EXCEPT ![c] = told(a)]
        BY <1>6, <2>3 DEF Conclude, Proceed, Set
    <3> DEFINE q == told(a)
    <3>2. Progress(answers, probes, "store", o, q, p)
        BY <2>1, <2>3
    <3>3. Caller("store", o, q, p)
        BY <1>1, <2>1 DEF Caller, Stages
    <3> HIDE DEF q, o, p
    <3>4. Becomes(stage, stage', c, "store") /\ Becomes(report, report', c, q)
        BY <3>1 DEF Becomes, q
    <3> QED BY <1>2, <1>3, <3>2, <3>3, <3>4, MovedOnly
  <2> QED BY <2>2, <2>3
<1> QED BY <1>6 DEF Ask

LEMMA PublicKeeps ==
    ASSUME SearchInv, NEW c \in Callers, AskPublicAPIs(c)
    PROVE  SearchInv'
<1> DEFINE o == opts[c]
           r == report[c]
           p == probing[c]
<1>1. /\ Web(answers, probes) /\ o \in Options /\ r \in Reports /\ p \in Probing
      /\ Progress(answers, probes, "public-apis", o, r, p)
    BY CallerIs DEF AskPublicAPIs
<1>2. opts' = opts /\ UNCHANGED <<webVars, cache>>
    BY DEF AskPublicAPIs
<1>3. Becomes(opts, opts', c, o)
    BY <1>2 DEF Becomes
<1> DEFINE q == Noted(r, "public-apis", 0, "pass")
           u == [p EXCEPT !.todo = probes[o]]
<1>4. ASSUME stage' = [stage EXCEPT ![c] = "check"], report' = [report EXCEPT ![c] = q],
             probing' = [probing EXCEPT ![c] = u]
      PROVE  SearchInv'
  <2>1. q \in Reports /\ u \in Probing /\ Progress(answers, probes, "check", o, q, u)
    <3> HIDE DEF o, r, p
    <3> QED BY <1>1, PublicStep
  <2> HIDE DEF q, u
  <2>2. Becomes(stage, stage', c, "check") /\ Becomes(report, report', c, q) /\ Becomes(probing, probing', c, u)
      BY <1>4 DEF Becomes
  <2>3. Caller("check", o, q, u)
      BY <1>1, <2>1 DEF Caller, Stages
  <2> HIDE DEF o
  <2> QED BY <1>2, <1>3, <2>1, <2>2, <2>3, MovedOnly
<1> DEFINE failed(status) == [Noted(r, "public-apis", 0, status) EXCEPT !.error = TRUE]
<1>5. ASSUME NEW status \in {"pass", "fail"}, stage' = [stage EXCEPT ![c] = "store"],
             report' = [report EXCEPT ![c] = failed(status)], probing' = probing
      PROVE  SearchInv'
  <2> DEFINE g == Noted(r, "public-apis", 0, status)
             f == failed(status)
  <2>1. g \in Reports
    <3> HIDE DEF r
    <3> QED BY <1>1, NotedIs DEF Kinds
  <2>2. f \in Reports /\ f.error
    <3> HIDE DEF g
    <3>1. f = [g EXCEPT !.error = TRUE]
        BY DEF g
    <3> HIDE DEF f
    <3> QED BY <2>1, <3>1 DEF Reports
  <2> HIDE DEF f
  <2>3. Progress(answers, probes, "store", o, f, p) /\ Caller("store", o, f, p)
      BY <1>1, <2>2, ExcusedStep DEF Caller, Stages
  <2>4. Becomes(stage, stage', c, "store") /\ Becomes(report, report', c, f) /\ Becomes(probing, probing', c, p)
      BY <1>5 DEF Becomes, f
  <2> HIDE DEF o, p
  <2> QED BY <1>2, <1>3, <2>3, <2>4, MovedOnly
<1>6. [r EXCEPT !.attempts = Append(@, Attempt("public-apis", 0, "pass"))] = q
    BY DEF Noted
<1>7. \A status \in {"pass", "fail"} :
         [r EXCEPT !.attempts = Append(@, Attempt("public-apis", 0, status)), !.error = TRUE] = failed(status)
    BY DEF Noted
<1>8. \/ /\ stage' = [stage EXCEPT ![c] = "check"] /\ report' = [report EXCEPT ![c] = q]
         /\ probing' = [probing EXCEPT ![c] = u]
      \/ /\ stage' = [stage EXCEPT ![c] = "store"] /\ probing' = probing
         /\ \E status \in {"pass", "fail"} : report' = [report EXCEPT ![c] = failed(status)]
  <2> HIDE DEF q, failed
  <2> QED BY <1>6, <1>7 DEF AskPublicAPIs, Proceed, Probe, Set
<1> HIDE DEF q, u, failed
<1> QED BY <1>4, <1>5, <1>8

LEMMA CheckKeeps ==
    ASSUME SearchInv, NEW c \in Callers, CheckProbe(c)
    PROVE  SearchInv'
<1> DEFINE o == opts[c]
           r == report[c]
           p == probing[c]
           doc == Head(p.todo).doc
           sorted == [r EXCEPT !.results = SortResults(r.results)]
           u == [p EXCEPT !.seen = p.seen \cup {doc}, !.todo = IF doc \in p.seen THEN Tail(p.todo) ELSE p.todo]
           at == IF doc \in p.seen THEN "check" ELSE "download"
           noted == Noted(r, "public-apis", 0, "fail")
           late == [noted EXCEPT !.error = TRUE]
           lost == [late EXCEPT !.results = SortResults(late.results)]
<1>1. /\ Web(answers, probes) /\ o \in Options /\ r \in Reports /\ p \in Probing /\ stage[c] = "check"
      /\ Progress(answers, probes, "check", o, r, p)
    BY CallerIs DEF CheckProbe
<1>2. opts' = opts /\ UNCHANGED <<webVars, cache>>
    BY DEF CheckProbe
<1>3. Becomes(opts, opts', c, o)
    BY <1>2 DEF Becomes
<1>4. ASSUME p.todo = <<>>, stage' = [stage EXCEPT ![c] = "store"], report' = [report EXCEPT ![c] = sorted],
             probing' = probing
      PROVE  SearchInv'
  <2>1. sorted \in Reports /\ Progress(answers, probes, "store", o, sorted, p)
    <3> HIDE DEF o, r
    <3> QED BY <1>1, <1>4, CheckDone
  <2> HIDE DEF sorted
  <2>2. Becomes(stage, stage', c, "store") /\ Becomes(report, report', c, sorted) /\ Becomes(probing, probing', c, p)
      BY <1>4 DEF Becomes
  <2>3. Caller("store", o, sorted, p)
      BY <1>1, <2>1 DEF Caller, Stages
  <2> HIDE DEF o, p
  <2> QED BY <1>2, <1>3, <2>1, <2>2, <2>3, MovedOnly
<1>5. ASSUME stage' = [stage EXCEPT ![c] = "store"], report' = [report EXCEPT ![c] = lost], probing' = probing
      PROVE  SearchInv'
  <2>1. noted \in Reports
    <3> HIDE DEF r
    <3> QED BY <1>1, NotedIs DEF Kinds
  <2>2. late \in Reports /\ late.error
    <3> HIDE DEF noted
    <3> QED BY <2>1 DEF Reports
  <2> HIDE DEF late
  <2>3. lost \in Reports /\ lost.error
      BY <2>2, SortedReport
  <2> HIDE DEF lost
  <2>4. Progress(answers, probes, "store", o, lost, p) /\ Caller("store", o, lost, p)
      BY <1>1, <2>3, ExcusedStep DEF Caller, Stages
  <2>5. Becomes(stage, stage', c, "store") /\ Becomes(report, report', c, lost) /\ Becomes(probing, probing', c, p)
      BY <1>5 DEF Becomes
  <2> HIDE DEF o, p
  <2> QED BY <1>2, <1>3, <2>4, <2>5, MovedOnly
<1>6. ASSUME p.todo # <<>>, stage' = [stage EXCEPT ![c] = at] \/ (stage' = stage /\ at = "check"),
             report' = report, probing' = [probing EXCEPT ![c] = u]
      PROVE  SearchInv'
  <2>1. u \in Probing /\ Progress(answers, probes, at, o, r, u)
    <3> HIDE DEF o, r, p
    <3> QED BY <1>1, <1>6, CheckNext
  <2>2. at \in Stages
      BY DEF Stages
  <2> HIDE DEF u, at
  <2>3. Becomes(stage, stage', c, at) /\ Becomes(report, report', c, r) /\ Becomes(probing, probing', c, u)
      BY <1>1, <1>6 DEF Becomes
  <2>4. Caller(at, o, r, u)
      BY <1>1, <2>1, <2>2 DEF Caller
  <2> HIDE DEF o, r
  <2> QED BY <1>2, <1>3, <2>1, <2>3, <2>4, MovedOnly
<1>7. [r EXCEPT !.attempts = Append(@, Attempt("public-apis", 0, "fail")), !.error = TRUE] = late
    BY DEF Noted
<1>8. \/ /\ p.todo = <<>> /\ stage' = [stage EXCEPT ![c] = "store"]
         /\ report' = [report EXCEPT ![c] = sorted] /\ probing' = probing
      \/ /\ stage' = [stage EXCEPT ![c] = "store"] /\ report' = [report EXCEPT ![c] = lost] /\ probing' = probing
      \/ /\ p.todo # <<>> /\ report' = report /\ probing' = [probing EXCEPT ![c] = u]
         /\ stage' = [stage EXCEPT ![c] = at] \/ (stage' = stage /\ at = "check")
  <2>1. CASE p.todo = <<>>
      BY <2>1 DEF CheckProbe, Finish, Proceed, Set
  <2>2. CASE p.todo # <<>> /\ p.over
    <3>1. Exceeded(c, r) /\ UNCHANGED probing
        BY <2>2 DEF CheckProbe
    <3>2. Finish(c, late)
      <4> HIDE DEF late
      <4> QED BY <1>7, <3>1 DEF Exceeded
    <3> HIDE DEF late
    <3> QED BY <3>1, <3>2 DEF Finish, Proceed, Set
  <2>3. CASE p.todo # <<>> /\ ~p.over
      BY <2>3 DEF CheckProbe, Proceed, Probe
  <2> QED BY <2>1, <2>2, <2>3
<1> HIDE DEF sorted, lost, u, at
<1> QED BY <1>4, <1>5, <1>6, <1>8

LEMMA DownloadKeeps ==
    ASSUME SearchInv, NEW c \in Callers, DownloadProbe(c)
    PROVE  SearchInv'
<1> DEFINE o == opts[c]
           r == report[c]
           p == probing[c]
           e == Head(p.todo)
           u == [p EXCEPT !.todo = Tail(p.todo)]
           more == Found(r, e)
           best == [more EXCEPT !.results = SortResults(more.results)]
           noted == Noted(r, "public-apis", e.doc, "fail")
           again == Noted(noted, "public-apis", 0, "fail")
           late == [again EXCEPT !.error = TRUE]
           lost == [late EXCEPT !.results = SortResults(late.results)]
<1>1. /\ Web(answers, probes) /\ o \in Options /\ r \in Reports /\ p \in Probing
      /\ Progress(answers, probes, "download", o, r, p)
    BY CallerIs DEF DownloadProbe
<1>2. opts' = opts /\ UNCHANGED <<webVars, cache>> /\ probing' = [probing EXCEPT ![c] = u]
    BY DEF DownloadProbe, Probe
<1>3. noted \in Reports /\ u \in Probing /\ Progress(answers, probes, "check", o, noted, u)
  <2> HIDE DEF o, r, p
  <2> QED BY <1>1, DownloadLost DEF e
<1>4. Becomes(opts, opts', c, o) /\ Becomes(probing, probing', c, u)
  <2> HIDE DEF u
  <2> QED BY <1>2 DEF Becomes
<1> HIDE DEF u
<1>5. ASSUME NEW q \in Reports, NEW at \in {"store", "check"}, Progress(answers, probes, at, o, q, u),
             stage' = [stage EXCEPT ![c] = at], report' = [report EXCEPT ![c] = q]
      PROVE  SearchInv'
  <2>1. Becomes(stage, stage', c, at) /\ Becomes(report, report', c, q)
      BY <1>5 DEF Becomes
  <2>2. Caller(at, o, q, u)
      BY <1>1, <1>3 DEF Caller, Stages
  <2> HIDE DEF o
  <2> QED BY <1>2, <1>4, <1>5, <2>1, <2>2, MovedOnly
<1>6. CASE e.doc \in Valid /\ Len(more.results) >= o.limit /\ Finish(c, more)
  <2>1. best \in Reports /\ Progress(answers, probes, "store", o, best, u)
    <3> HIDE DEF o, r, p
    <3> QED BY <1>1, <1>6, DownloadFound DEF e, u
  <2>2. stage' = [stage EXCEPT ![c] = "store"] /\ report' = [report EXCEPT ![c] = best]
    <3> HIDE DEF more
    <3> QED BY <1>6 DEF Finish, Proceed, Set
  <2> HIDE DEF best, o
  <2> QED BY <1>5, <2>1, <2>2
<1>7. CASE e.doc \in Valid /\ ~(Len(more.results) >= o.limit) /\ Proceed(c, "check") /\ Set(c, more)
  <2>1. more \in Reports /\ Progress(answers, probes, "check", o, more, u)
    <3> HIDE DEF o, r, p
    <3> QED BY <1>1, <1>7, DownloadFound DEF e, u
  <2>2. stage' = [stage EXCEPT ![c] = "check"] /\ report' = [report EXCEPT ![c] = more]
    <3> HIDE DEF more
    <3> QED BY <1>7 DEF Proceed, Set
  <2> HIDE DEF more, o
  <2> QED BY <1>5, <2>1, <2>2
<1>8. CASE Finish(c, late)
  <2>1. again \in Reports
    <3> HIDE DEF noted
    <3> QED BY <1>3, NotedIs DEF Kinds
  <2>2. late \in Reports /\ late.error
    <3> HIDE DEF again
    <3> QED BY <2>1 DEF Reports
  <2> HIDE DEF late
  <2>3. lost \in Reports /\ lost.error
      BY <2>2, SortedReport
  <2>4. stage' = [stage EXCEPT ![c] = "store"] /\ report' = [report EXCEPT ![c] = lost]
      BY <1>8 DEF Finish, Proceed, Set
  <2> HIDE DEF lost
  <2>5. Progress(answers, probes, "store", o, lost, u)
      BY <2>3, ExcusedStep
  <2> HIDE DEF o
  <2> QED BY <1>5, <2>3, <2>4, <2>5
<1>9. CASE Proceed(c, "check") /\ Set(c, noted)
  <2> HIDE DEF noted
  <2>1. stage' = [stage EXCEPT ![c] = "check"] /\ report' = [report EXCEPT ![c] = noted]
      BY <1>9 DEF Proceed, Set
  <2> HIDE DEF o
  <2> QED BY <1>3, <1>5, <2>1
<1> DEFINE after(status) == Append(r.attempts, Attempt("public-apis", e.doc, status))
           gained == [r EXCEPT !.attempts = after("pass"), !.results = Append(@, Result("public-apis", e, TRUE))]
           missed == [r EXCEPT !.attempts = after("fail")]
<1>10. gained = more /\ missed = noted
    BY DEF Found, Noted
<1>11. [missed EXCEPT !.attempts = Append(@, Attempt("public-apis", 0, "fail")), !.error = TRUE] = late
  <2>1. missed = noted
      BY <1>10
  <2> HIDE DEF missed, noted
  <2> QED BY <2>1 DEF Noted
<1>12. \/ /\ e.doc \in Valid
          /\ IF Len(gained.results) >= o.limit THEN Finish(c, gained) ELSE Proceed(c, "check") /\ Set(c, gained)
       \/ IF p.over THEN Exceeded(c, missed) ELSE Proceed(c, "check") /\ Set(c, missed)
    BY DEF DownloadProbe
<1>13. Exceeded(c, missed) => Finish(c, late)
  <2> HIDE DEF missed, late
  <2> QED BY <1>11 DEF Exceeded
<1> HIDE DEF gained, missed, more, noted, late
<1> QED BY <1>6, <1>7, <1>8, <1>9, <1>10, <1>12, <1>13

LEMMA StoreKeeps ==
    ASSUME SearchInv, NEW c \in Callers, StoreSearch(c)
    PROVE  SearchInv'
<1> DEFINE o == opts[c]
           r == report[c]
           p == probing[c]
           k == Key(o)
           broken == [r EXCEPT !.error = TRUE]
           stored == Stored(k, r)
<1>1. /\ Web(answers, probes) /\ o \in Options /\ r \in Reports /\ p \in Probing
      /\ Progress(answers, probes, "store", o, r, p)
    BY CallerIs DEF StoreSearch
<1>2. opts' = opts /\ probing' = probing /\ UNCHANGED webVars
    BY DEF StoreSearch
<1>3. Becomes(opts, opts', c, o) /\ Becomes(probing, probing', c, p)
    BY <1>2 DEF Becomes
<1>4. r.error \/ Justified(answers, probes, r, o)
    BY <1>1 DEF Progress
<1>5. ASSUME NEW q \in Reports, q.error \/ Justified(answers, probes, q, o), Reply(c, q)
      PROVE  /\ Becomes(stage, stage', c, "idle") /\ Becomes(report, report', c, q)
             /\ Caller("idle", o, q, p) /\ Progress(answers, probes, "idle", o, q, p)
  <2>1. Becomes(stage, stage', c, "idle") /\ Becomes(report, report', c, q)
      BY <1>5 DEF Becomes, Reply, Proceed, Set
  <2>2. Caller("idle", o, q, p)
      BY <1>1 DEF Caller, Stages
  <2>3. Progress(answers, probes, "idle", o, q, p)
      BY <1>5 DEF Progress, Kinds
  <2> QED BY <2>1, <2>2, <2>3
<1>6. CASE Reply(c, r) /\ UNCHANGED cache
  <2>1. /\ Becomes(stage, stage', c, "idle") /\ Becomes(report, report', c, r)
        /\ Caller("idle", o, r, p) /\ Progress(answers, probes, "idle", o, r, p)
      BY <1>1, <1>4, <1>5, <1>6
  <2>2. UNCHANGED <<webVars, cache>>
      BY <1>2, <1>6
  <2> HIDE DEF o, r, p
  <2> QED BY <1>3, <2>1, <2>2, MovedOnly
<1>7. CASE Reply(c, broken) /\ UNCHANGED cache
  <2>1. broken \in Reports /\ broken.error
      BY <1>1 DEF Reports
  <2> HIDE DEF broken
  <2>2. /\ Becomes(stage, stage', c, "idle") /\ Becomes(report, report', c, broken)
        /\ Caller("idle", o, broken, p) /\ Progress(answers, probes, "idle", o, broken, p)
      BY <1>5, <1>7, <2>1
  <2>3. UNCHANGED <<webVars, cache>>
      BY <1>2, <1>7
  <2> HIDE DEF o, p
  <2> QED BY <1>3, <2>2, <2>3, MovedOnly
<1>8. CASE ~r.error /\ cache' = stored /\ Reply(c, r)
  <2>1. /\ Becomes(stage, stage', c, "idle") /\ Becomes(report, report', c, r)
        /\ Caller("idle", o, r, p) /\ Progress(answers, probes, "idle", o, r, p)
      BY <1>1, <1>4, <1>5, <1>8
  <2> DEFINE record == [results |-> r.results, attempts |-> r.attempts]
  <2>2. record \in Records /\ record.results = r.results /\ record.attempts = r.attempts
      BY <1>1 DEF Reports, Records
  <2>3. k \in Keys
      BY <1>1 DEF Keys
  <2>4. stored = [j \in DOMAIN cache \cup {k} |-> IF j = k THEN record ELSE cache[j]]
      BY DEF Stored
  <2> HIDE DEF record, stored
  <2>5. Cached(cache) /\ Justifies(answers, probes, cache)
      BY DEF SearchInv, SearchTyped
  <2>6. Cached(stored)
      BY <2>2, <2>3, <2>4, <2>5 DEF Cached
  <2>7. Justified(answers, probes, record, o)
    <3>1. Justified(answers, probes, r, o)
        BY <1>4, <1>8
    <3> HIDE DEF r, o
    <3> QED BY <2>2, <3>1, JustifiedMore
  <2>8. Justifies(answers, probes, stored)
    <3> SUFFICES ASSUME NEW j \in DOMAIN stored
                 PROVE  \E v \in Options : Key(v) = j /\ Justified(answers, probes, stored[j], v)
        BY DEF Justifies
    <3>1. CASE j = k
      <4>1. stored[j] = record /\ Key(o) = j /\ o \in Options
          BY <1>1, <2>4, <3>1
      <4> HIDE DEF o, k
      <4> QED BY <2>7, <4>1
    <3>2. CASE j # k
      <4>1. j \in DOMAIN cache /\ stored[j] = cache[j]
          BY <2>4, <3>2
      <4> QED BY <2>5, <4>1 DEF Justifies
    <3> QED BY <3>1, <3>2
  <2>9. Cached(cache') /\ Justifies(answers, probes, cache')
      BY <1>8, <2>6, <2>8
  <2> HIDE DEF o, r, p
  <2> QED BY <1>2, <1>3, <2>1, <2>9, Moved
<1> HIDE DEF broken, stored
<1> QED BY <1>6, <1>7, <1>8 DEF StoreSearch, broken, stored

LEMMA BudgetKeeps ==
    ASSUME SearchInv, NEW c \in Callers, EndBudget(c)
    PROVE  SearchInv'
<1> DEFINE at == stage[c]
           o == opts[c]
           r == report[c]
           p == probing[c]
           u == [p EXCEPT !.over = TRUE]
<1>1. /\ at \in Stages /\ o \in Options /\ r \in Reports /\ p \in Probing
      /\ Progress(answers, probes, at, o, r, p)
    BY CallerIs
<1>2. /\ stage' = stage /\ opts' = opts /\ report' = report /\ UNCHANGED <<webVars, cache>>
      /\ probing' = [probing EXCEPT ![c] = u]
    BY DEF EndBudget, Probe
<1>3. u \in Probing /\ u.todo = p.todo /\ u.seen = p.seen
    BY <1>1 DEF Probing
<1> HIDE DEF u
<1>4. Becomes(stage, stage', c, at) /\ Becomes(opts, opts', c, o)
    BY <1>2 DEF Becomes
<1>5. Becomes(report, report', c, r) /\ Becomes(probing, probing', c, u)
    BY <1>2 DEF Becomes
<1>6. Progress(answers, probes, at, o, r, u)
    BY <1>1, <1>3 DEF Progress, Probed
<1>7. Caller(at, o, r, u)
    BY <1>1, <1>3 DEF Caller
<1> HIDE DEF at, o, r, p
<1> QED BY <1>2, <1>4, <1>5, <1>6, <1>7, MovedOnly

LEMMA SearchInvAlways == SearchSpec => []SearchInv
<1>1. SearchInit => SearchInv
  <2> SUFFICES ASSUME SearchInit PROVE SearchInv
      OBVIOUS
  <2>1. SearchTyped /\ Web(answers, probes)
      BY TypedInit
  <2>2. Justifies(answers, probes, cache)
      BY DEF SearchInit, Justifies
  <2>3. \A c \in Callers : stage[c] = "idle" /\ report[c] = Empty
      BY DEF SearchInit
  <2>4. \A c \in Callers : Progress(answers, probes, stage[c], opts[c], report[c], probing[c])
      BY <2>3 DEF Progress, Kinds
  <2> QED BY <2>1, <2>2, <2>4 DEF SearchInv
<1>2. SearchInv /\ [SearchNext]_searchVars => SearchInv'
  <2> SUFFICES ASSUME SearchInv, [SearchNext]_searchVars PROVE SearchInv'
      OBVIOUS
  <2>1. CASE UNCHANGED <<webVars, stage, opts, report, probing, cache>>
      BY <2>1 DEF SearchInv, SearchTyped, webVars
  <2>2. ASSUME NEW c \in Callers, SearchStep(c) PROVE SearchInv'
    <3>1. CASE LoadSearch(c)
        BY <3>1, LoadKeeps
    <3>2. CASE AskAPIsGuru(c)
      <4> DEFINE source == "apis-guru"
      <4>1. source \in Kinds /\ source # "public-apis" /\ Ask(c, source, Served(c, source))
          BY <3>2 DEF AskAPIsGuru, Kinds
      <4> HIDE DEF source
      <4> QED BY <4>1, AskKeeps
    <3>3. CASE AskLAPRegistry(c)
      <4> DEFINE source == "lap-registry"
      <4>1. source \in Kinds /\ source # "public-apis" /\ Ask(c, source, Served(c, source))
          BY <3>3 DEF AskLAPRegistry, Kinds
      <4> HIDE DEF source
      <4> QED BY <4>1, AskKeeps
    <3>4. CASE AskRFC9727(c)
      <4> DEFINE source == "rfc9727"
                 answer == IF opts[c].provider THEN Served(c, source) ELSE NotAsked
      <4>1. source \in Kinds /\ source # "public-apis" /\ Ask(c, source, answer)
          BY <3>4 DEF AskRFC9727, Kinds
      <4>2. answer = Served(c, source) \/ (answer = NotAsked /\ source = "rfc9727" /\ ~opts[c].provider)
          OBVIOUS
      <4> HIDE DEF source, answer
      <4> QED BY <4>1, <4>2, AskKeeps
    <3>5. CASE AskPublicAPIs(c)
        BY <3>5, PublicKeeps
    <3>6. CASE CheckProbe(c)
        BY <3>6, CheckKeeps
    <3>7. CASE DownloadProbe(c)
        BY <3>7, DownloadKeeps
    <3>8. CASE StoreSearch(c)
        BY <3>8, StoreKeeps
    <3> QED BY <2>2, <3>1, <3>2, <3>3, <3>4, <3>5, <3>6, <3>7, <3>8 DEF SearchStep
  <2>3. ASSUME NEW c \in Callers, EndBudget(c) PROVE SearchInv'
      BY <2>3, BudgetKeeps
  <2>4. ASSUME NEW c \in Callers, NEW o \in Options, Search(c, o) PROVE SearchInv'
      BY <2>4, SearchKeeps
  <2>5. CASE Expire
      BY <2>1, <2>5 DEF Expire
  <2>6. CASE UNCHANGED searchVars
      BY <2>1, <2>6 DEF searchVars
  <2> QED BY <2>2, <2>3, <2>4, <2>5, <2>6 DEF SearchNext
<1> QED BY <1>1, <1>2, PTL DEF SearchSpec

\* Whatever the sources serve and whatever fails, a report without an error, and one
\* that the cache gives later, holds the best of the first source that had anything.
THEOREM ExplainedCorrect == SearchSpec => []ReportsAreExplained
<1>1. SearchInv => ReportsAreExplained
  <2> SUFFICES ASSUME SearchInv PROVE ReportsAreExplained
      OBVIOUS
  <2>1. \A k \in DOMAIN cache : \E o \in Options : Key(o) = k /\ Explained(cache[k], o)
      BY JustifiedIs DEF SearchInv, Justifies
  <2>2. ASSUME NEW c \in Callers, stage[c] = "idle", report[c] # Empty, ~report[c].error
        PROVE  Explained(report[c], opts[c]) \/ (opts[c].mode = "offline" /\ report[c].results = <<>>)
    <3>1. Progress(answers, probes, "idle", opts[c], report[c], probing[c])
        BY <2>2, CallerIs
    <3>2. \/ Justified(answers, probes, report[c], opts[c])
          \/ opts[c].mode = "offline" /\ report[c].results = <<>>
        BY <2>2, <3>1 DEF Progress
    <3> QED BY <3>2, JustifiedIs
  <2> QED BY <2>1, <2>2 DEF ReportsAreExplained
<1> QED BY <1>1, SearchInvAlways, PTL
====
