---- MODULE LocalDiscovery_proofs ----
(***************************************************************************)
(* The limits, the deduplication and the completeness of LocalDiscovery,   *)
(* for every tree of directories, every set of documents and every number  *)
(* of replacements.                                                        *)
(***************************************************************************)
EXTENDS LocalDiscovery, FiniteSetTheorems, WellFoundedInduction, TLAPS

(***************************************************************************)
(* Recursion over the numbers up to n, by the least number it would fail   *)
(* to reach.                                                               *)
(***************************************************************************)
LEMMA LeastNumber == ASSUME NEW S \in SUBSET Nat, S # {} PROVE \E m \in S : \A k \in S : m <= k
<1>1. PICK m \in S : \A k \in S : ~(<<k, m>> \in OpToRel(<, Nat))
    BY NatLessThanWellFounded, WFMin
<1>2. \A k \in S : ~(k < m)
    BY <1>1 DEF OpToRel
<1> QED BY <1>2

LEMMA Recursion ==
    ASSUME NEW A, NEW a \in A, NEW n \in Nat, NEW next \in [1..n -> [A -> A]]
    PROVE  \E f \in [0..n -> A] : f[0] = a /\ \A i \in 1..n : f[i] = next[i][f[i - 1]]
<1> DEFINE Reaches(k, f) == f[0] = a /\ \A i \in 1..k : f[i] = next[i][f[i - 1]]
           Stuck == {k \in 0..n : ~ \E f \in [0..k -> A] : Reaches(k, f)}
<1>1. Stuck = {}
  <2> SUFFICES ASSUME Stuck # {} PROVE FALSE
      OBVIOUS
  <2> HIDE DEF Reaches
  <2>1. PICK m \in Stuck : \A k \in Stuck : m <= k
    <3>1. Stuck \in SUBSET Nat
        OBVIOUS
    <3> HIDE DEF Stuck
    <3> QED BY <3>1, LeastNumber
  <2>2. m # 0
    <3>1. [i \in 0..0 |-> a] \in [0..0 -> A] /\ Reaches(0, [i \in 0..0 |-> a])
        BY DEF Reaches
    <3>2. 0 \notin Stuck
        BY <3>1
    <3> QED BY <3>2
  <2>3. m - 1 \in 0..n /\ m \in 1..n
      BY <2>2
  <2>4. m - 1 \notin Stuck
    <3> HIDE DEF Stuck
    <3> QED BY <2>1, <2>3
  <2>5. PICK f \in [0..(m - 1) -> A] : Reaches(m - 1, f)
      BY <2>3, <2>4
  <2> DEFINE g == [i \in 0..m |-> IF i = m THEN next[m][f[m - 1]] ELSE f[i]]
  <2>6. next[m][f[m - 1]] \in A
    <3>1. m - 1 \in 0..(m - 1)
        BY <2>3
    <3>2. f[m - 1] \in A
        BY <2>5, <3>1
    <3> QED BY <2>3, <3>2
  <2>7. g \in [0..m -> A]
      BY <2>3, <2>5, <2>6
  <2>8. g[0] = a
      BY <2>3, <2>5 DEF Reaches
  <2>9. ASSUME NEW i \in 1..m PROVE g[i] = next[i][g[i - 1]]
    <3>1. g[i] = (IF i = m THEN next[m][f[m - 1]] ELSE f[i]) /\ g[i - 1] = f[i - 1]
        BY <2>3
    <3>2. i \in 1..(m - 1) => f[i] = next[i][f[i - 1]]
        BY <2>5 DEF Reaches
    <3> HIDE DEF g
    <3> QED BY <2>3, <3>1, <3>2
  <2>10. Reaches(m, g)
    <3> HIDE DEF g
    <3> QED BY <2>8, <2>9 DEF Reaches
  <2> HIDE DEF g
  <2> QED BY <2>7, <2>10
<1> HIDE DEF Reaches
<1>2. \E f \in [0..n -> A] : Reaches(n, f)
    BY <1>1
<1> QED BY <1>2 DEF Reaches

LEMMA AppendRange ==
    ASSUME NEW X, NEW s \in Seq(X), NEW e \in X
    PROVE  Append(s, e) \in Seq(X) /\ Range(Append(s, e)) = Range(s) \cup {e}
<1>1. /\ Append(s, e) \in Seq(X) /\ Len(Append(s, e)) = Len(s) + 1 /\ Len(s) \in Nat
      /\ Append(s, e)[Len(s) + 1] = e /\ \A i \in 1..Len(s) : Append(s, e)[i] = s[i]
    OBVIOUS
<1>2. DOMAIN s = 1..Len(s) /\ DOMAIN Append(s, e) = 1..(Len(s) + 1)
    OBVIOUS
<1> QED BY <1>1, <1>2 DEF Range

\* Those selects the elements that are in the set, and nothing else.
LEMMA ThoseAre ==
    ASSUME NEW X, NEW seq \in Seq(X), NEW set
    PROVE  Those(seq, set) \in Seq(X) /\ Range(Those(seq, set)) = Range(seq) \cap set
<1> DEFINE n == Len(seq)
           In(i) == seq[i] \in set
           next == [i \in 1..n |-> [s \in Seq(X) |-> IF In(i) THEN Append(s, seq[i]) ELSE s]]
           Rec(f) == [i \in 0..n |-> IF i = 0 THEN <<>> ELSE IF In(i) THEN Append(f[i - 1], seq[i])
                                                       ELSE f[i - 1]]
<1>1. n \in Nat /\ <<>> \in Seq(X) /\ \A i \in 1..n : seq[i] \in X
    OBVIOUS
<1>2. next \in [1..n -> [Seq(X) -> Seq(X)]]
  <2> SUFFICES ASSUME NEW i \in 1..n, NEW s \in Seq(X)
               PROVE  (IF In(i) THEN Append(s, seq[i]) ELSE s) \in Seq(X)
      OBVIOUS
  <2>1. seq[i] \in X
      BY <1>1
  <2>2. Append(s, seq[i]) \in Seq(X)
      BY <2>1
  <2> HIDE DEF In
  <2> QED BY <2>2
<1>3. PICK f \in [0..n -> Seq(X)] : f[0] = <<>> /\ \A i \in 1..n : f[i] = next[i][f[i - 1]]
  <2> DEFINE S == Seq(X)
             empty == <<>>
  <2>1. empty \in S /\ n \in Nat /\ next \in [1..n -> [S -> S]]
      BY <1>1, <1>2
  <2> HIDE DEF next, n, S, empty
  <2>2. \E f \in [0..n -> S] : f[0] = empty /\ \A i \in 1..n : f[i] = next[i][f[i - 1]]
      BY <2>1, Recursion
  <2> QED BY <2>2 DEF S, empty
<1>4. \A i \in 1..n : f[i] = IF In(i) THEN Append(f[i - 1], seq[i]) ELSE f[i - 1]
  <2> SUFFICES ASSUME NEW i \in 1..n
               PROVE  f[i] = IF In(i) THEN Append(f[i - 1], seq[i]) ELSE f[i - 1]
      OBVIOUS
  <2>1. i - 1 \in 0..n
      BY <1>1
  <2>2. f[i - 1] \in Seq(X)
      BY <2>1
  <2>3. f[i] = next[i][f[i - 1]]
      BY <1>3
  <2> HIDE DEF In, n
  <2> QED BY <2>2, <2>3
<1>5. f = Rec(f)
  <2>1. f = [i \in 0..n |-> f[i]]
      BY <1>3
  <2>2. \A i \in 0..n : f[i] = Rec(f)[i]
    <3> SUFFICES ASSUME NEW i \in 0..n PROVE f[i] = Rec(f)[i]
        OBVIOUS
    <3> HIDE DEF In, n
    <3>1. Rec(f)[i] = IF i = 0 THEN <<>> ELSE IF In(i) THEN Append(f[i - 1], seq[i]) ELSE f[i - 1]
        OBVIOUS
    <3> HIDE DEF Rec
    <3>2. i = 0 \/ i \in 1..n
        BY <1>1
    <3>3. i \in 1..n => i # 0
        BY <1>1
    <3> QED BY <1>3, <1>4, <3>1, <3>2, <3>3
  <2> HIDE DEF In, n
  <2> QED BY <2>1, <2>2
<1> DEFINE upTo == CHOOSE g : g = Rec(g)
<1>6. upTo = Rec(upTo)
  <2> HIDE DEF Rec
  <2> QED BY <1>5
<1>7. Those(seq, set) = upTo[n]
    BY DEF Those
<1> DEFINE First(i) == {seq[j] : j \in 1..i} \cap set
           Right(i) == upTo[i] \in Seq(X) /\ Range(upTo[i]) = First(i)
           Wrong == {i \in 0..n : ~Right(i)}
<1>8. Wrong = {}
  <2> SUFFICES ASSUME Wrong # {} PROVE FALSE
      OBVIOUS
  <2>1. PICK m \in Wrong : \A k \in Wrong : m <= k
    <3>1. Wrong \in SUBSET Nat
        BY <1>1
    <3> HIDE DEF Wrong
    <3> QED BY <3>1, LeastNumber
  <2>2. upTo[0] = <<>> /\ \A i \in 1..n : upTo[i] = IF In(i) THEN Append(upTo[i - 1], seq[i]) ELSE upTo[i - 1]
    <3> HIDE DEF In
    <3>1. \A i \in 0..n : upTo[i] = IF i = 0 THEN <<>> ELSE IF In(i) THEN Append(upTo[i - 1], seq[i])
                                                      ELSE upTo[i - 1]
      <4> HIDE DEF upTo
      <4> QED BY <1>6
    <3> HIDE DEF upTo
    <3> QED BY <1>1, <3>1
  <2> HIDE DEF upTo
  <2>3. Right(0)
    <3>1. First(0) = {} /\ Range(<<>>) = {}
        BY DEF Range
    <3> QED BY <1>1, <2>2, <3>1
  <2>4. m \in 1..n /\ m - 1 \in 0..n /\ ~(m <= m - 1)
    <3> HIDE DEF Right
    <3>1. m \in 0..n /\ m # 0
        BY <2>1, <2>3
    <3> HIDE DEF Wrong
    <3> QED BY <1>1, <3>1
  <2>5. Right(m - 1)
    <3> HIDE DEF Right
    <3> QED BY <2>1, <2>4
  <2>6. First(m) = First(m - 1) \cup ({seq[m]} \cap set)
    <3>1. 1..m = 1..(m - 1) \cup {m}
        BY <1>1, <2>4
    <3> QED BY <3>1
  <2>7. Right(m)
    <3> DEFINE before == upTo[m - 1]
    <3>1. before \in Seq(X) /\ seq[m] \in X /\ Range(before) = First(m - 1)
        BY <1>1, <2>4, <2>5
    <3>2. upTo[m] = IF seq[m] \in set THEN Append(before, seq[m]) ELSE before
        BY <2>2, <2>4
    <3> HIDE DEF before, First
    <3>3. Append(before, seq[m]) \in Seq(X) /\ Range(Append(before, seq[m])) = Range(before) \cup {seq[m]}
        BY <3>1, AppendRange
    <3>4. CASE seq[m] \in set
      <4>1. First(m) = First(m - 1) \cup {seq[m]}
          BY <2>6, <3>4
      <4> QED BY <3>1, <3>2, <3>3, <3>4, <4>1
    <3>5. CASE seq[m] \notin set
      <4>1. First(m) = First(m - 1)
          BY <2>6, <3>5
      <4> QED BY <3>1, <3>2, <3>5, <4>1
    <3> QED BY <3>4, <3>5
  <2> QED BY <2>1, <2>7
<1>9. First(n) = Range(seq) \cap set
    BY <1>1 DEF Range
<1>10. Right(n)
  <2> HIDE DEF Right
  <2> QED BY <1>1, <1>8
<1> HIDE DEF upTo, First
<1> QED BY <1>7, <1>9, <1>10

----------------------------------------------------------------------------
Reported == Seq(Candidate)

\* What the steps rely on: the file that is read exists as a name and what
\* Lstat saw of it is a document.
Reading ==
    /\ disk \in [Files -> Documents]
    /\ pc \in {"walk", "lstat", "open", "stop", "done", "error"}
    /\ pc \in {"lstat", "open"} => at \in Files
    /\ pc = "open" => seen \in Documents
    /\ candidates \in Reported

\* A limit that is reached has stopped the walk.
Stopped ==
    /\ visited \in Nat /\ visited <= MaxVisited
    /\ Len(candidates) <= MaxCandidates
    /\ Len(candidates) = MaxCandidates => pc \in {"stop", "done"}

\* byDigest is the index of candidates by their content, until they are sorted.
Indexed ==
    pc # "done" =>
       /\ \A i \in DOMAIN candidates :
             candidates[i].content \in DOMAIN byDigest /\ byDigest[candidates[i].content] = i
       /\ \A c \in DOMAIN byDigest :
             byDigest[c] \in DOMAIN candidates /\ candidates[byDigest[c]].content = c

IInv == Reading /\ Stopped /\ Indexed /\ ContentsDiffer

LEMMA InitInv == Init => IInv
  BY PathAssumption, LimitAssumption DEF Init, IInv, Reading, Stopped, Indexed, ContentsDiffer, Reported

\* A step of the walk leaves the candidates and the index alone.
LEMMA WalkKeeps ==
    ASSUME IInv, UNCHANGED foundVars, pc \in {"walk", "lstat", "open"},
           disk' \in [Files -> Documents],
           pc' \in {"walk", "lstat", "open", "stop", "error"},
           pc' \in {"lstat", "open"} => at' \in Files,
           pc' = "open" => seen' \in Documents,
           visited' \in Nat /\ visited' <= MaxVisited
    PROVE  IInv'
  BY LimitAssumption DEF IInv, Reading, Stopped, Indexed, ContentsDiffer, foundVars

LEMMA InspectSteps ==
    ASSUME NEW f \in Files, NEW info, Inspect(f, info)
    PROVE  /\ pc' \in {"walk", "lstat"}
           /\ pc' = "lstat" => at' \in Files
  BY DEF Inspect, Proceed, Reject

LEMMA StartRootKeeps == IInv /\ StartRoot => IInv'
<1> SUFFICES ASSUME IInv, StartRoot PROVE IInv'
    OBVIOUS
<1> DEFINE root == Head(roots)
           regular == root \in Files /\ disk[root].type = "regular"
<1>1. pc = "walk" /\ UNCHANGED <<foundVars, inputVars, seen>>
    BY DEF StartRoot
<1>2. disk' \in [Files -> Documents]
    BY <1>1 DEF IInv, Reading, inputVars
<1>3. CASE root \in Dirs /\ Proceed /\ UNCHANGED visited
    BY <1>1, <1>2, <1>3, WalkKeeps DEF Proceed, IInv, Stopped
<1>4. CASE StopAtEntries
    BY <1>1, <1>2, <1>4, WalkKeeps DEF StopAtEntries, Limit, IInv, Stopped
<1>5. CASE regular /\ ~AtEntryLimit /\ visited' = visited + 1 /\ Inspect(root, disk[root])
  <2>1. pc' \in {"walk", "lstat"} /\ (pc' = "lstat" => at' \in Files)
      BY <1>5, InspectSteps
  <2>2. visited' \in Nat /\ visited' <= MaxVisited
      BY <1>5, LimitAssumption DEF AtEntryLimit, IInv, Stopped
  <2> QED BY <1>1, <1>2, <2>1, <2>2, WalkKeeps
<1>6. CASE Fail /\ UNCHANGED visited
    BY <1>1, <1>2, <1>6, WalkKeeps DEF Fail, IInv, Stopped
<1> QED BY <1>3, <1>4, <1>5, <1>6 DEF StartRoot

LEMMA VisitKeeps == IInv /\ Visit => IInv'
<1> SUFFICES ASSUME IInv, Visit PROVE IInv'
    OBVIOUS
<1> DEFINE p == Head(todo).path
           link == Head(todo).link
<1>1. pc = "walk" /\ UNCHANGED <<foundVars, inputVars, seen>>
    BY DEF Visit
<1>2. disk' \in [Files -> Documents]
    BY <1>1 DEF IInv, Reading, inputVars
<1>3. CASE StopAtEntries
    BY <1>1, <1>2, <1>3, WalkKeeps DEF StopAtEntries, Limit, IInv, Stopped
<1>4. CASE ~AtEntryLimit /\ visited' = visited + 1 /\ VisitPath(p, link)
  <2>1. visited' \in Nat /\ visited' <= MaxVisited
      BY <1>4, LimitAssumption DEF AtEntryLimit, IInv, Stopped
  <2>2. CASE Proceed
      BY <1>1, <1>2, <2>1, <2>2, WalkKeeps DEF Proceed
  <2>3. CASE pc' = "walk" /\ UNCHANGED at
      BY <1>1, <1>2, <2>1, <2>3, WalkKeeps
  <2>4. CASE Fail
      BY <1>1, <1>2, <2>1, <2>4, WalkKeeps DEF Fail
  <2>5. CASE p \in Files /\ Inspect(p, disk[p])
    <3>1. pc' \in {"walk", "lstat"} /\ (pc' = "lstat" => at' \in Files)
        BY <2>5, InspectSteps
    <3> QED BY <1>1, <1>2, <2>1, <3>1, WalkKeeps
  <2> QED BY <1>4, <2>2, <2>3, <2>4, <2>5 DEF VisitPath
<1> QED BY <1>3, <1>4 DEF Visit

LEMMA LstatKeeps == IInv /\ Lstat => IInv'
<1> SUFFICES ASSUME IInv, Lstat PROVE IInv'
    OBVIOUS
<1>1. pc = "lstat" /\ at \in Files /\ UNCHANGED <<foundVars, disk, visited>>
    BY DEF Lstat, inputVars, walkVars, IInv, Reading
<1>2. pc' \in {"walk", "open"} /\ (pc' = "open" => at' = at /\ seen' = disk[at])
    BY DEF Lstat
<1> QED BY <1>1, <1>2, WalkKeeps DEF IInv, Reading, Stopped

LEMMA NewCandidateKeeps ==
    ASSUME IInv, pc = "open", UNCHANGED <<disk, visited>>,
           NEW f \in Files, NEW kind \in Kinds, NEW c \in Contents, c \notin DOMAIN byDigest,
           NewCandidate(f, kind, c)
    PROVE  IInv'
<1> DEFINE new == [path |-> f, kind |-> kind, content |-> c, duplicates |-> {}]
<1>1. new \in Candidate
    BY DEF Candidate
<1>2. candidates \in Reported /\ Len(candidates) < MaxCandidates
    BY LimitAssumption DEF IInv, Reading, Stopped, Reported
<1>3. /\ candidates' \in Reported /\ Len(candidates') = Len(candidates) + 1
      /\ DOMAIN candidates' = 1..(Len(candidates) + 1) /\ DOMAIN candidates = 1..Len(candidates)
      /\ candidates'[Len(candidates) + 1] = new
      /\ \A i \in DOMAIN candidates : candidates'[i] = candidates[i]
    BY <1>1, <1>2 DEF NewCandidate, Reported
<1>4. pc' \in {"walk", "stop"} /\ (Len(candidates') >= MaxCandidates <=> pc' = "stop")
    BY <1>3 DEF NewCandidate, Limit
<1>5. Reading'
    BY <1>3, <1>4 DEF IInv, Reading
<1>6. Stopped'
    BY <1>2, <1>3, <1>4, LimitAssumption DEF IInv, Stopped, Reported
<1>7. /\ DOMAIN byDigest' = DOMAIN byDigest \cup {c}
      /\ byDigest'[c] = Len(candidates) + 1
      /\ \A d \in DOMAIN byDigest : byDigest'[d] = byDigest[d]
    BY DEF NewCandidate
<1>8. \A i \in DOMAIN candidates' :
         candidates'[i].content \in DOMAIN byDigest' /\ byDigest'[candidates'[i].content] = i
  <2> SUFFICES ASSUME NEW i \in DOMAIN candidates'
               PROVE  candidates'[i].content \in DOMAIN byDigest' /\ byDigest'[candidates'[i].content] = i
      OBVIOUS
  <2>1. CASE i \in DOMAIN candidates
      BY <1>3, <1>7, <2>1 DEF IInv, Indexed
  <2>2. CASE i = Len(candidates) + 1
      BY <1>3, <1>7, <2>2
  <2> QED BY <1>2, <1>3, <2>1, <2>2 DEF Reported
<1>9. \A d \in DOMAIN byDigest' :
         byDigest'[d] \in DOMAIN candidates' /\ candidates'[byDigest'[d]].content = d
  <2> SUFFICES ASSUME NEW d \in DOMAIN byDigest'
               PROVE  byDigest'[d] \in DOMAIN candidates' /\ candidates'[byDigest'[d]].content = d
      OBVIOUS
  <2>1. CASE d = c
      BY <1>2, <1>3, <1>7, <2>1 DEF Reported
  <2>2. CASE d \in DOMAIN byDigest
      BY <1>2, <1>3, <1>7, <2>2 DEF IInv, Indexed, Reported
  <2> QED BY <1>7, <2>1, <2>2
<1>10. ContentsDiffer'
    BY <1>8 DEF ContentsDiffer
<1> QED BY <1>5, <1>6, <1>8, <1>9, <1>10 DEF IInv, Indexed

LEMMA ReplaceElement ==
    ASSUME NEW S, NEW seq \in Seq(S), NEW i \in DOMAIN seq, NEW e \in S, NEW new, new = [seq EXCEPT ![i] = e]
    PROVE  new \in Seq(S) /\ Len(new) = Len(seq) /\ DOMAIN new = DOMAIN seq
  OBVIOUS

LEMMA DuplicateKeeps ==
    ASSUME IInv, pc = "open", UNCHANGED <<disk, visited>>,
           NEW f \in Files, NEW c \in DOMAIN byDigest,
           candidates' = [candidates EXCEPT ![byDigest[c]].duplicates = @ \cup {f}],
           pc' = "walk", UNCHANGED byDigest
    PROVE  IInv'
<1> DEFINE k == byDigest[c]
           old == candidates[k]
           new == [old EXCEPT !.duplicates = old.duplicates \cup {f}]
<1>1. k \in DOMAIN candidates /\ candidates \in Reported
    BY DEF IInv, Indexed, Reading
<1>2. old \in Candidate
    BY <1>1 DEF Reported
<1>3. new \in Candidate /\ new.content = old.content
    BY <1>2 DEF Candidate
<1>4. candidates' = [candidates EXCEPT ![k] = new]
    OBVIOUS
<1> HIDE DEF new, old, k
<1>5. /\ candidates' \in Reported /\ Len(candidates') = Len(candidates)
      /\ DOMAIN candidates' = DOMAIN candidates
  <2> HIDE DEF Candidate
  <2>1. candidates \in Seq(Candidate)
      BY <1>1 DEF Reported
  <2> QED BY <1>1, <1>3, <1>4, <2>1, ReplaceElement DEF Reported
<1>6. \A i \in DOMAIN candidates : candidates'[i].content = candidates[i].content
    BY <1>1, <1>3, <1>4 DEF Reported, old
<1>7. Reading' /\ Stopped'
    BY <1>5 DEF IInv, Reading, Stopped
<1>8. Indexed' /\ ContentsDiffer'
    BY <1>5, <1>6 DEF IInv, Indexed, ContentsDiffer
<1> QED BY <1>7, <1>8 DEF IInv

LEMMA ReadKeeps == IInv /\ Read => IInv'
<1> SUFFICES ASSUME IInv, Read PROVE IInv'
    OBVIOUS
<1> DEFINE verdict == Verdict(at, seen.content)
<1>1. pc = "open" /\ at \in Files /\ seen \in Documents /\ UNCHANGED <<disk, visited>>
    BY DEF Read, inputVars, walkVars, IInv, Reading
<1>2. seen.content \in Contents
    BY <1>1, PathAssumption DEF Document
<1>3. CASE verdict \in Kinds /\ Accept(at, verdict, seen.content)
  <2> HIDE DEF verdict
  <2>1. CASE seen.content \in DOMAIN byDigest
      BY <1>1, <1>3, <2>1, DuplicateKeeps DEF Accept
  <2>2. CASE seen.content \notin DOMAIN byDigest
      BY <1>1, <1>2, <1>3, <2>2, NewCandidateKeeps DEF Accept
  <2> QED BY <2>1, <2>2
<1>4. CASE pc' = "walk" /\ UNCHANGED foundVars
    BY <1>1, <1>4, WalkKeeps DEF IInv, Reading, Stopped
<1> QED BY <1>3, <1>4 DEF Read, reportVars

LEMMA FinishKeeps == IInv /\ Finish => IInv'
<1> SUFFICES ASSUME IInv, Finish PROVE IInv'
    OBVIOUS
<1> DEFINE D == DOMAIN candidates
<1>1. PICK f \in Bijection(D, D) : candidates' = [i \in D |-> candidates[f[i]]]
    BY DEF Finish
<1>2. f \in [D -> D] /\ \A i, j \in D : f[i] = f[j] => i = j
    BY <1>1 DEF Bijection, Injection, IsInjective
<1>3. candidates \in Reported /\ D = 1..Len(candidates)
    BY DEF IInv, Reading, Reported
<1>4. candidates' \in Reported /\ Len(candidates') = Len(candidates) /\ DOMAIN candidates' = D
    BY <1>1, <1>2, <1>3 DEF Reported
<1>5. ContentsDiffer'
    BY <1>1, <1>2, <1>4 DEF IInv, ContentsDiffer
<1>6. pc' = "done" /\ UNCHANGED <<disk, visited>>
    BY DEF Finish, inputVars, walkVars
<1> QED BY <1>4, <1>5, <1>6 DEF IInv, Reading, Stopped, Indexed

LEMMA ChangeKeeps == ASSUME NEW f \in Files, IInv, Change(f) PROVE IInv'
<1>1. disk' \in [Files -> Documents]
    BY DEF Change, IInv, Reading
<1>2. UNCHANGED <<visited, at, seen, candidates, byDigest, pc>>
    BY DEF Change, walkVars, readVars, reportVars, foundVars
<1> QED BY <1>1, <1>2 DEF IInv, Reading, Stopped, Indexed, ContentsDiffer

LEMMA NextKeeps == IInv /\ [Next]_vars => IInv'
<1>1. CASE UNCHANGED vars
    BY <1>1 DEF vars, inputVars, walkVars, readVars, reportVars, foundVars,
                IInv, Reading, Stopped, Indexed, ContentsDiffer
<1> QED BY <1>1, StartRootKeeps, VisitKeeps, LstatKeeps, ReadKeeps, FinishKeeps, ChangeKeeps DEF Next

THEOREM InvCorrect == Spec => []IInv
  BY InitInv, NextKeeps, PTL DEF Spec

\* The report keeps to both limits, however the roots overlap and whatever
\* is replaced under the walk.
THEOREM LimitsCorrect == Spec => []WithinLimits
<1>1. IInv => WithinLimits
    BY DEF IInv, Stopped, WithinLimits
<1> QED BY <1>1, InvCorrect, PTL

\* No content is reported as two candidates, not even after the sort.
THEOREM DedupCorrect == Spec => []ContentsDiffer
<1>1. IInv => ContentsDiffer
    BY DEF IInv
<1> QED BY <1>1, InvCorrect, PTL
----------------------------------------------------------------------------
(***************************************************************************)
(* How often a file is mentioned: lemmas on sequences and on counts.       *)
(***************************************************************************)
LEMMA TailRange ==
    ASSUME NEW X, NEW s \in Seq(X), s # <<>>
    PROVE  /\ Tail(s) \in Seq(X) /\ Head(s) \in Range(s)
           /\ Range(Tail(s)) \subseteq Range(s) /\ Range(s) \subseteq Range(Tail(s)) \cup {Head(s)}
<1>1. /\ Tail(s) \in Seq(X) /\ Len(s) \in Nat \ {0} /\ Len(Tail(s)) = Len(s) - 1
      /\ \A i \in 1..(Len(s) - 1) : Tail(s)[i] = s[i + 1]
      /\ Head(s) = s[1]
    OBVIOUS
<1>2. DOMAIN s = 1..Len(s) /\ DOMAIN Tail(s) = 1..(Len(s) - 1)
    BY <1>1
<1>3. \A i \in 1..(Len(s) - 1) : i + 1 \in 1..Len(s)
    BY <1>1
<1>4. \A i \in 1..Len(s) : i = 1 \/ (i - 1 \in 1..(Len(s) - 1) /\ i = (i - 1) + 1)
    BY <1>1
<1>5. Range(s) \subseteq Range(Tail(s)) \cup {Head(s)}
  <2> SUFFICES ASSUME NEW i \in 1..Len(s) PROVE s[i] \in Range(Tail(s)) \cup {Head(s)}
      BY <1>2 DEF Range
  <2>1. CASE i = 1
      BY <1>1, <2>1
  <2>2. CASE i - 1 \in 1..(Len(s) - 1)
    <3>1. Tail(s)[i - 1] = s[i]
        BY <1>1, <1>4, <2>2
    <3> QED BY <1>2, <2>2, <3>1 DEF Range
  <2> QED BY <1>4, <2>1, <2>2
<1>6. 1 \in 1..Len(s)
    BY <1>1
<1> QED BY <1>1, <1>2, <1>3, <1>5, <1>6 DEF Range

LEMMA ConcatRange ==
    ASSUME NEW X, NEW s \in Seq(X), NEW t \in Seq(X)
    PROVE  s \o t \in Seq(X) /\ Range(s \o t) \subseteq Range(s) \cup Range(t)
           /\ Range(s) \cup Range(t) \subseteq Range(s \o t)
<1>1. /\ s \o t \in Seq(X) /\ Len(s) \in Nat /\ Len(t) \in Nat /\ Len(s \o t) = Len(s) + Len(t)
      /\ \A i \in 1..Len(s) : (s \o t)[i] = s[i]
      /\ \A i \in 1..Len(t) : (s \o t)[Len(s) + i] = t[i]
    OBVIOUS
<1>2. DOMAIN s = 1..Len(s) /\ DOMAIN t = 1..Len(t) /\ DOMAIN (s \o t) = 1..(Len(s) + Len(t))
    BY <1>1
<1>3. \A i \in 1..(Len(s) + Len(t)) :
         i \in 1..Len(s) \/ (i - Len(s) \in 1..Len(t) /\ i = Len(s) + (i - Len(s)))
    BY <1>1
<1>4. ASSUME NEW i \in 1..(Len(s) + Len(t)) PROVE (s \o t)[i] \in Range(s) \cup Range(t)
  <2>1. CASE i \in 1..Len(s)
      BY <1>1, <1>2, <2>1 DEF Range
  <2>2. CASE i - Len(s) \in 1..Len(t) /\ i = Len(s) + (i - Len(s))
    <3>1. (s \o t)[i] = t[i - Len(s)]
        BY <1>1, <2>2
    <3> QED BY <1>2, <2>2, <3>1 DEF Range
  <2> QED BY <1>3, <2>1, <2>2
<1>5. \A i \in 1..Len(s) : i \in 1..(Len(s) + Len(t))
    BY <1>1
<1>6. \A i \in 1..Len(t) : Len(s) + i \in 1..(Len(s) + Len(t))
    BY <1>1
<1>7. Range(s) \cup Range(t) \subseteq Range(s \o t)
  <2>1. ASSUME NEW i \in 1..Len(s) PROVE s[i] \in Range(s \o t)
    <3>1. (s \o t)[i] = s[i]
        BY <1>1
    <3> QED BY <1>2, <1>5, <3>1 DEF Range
  <2>2. ASSUME NEW i \in 1..Len(t) PROVE t[i] \in Range(s \o t)
    <3>1. (s \o t)[Len(s) + i] = t[i]
        BY <1>1
    <3> QED BY <1>2, <1>6, <3>1 DEF Range
  <2> QED BY <1>2, <2>1, <2>2 DEF Range
<1>8. Range(s \o t) \subseteq Range(s) \cup Range(t)
    BY <1>2, <1>4 DEF Range
<1> QED BY <1>1, <1>7, <1>8

\* The candidates at a path, and those that have it as a duplicate.
At(list, f) == {i \in DOMAIN list : list[i].path = f}
With(list, f) == {i \in DOMAIN list : f \in list[i].duplicates}

LEMMA CountType ==
    ASSUME NEW list \in Reported, NEW f
    PROVE  /\ IsFiniteSet(At(list, f)) /\ Cardinality(At(list, f)) \in Nat
           /\ IsFiniteSet(With(list, f)) /\ Cardinality(With(list, f)) \in Nat
<1>1. DOMAIN list = 1..Len(list) /\ Len(list) \in Nat
    BY DEF Reported
<1>2. IsFiniteSet(DOMAIN list)
    BY <1>1, FS_Interval
<1>3. IsFiniteSet(At(list, f)) /\ IsFiniteSet(With(list, f))
    BY <1>2, FS_Subset DEF At, With
<1> QED BY <1>3, FS_CardinalityType

LEMMA CountNew ==
    ASSUME NEW list \in Reported, NEW c \in Candidate, c.duplicates = {}, NEW f
    PROVE  /\ c.path # f => At(Append(list, c), f) = At(list, f)
           /\ c.path = f => Cardinality(At(Append(list, c), f)) = Cardinality(At(list, f)) + 1
           /\ With(Append(list, c), f) = With(list, f)
<1> DEFINE n == Len(list)
           new == Append(list, c)
<1>1. /\ n \in Nat /\ DOMAIN list = 1..n /\ DOMAIN new = 1..(n + 1)
      /\ new[n + 1] = c /\ \A i \in 1..n : new[i] = list[i]
    BY DEF Reported
<1>2. 1..(n + 1) = 1..n \cup {n + 1} /\ n + 1 \notin 1..n
    BY <1>1
<1> HIDE DEF n, new
<1>3. c.path # f => At(new, f) = At(list, f)
    BY <1>1, <1>2 DEF At
<1>4. With(new, f) = With(list, f)
    BY <1>1, <1>2 DEF With
<1>5. ASSUME c.path = f PROVE Cardinality(At(new, f)) = Cardinality(At(list, f)) + 1
  <2>1. At(new, f) = At(list, f) \cup {n + 1} /\ n + 1 \notin At(list, f)
      BY <1>1, <1>2, <1>5 DEF At
  <2> QED BY <2>1, CountType, FS_AddElement
<1> QED BY <1>3, <1>4, <1>5 DEF new

LEMMA CountSorted ==
    ASSUME NEW list \in Reported, NEW g \in Bijection(DOMAIN list, DOMAIN list), NEW f
    PROVE  LET sorted == [i \in DOMAIN list |-> list[g[i]]] IN
           /\ Cardinality(At(sorted, f)) = Cardinality(At(list, f))
           /\ Cardinality(With(sorted, f)) = Cardinality(With(list, f))
<1> DEFINE D == DOMAIN list
           sorted == [i \in D |-> list[g[i]]]
<1>1. /\ g \in [D -> D] /\ \A i, j \in D : g[i] = g[j] => i = j
      /\ \A j \in D : \E i \in D : g[i] = j
    BY DEF Bijection, Injection, Surjection, IsInjective
<1>2. ASSUME NEW S \in SUBSET D, NEW T \in SUBSET D, T = {i \in D : g[i] \in S}
      PROVE  Cardinality(T) = Cardinality(S)
  <2> DEFINE h == [i \in T |-> g[i]]
  <2>1. h \in [T -> S] /\ IsInjective(h)
      BY <1>1, <1>2 DEF IsInjective
  <2>2. \A j \in S : \E i \in T : h[i] = j
      BY <1>1, <1>2
  <2>3. h \in Bijection(T, S)
    <3> HIDE DEF h
    <3> QED BY <2>1, <2>2 DEF Bijection, Injection, Surjection
  <2>4. IsFiniteSet(T)
    <3>1. DOMAIN list = 1..Len(list) /\ Len(list) \in Nat
        BY DEF Reported
    <3>2. IsFiniteSet(D)
        BY <3>1, FS_Interval
    <3> QED BY <3>2, FS_Subset
  <2>5. ExistsBijection(T, S)
      BY <2>3 DEF ExistsBijection
  <2> QED BY <2>4, <2>5, FS_Bijection
<1>3. At(sorted, f) = {i \in D : g[i] \in At(list, f)} /\ At(sorted, f) \in SUBSET D /\ At(list, f) \in SUBSET D
    BY <1>1 DEF At
<1>4. With(sorted, f) = {i \in D : g[i] \in With(list, f)} /\ With(sorted, f) \in SUBSET D /\ With(list, f) \in SUBSET D
    BY <1>1 DEF With
<1> HIDE DEF sorted, D
<1>5. Cardinality(At(sorted, f)) = Cardinality(At(list, f))
    BY <1>2, <1>3
<1>6. Cardinality(With(sorted, f)) = Cardinality(With(list, f))
    BY <1>2, <1>4
<1> QED BY <1>5, <1>6 DEF sorted, D

----------------------------------------------------------------------------
(***************************************************************************)
(* What the steps do to the number of mentions.                            *)
(***************************************************************************)
Entry == [path : Paths, link : BOOLEAN]

\* Types of the walk, and what Lstat let pass.
Booked ==
    /\ given \in Seq(Paths) /\ roots \in Seq(Paths) /\ todo \in Seq(Entry)
    /\ rejected \in [Files -> Nat] /\ ambiguous \in [Files -> Nat]
    /\ pc = "open" => seen.type = "regular" /\ ~seen.large

Same(f) == Mentions(f)' = Mentions(f)
\* A step that mentions f once more, or as a duplicate of a candidate again.
Adds(f) ==
    /\ Mentions(f)' \in {Mentions(f), Mentions(f) + 1} /\ Mentions(f)' > 0
    /\ \A g \in Files \ {f} : Same(g)

LEMMA MentionsAre ==
    ASSUME IInv, Booked, NEW f \in Files
    PROVE  /\ Mentions(f) = rejected[f] + ambiguous[f] + Cardinality(At(candidates, f))
                              + Cardinality(With(candidates, f))
           /\ rejected[f] \in Nat /\ ambiguous[f] \in Nat /\ Mentions(f) \in Nat
           /\ Cardinality(At(candidates, f)) \in Nat /\ Cardinality(With(candidates, f)) \in Nat
<1>1. candidates \in Reported
    BY DEF IInv, Reading
<1>2. /\ rejected[f] \in Nat /\ ambiguous[f] \in Nat
      /\ Cardinality(At(candidates, f)) \in Nat /\ Cardinality(With(candidates, f)) \in Nat
    BY <1>1, CountType DEF Booked
<1>3. Mentions(f) = rejected[f] + ambiguous[f] + Cardinality(At(candidates, f))
                              + Cardinality(With(candidates, f))
    BY DEF Mentions, At, With
<1> QED BY <1>2, <1>3

LEMMA MentionsNext ==
    ASSUME NEW f
    PROVE  Mentions(f)' = rejected'[f] + ambiguous'[f] + Cardinality(At(candidates', f))
                            + Cardinality(With(candidates', f))
  BY DEF Mentions, At, With

LEMMA KeepsMentions ==
    ASSUME UNCHANGED <<candidates, rejected, ambiguous>>, NEW f PROVE Same(f)
  BY DEF Same, Mentions

LEMMA RejectAdds ==
    ASSUME IInv, Booked, NEW f \in Files, Reject(f), UNCHANGED <<candidates, ambiguous>>
    PROVE  Adds(f) /\ Mentions(f)' = Mentions(f) + 1
<1>1. \A g \in Files : rejected'[g] = IF g = f THEN rejected[f] + 1 ELSE rejected[g]
    BY DEF Reject, Booked
<1>2. \A g \in Files \ {f} : Same(g)
    BY <1>1, MentionsNext, MentionsAre DEF Same
<1>3. Mentions(f)' = Mentions(f) + 1
    BY <1>1, MentionsNext, MentionsAre
<1> QED BY <1>2, <1>3, MentionsAre DEF Adds

LEMMA AmbiguousAdds ==
    ASSUME IInv, Booked, NEW f \in Files, ambiguous' = [ambiguous EXCEPT ![f] = @ + 1],
           UNCHANGED <<candidates, rejected>>
    PROVE  Adds(f)
<1>1. \A g \in Files : ambiguous'[g] = IF g = f THEN ambiguous[f] + 1 ELSE ambiguous[g]
    BY DEF Booked
<1>2. \A g \in Files \ {f} : Same(g)
    BY <1>1, MentionsNext, MentionsAre DEF Same
<1>3. Mentions(f)' = Mentions(f) + 1
    BY <1>1, MentionsNext, MentionsAre
<1> QED BY <1>2, <1>3, MentionsAre DEF Adds

LEMMA NewAdds ==
    ASSUME IInv, Booked, NEW f \in Files, NEW kind \in Kinds, NEW c \in Contents,
           NewCandidate(f, kind, c), UNCHANGED <<rejected, ambiguous>>
    PROVE  Adds(f)
<1> DEFINE new == [path |-> f, kind |-> kind, content |-> c, duplicates |-> {}]
<1>1. new \in Candidate /\ new.duplicates = {} /\ new.path = f
    BY DEF Candidate
<1>2. candidates' = Append(candidates, new) /\ candidates \in Reported
    BY DEF NewCandidate, IInv, Reading
<1> HIDE DEF new
<1>3. ASSUME NEW g \in Files \ {f} PROVE Same(g)
  <2>1. At(candidates', g) = At(candidates, g) /\ With(candidates', g) = With(candidates, g)
      BY <1>1, <1>2, CountNew
  <2> QED BY <2>1, MentionsNext, MentionsAre DEF Same
<1>4. /\ Cardinality(At(candidates', f)) = Cardinality(At(candidates, f)) + 1
      /\ With(candidates', f) = With(candidates, f)
    BY <1>1, <1>2, CountNew
<1>5. Mentions(f)' = Mentions(f) + 1
    BY <1>4, MentionsNext, MentionsAre
<1> QED BY <1>3, <1>5, MentionsAre DEF Adds

LEMMA DuplicateAdds ==
    ASSUME IInv, Booked, NEW f \in Files, NEW k \in DOMAIN candidates,
           candidates' = [candidates EXCEPT ![k].duplicates = @ \cup {f}],
           UNCHANGED <<rejected, ambiguous>>
    PROVE  Adds(f)
<1> DEFINE old == candidates[k]
           new == [old EXCEPT !.duplicates = old.duplicates \cup {f}]
<1>1. candidates \in Reported /\ old \in Candidate
    BY DEF IInv, Reading, Reported
<1>2. new.path = old.path /\ new.duplicates = old.duplicates \cup {f}
    BY <1>1 DEF Candidate
<1>3. candidates' = [candidates EXCEPT ![k] = new]
    OBVIOUS
<1> HIDE DEF new, old
<1>4. /\ DOMAIN candidates' = DOMAIN candidates /\ candidates'[k] = new
      /\ \A i \in DOMAIN candidates \ {k} : candidates'[i] = candidates[i]
    BY <1>1, <1>3 DEF Reported
<1>5. \A g : At(candidates', g) = At(candidates, g)
    BY <1>2, <1>4 DEF At, old
<1>6. ASSUME NEW g \in Files \ {f} PROVE Same(g)
  <2>1. With(candidates', g) = With(candidates, g)
      BY <1>2, <1>4 DEF With, old
  <2> QED BY <1>5, <2>1, MentionsNext, MentionsAre DEF Same
<1>7. With(candidates', f) = With(candidates, f) \cup {k}
    BY <1>2, <1>4 DEF With, old
<1>8. /\ Cardinality(With(candidates', f)) \in {Cardinality(With(candidates, f)), Cardinality(With(candidates, f)) + 1}
      /\ Cardinality(With(candidates', f)) > 0
  <2>1. IsFiniteSet(With(candidates, f)) /\ Cardinality(With(candidates, f)) \in Nat
      BY <1>1, CountType
  <2> DEFINE W == With(candidates, f)
  <2>2. IsFiniteSet(W) /\ Cardinality(W) \in Nat /\ With(candidates', f) = W \cup {k}
      BY <1>7, <2>1
  <2> HIDE DEF W
  <2>3. Cardinality(W \cup {k}) = IF k \in W THEN Cardinality(W) ELSE Cardinality(W) + 1
      BY <2>2, FS_AddElement
  <2>4. k \in W => Cardinality(W) # 0
      BY <2>2, FS_EmptySet
  <2>5. Cardinality(W \cup {k}) \in {Cardinality(W), Cardinality(W) + 1} /\ Cardinality(W \cup {k}) > 0
      BY <2>2, <2>3, <2>4
  <2> QED BY <2>2, <2>5 DEF W
<1>9. Mentions(f)' \in {Mentions(f), Mentions(f) + 1} /\ Mentions(f)' > 0
  <2>1. /\ Mentions(f)' = rejected'[f] + ambiguous'[f] + Cardinality(At(candidates', f))
                             + Cardinality(With(candidates', f))
        /\ rejected'[f] = rejected[f] /\ ambiguous'[f] = ambiguous[f]
        /\ Cardinality(At(candidates', f)) = Cardinality(At(candidates, f))
      BY <1>5, MentionsNext
  <2> QED BY <1>8, <2>1, MentionsAre
<1> QED BY <1>6, <1>9 DEF Adds

LEMMA FinishKeepsMentions ==
    ASSUME IInv, Booked, Finish, NEW f \in Files PROVE Same(f)
<1>1. PICK g \in Bijection(DOMAIN candidates, DOMAIN candidates) :
         candidates' = [i \in DOMAIN candidates |-> candidates[g[i]]]
    BY DEF Finish
<1>2. candidates \in Reported /\ UNCHANGED <<rejected, ambiguous>>
    BY DEF Finish, IInv, Reading
<1>3. /\ Cardinality(At(candidates', f)) = Cardinality(At(candidates, f))
      /\ Cardinality(With(candidates', f)) = Cardinality(With(candidates, f))
    BY <1>1, <1>2, CountSorted
<1> QED BY <1>2, <1>3, MentionsNext DEF Same, Mentions, At, With

----------------------------------------------------------------------------
(***************************************************************************)
(* The walk reports a file once and loses none.                            *)
(***************************************************************************)
\* The file f is being read.
Being(f) == pc \in {"lstat", "open"} /\ at = f

\* A file is first seen, then mentioned at most once; only a file that is a
\* symbolic link, or was replaced by or for one, is mentioned for being one.
Once(f) ==
    /\ Mentions(f) <= 1
    /\ f \notin seenPaths \/ Being(f) => Mentions(f) = 0
    /\ \A e \in Range(todo) : e.path = f => ~e.link
AllOnce ==
    /\ \A f \in Files : Being(f) => f \in seenPaths
    /\ \A f \in Files \ changed : disk[f].type # "symlink" => Once(f)

\* Nothing is owed to f any more, or it is being read.
Handled(f) == f \in changed \/ disk[f].type = "gone" \/ Mentions(f) > 0 \/ Being(f) \/ ~Source(f)

\* The paths that the walk has yet to visit, and a set of paths that holds all
\* that was visited: it is closed, and its files are handled, but for those.
Pending == Range(roots) \cup {e.path : e \in Range(todo)}
Covers(C) ==
    /\ Range(given) \subseteq C
    /\ \A d \in C \cap Dirs : d \in Pending \/ Range(Entries[d]) \subseteq C
    /\ \A f \in C \cap Files : f \in Pending \/ Handled(f)
Covered ==
    /\ \A f \in seenPaths \cap Files : Handled(f)
    /\ pc = "stop" => truncated
    /\ pc = "done" /\ ~truncated => Pending = {}
    /\ pc # "error" /\ ~truncated => \E C \in SUBSET Paths : Covers(C)

Accounts == Booked /\ AllOnce /\ Covered

\* A step that concerns the path f alone.
Frame(f) ==
    /\ UNCHANGED inputVars
    /\ seenPaths \subseteq seenPaths' /\ seenPaths' \subseteq seenPaths \cup {f}
    /\ \A g \in Files \ {f} : Same(g) /\ (Being(g)' <=> Being(g))

LEMMA OnceKept ==
    ASSUME IInv, Booked, AllOnce, NEW f, Frame(f),
           \A e \in Range(todo') : e \in Range(todo) \/ ~e.link \/ disk[e.path].type = "symlink",
           f \in Files /\ Being(f)' => f \in seenPaths',
           f \in Files =>
              \/ f \in changed \/ disk[f].type = "symlink"
              \/ Same(f) /\ (Being(f)' => Being(f) \/ f \notin seenPaths)
              \/ Adds(f) /\ (f \notin seenPaths \/ Being(f)) /\ f \in seenPaths' /\ ~Being(f)'
    PROVE  AllOnce'
<1>1. UNCHANGED <<disk, changed>>
    BY DEF Frame, inputVars
<1>2. ASSUME NEW g \in Files, Being(g)' PROVE g \in seenPaths'
    BY <1>2 DEF Frame, AllOnce
<1>3. ASSUME NEW g \in Files \ changed, disk[g].type # "symlink" PROVE Once(g)'
  <2>1. Once(g) /\ Mentions(g) \in Nat
      BY <1>3, MentionsAre DEF AllOnce
  <2>2. \A e \in Range(todo') : e.path = g => ~e.link
      BY <1>3, <2>1 DEF Once
  <2>3. CASE Same(g) /\ (Being(g)' => Being(g) \/ g \notin seenPaths)
      BY <2>1, <2>2, <2>3 DEF Once, Frame, Same
  <2>4. CASE Adds(g) /\ (g \notin seenPaths \/ Being(g)) /\ g \in seenPaths' /\ ~Being(g)'
    <3>1. Mentions(g) = 0
        BY <2>1, <2>4 DEF Once
    <3>2. Mentions(g)' <= 1
        BY <2>4, <3>1 DEF Adds
    <3> QED BY <2>2, <2>4, <3>2 DEF Once
  <2> QED BY <1>3, <2>3, <2>4 DEF Frame
<1> QED BY <1>1, <1>2, <1>3 DEF AllOnce

LEMMA CoveredKept ==
    ASSUME IInv, Booked, Covered, NEW f, Frame(f),
           f \in Files => Handled(f)',
           pc' = "stop" => truncated',
           pc' = "done" /\ ~truncated' => Pending' = {},
           pc' # "error" /\ ~truncated' =>
              /\ pc # "error" /\ ~truncated /\ Pending \subseteq Pending' \cup {f}
              /\ f \in Dirs => \A q \in Range(Entries[f]) :
                                  q \in Pending' \/ (q \in Files /\ disk[q].type = "gone")
    PROVE  Covered'
<1>1. UNCHANGED <<disk, changed, explicit, given>>
    BY DEF Frame, inputVars
<1>2. \A g \in Files : Source(g)' <=> Source(g)
    BY <1>1 DEF Source, Verdict
<1>3. ASSUME NEW g \in Files, Handled(g) PROVE Handled(g)'
    BY <1>1, <1>2, <1>3 DEF Handled, Frame, Same
<1>4. \A g \in seenPaths' \cap Files : Handled(g)'
    BY <1>3 DEF Covered, Frame
<1>5. ASSUME pc' # "error" /\ ~truncated' PROVE \E C \in SUBSET Paths : Covers(C)'
  <2>1. PICK C \in SUBSET Paths : Covers(C)
      BY <1>5 DEF Covered
  <2> DEFINE More == IF f \in Dirs THEN Range(Entries[f]) ELSE {}
  <2>2. C \cup More \in SUBSET Paths
    <3>1. f \in Dirs => Range(Entries[f]) \subseteq Paths
      <4>1. f \in Dirs => Entries[f] \in Seq(Paths)
          BY PathAssumption
      <4> QED BY <4>1 DEF Range
    <3> QED BY <3>1
  <2>3. ASSUME NEW d \in (C \cup More) \cap Dirs PROVE d \in Pending' \/ Range(Entries[d]) \subseteq C \cup More
    <3>1. CASE d \in C
        BY <1>5, <2>1, <3>1 DEF Covers
    <3>2. CASE d \in More
        BY <1>5, <3>2, PathAssumption
    <3> QED BY <2>3, <3>1, <3>2
  <2>4. ASSUME NEW g \in (C \cup More) \cap Files PROVE g \in Pending' \/ Handled(g)'
    <3>1. CASE g \in C
      <4>1. g \in Pending \/ Handled(g)
          BY <2>1, <3>1 DEF Covers
      <4> QED BY <1>3, <1>5, <4>1
    <3>2. CASE g \in More
      <4>1. g \in Pending' \/ disk[g].type = "gone"
          BY <1>5, <3>2
      <4> QED BY <1>1, <4>1 DEF Handled
    <3> QED BY <2>4, <3>1, <3>2
  <2> HIDE DEF More
  <2>5. Covers(C \cup More)'
      BY <1>1, <2>1, <2>3, <2>4 DEF Covers
  <2> QED BY <2>2, <2>5
<1> QED BY <1>4, <1>5 DEF Covered

LEMMA InitAccounts == Init => Accounts
<1> SUFFICES ASSUME Init PROVE Accounts
    OBVIOUS
<1>1. given \in Seq(Paths)
  <2>1. PICK listed \in SUBSET Range(Order) :
           given = Those(Order, listed \cup {f \in Files : explicit[f] # None})
      BY DEF Init
  <2> DEFINE set == listed \cup {f \in Files : explicit[f] # None}
  <2>2. Order \in Seq(Paths) /\ given = Those(Order, set)
      BY <2>1, PathAssumption
  <2> HIDE DEF set
  <2>3. Those(Order, set) \in Seq(Paths)
    <3> HIDE DEF Paths
    <3> QED BY <2>2, ThoseAre
  <2> QED BY <2>2, <2>3
<1>2. Booked
    BY <1>1 DEF Init, Booked
<1>3. ASSUME NEW f \in Files PROVE Mentions(f) = 0
  <2>1. At(candidates, f) = {} /\ With(candidates, f) = {}
      BY DEF Init, At, With
  <2>2. rejected[f] = 0 /\ ambiguous[f] = 0
      BY DEF Init
  <2>3. Mentions(f) = rejected[f] + ambiguous[f] + Cardinality(At(candidates, f))
                        + Cardinality(With(candidates, f))
      BY <1>2, InitInv, MentionsAre
  <2>4. Cardinality(At(candidates, f)) = 0 /\ Cardinality(With(candidates, f)) = 0
      BY <2>1, FS_EmptySet
  <2> QED BY <2>2, <2>3, <2>4
<1>4. AllOnce
    BY <1>3 DEF Init, AllOnce, Once, Being, Range
<1>5. Covered
  <2>1. Range(given) \in SUBSET Paths
      BY <1>1 DEF Range
  <2>2. Covers(Range(given))
      BY DEF Init, Covers, Pending
  <2> QED BY <2>1, <2>2 DEF Init, Covered
<1> QED BY <1>2, <1>4, <1>5 DEF Accounts

\* What ReadDir lists: all that is not gone, a link only for a symbolic link.
LEMMA ListingIs ==
    ASSUME IInv, NEW d \in Dirs
    PROVE  /\ Listing(d) \in Seq(Entry)
           /\ \A e \in Range(Listing(d)) : e.link => disk[e.path].type = "symlink"
           /\ \A q \in Range(Entries[d]) :
                 \/ \E e \in Range(Listing(d)) : e.path = q
                 \/ q \in Files /\ disk[q].type = "gone"
<1> DEFINE present == Those(Entries[d], Dirs \cup {f \in Files : disk[f].type # "gone"})
           Link(p) == p \in Files /\ disk[p].type = "symlink"
           list == [i \in DOMAIN present |-> [path |-> present[i], link |-> Link(present[i])]]
<1>1. Entries[d] \in Seq(Paths)
    BY PathAssumption
<1>2. present \in Seq(Paths)
      /\ Range(present) = Range(Entries[d]) \cap (Dirs \cup {f \in Files : disk[f].type # "gone"})
    BY <1>1, ThoseAre
<1>3. Listing(d) = list
    BY DEF Listing
<1>4. Range(Entries[d]) \subseteq Paths
    BY <1>1 DEF Range
<1> HIDE DEF present
<1>5. \A p : Link(p) \in BOOLEAN
    OBVIOUS
<1>6. list \in Seq(Entry)
  <2>1. present \in [1..Len(present) -> Paths] /\ Len(present) \in Nat
      BY <1>2
  <2> HIDE DEF Link
  <2>2. list \in [1..Len(present) -> Entry]
      BY <1>5, <2>1 DEF Entry
  <2> QED BY <2>1, <2>2
<1>7. ASSUME NEW i \in DOMAIN present
      PROVE  list[i].link => disk[list[i].path].type = "symlink"
    OBVIOUS
<1>8. ASSUME NEW q \in Range(present) PROVE \E e \in Range(list) : e.path = q
  <2>1. PICK i \in DOMAIN present : present[i] = q
      BY <1>8 DEF Range
  <2>2. list[i] \in Range(list) /\ list[i].path = q
      BY <2>1 DEF Range
  <2> QED BY <2>2
<1>9. \A q \in Range(Entries[d]) : q \in Range(present) \/ (q \in Files /\ disk[q].type = "gone")
    BY <1>2, <1>4 DEF Paths
<1>10. \A e \in Range(list) : e.link => disk[e.path].type = "symlink"
  <2>1. DOMAIN list = DOMAIN present
      OBVIOUS
  <2> HIDE DEF list
  <2> QED BY <1>7, <2>1 DEF Range
<1> HIDE DEF list
<1> QED BY <1>3, <1>6, <1>8, <1>9, <1>10

\* inspect concerns its file: seen before or no source, mentioned, or to be read.
LEMMA InspectHandles ==
    ASSUME IInv, Booked, NEW f \in Files, Inspect(f, disk[f]), pc = "walk",
           UNCHANGED <<inputVars, candidates, ambiguous>>
    PROVE  /\ Frame(f) /\ f \in seenPaths'
           /\ \/ Same(f) /\ (f \in seenPaths \/ ~Source(f)) /\ ~Being(f)'
              \/ Adds(f) /\ f \notin seenPaths /\ ~Being(f)'
              \/ Same(f) /\ f \notin seenPaths /\ Being(f)'
<1>1. seenPaths' = seenPaths \cup {f}
    BY DEF Inspect
<1>2. \A g \in Files : ~Being(g)
    BY DEF Being
<1>3. CASE (f \in seenPaths \/ ~Source(f)) /\ Proceed
  <2>1. \A g \in Files : Same(g) /\ ~Being(g)'
      BY <1>3, KeepsMentions DEF Proceed, Being
  <2> QED BY <1>1, <1>2, <1>3, <2>1 DEF Frame
<1>4. CASE f \notin seenPaths /\ Reject(f) /\ pc' = "walk"
  <2>1. Adds(f)
      BY RejectAdds, <1>4
  <2>2. \A g \in Files : ~Being(g)'
      BY <1>4 DEF Being
  <2> QED BY <1>1, <1>2, <1>4, <2>1, <2>2 DEF Frame, Adds
<1>5. CASE f \notin seenPaths /\ pc' = "lstat" /\ at' = f /\ UNCHANGED rejected
  <2>1. \A g \in Files : Same(g)
      BY <1>5, KeepsMentions
  <2>2. Being(f)' /\ \A g \in Files \ {f} : ~Being(g)'
      BY <1>5 DEF Being
  <2> QED BY <1>1, <1>2, <1>5, <2>1, <2>2 DEF Frame
<1>6. f \notin Named /\ explicit[f] = None => ~Source(f)
    BY DEF Source
<1> QED BY <1>3, <1>4, <1>5, <1>6 DEF Inspect

\* A step of the walk that leads to no file.
LEMMA NoFile ==
    ASSUME IInv, Booked, pc = "walk", UNCHANGED <<inputVars, candidates, ambiguous, rejected, seenPaths, at>>,
           pc' \in {"walk", "stop", "error"}, NEW f
    PROVE  Frame(f) /\ \A g \in Files : Same(g) /\ ~Being(g)'
<1>1. \A g \in Files : Same(g)
    BY KeepsMentions
<1>2. \A g : ~Being(g) /\ ~Being(g)'
    BY DEF Being
<1> QED BY <1>1, <1>2 DEF Frame

\* After inspect nothing is owed to the file.
LEMMA SeenStay ==
    ASSUME IInv, Booked, Covered, pc = "walk", NEW f \in Files, UNCHANGED inputVars,
           \/ Same(f) /\ (f \in seenPaths \/ ~Source(f))
           \/ Adds(f)
           \/ Being(f)'
    PROVE  Handled(f)'
<1>1. UNCHANGED <<disk, changed, explicit, given>>
    BY DEF inputVars
<1>2. Source(f)' <=> Source(f)
    BY <1>1 DEF Source, Verdict
<1>3. CASE Same(f) /\ f \in seenPaths
  <2>1. Handled(f) /\ ~Being(f)
      BY <1>3 DEF Covered, Being
  <2> QED BY <1>1, <1>2, <1>3, <2>1 DEF Handled, Same
<1> QED BY <1>2, <1>3 DEF Handled, Adds

LEMMA StartRootAccounts == IInv /\ Accounts /\ StartRoot => Accounts'
<1> SUFFICES ASSUME IInv, Accounts, StartRoot PROVE Accounts'
    OBVIOUS
<1> DEFINE root == Head(roots)
           regular == root \in Files /\ disk[root].type = "regular"
<1>1. /\ pc = "walk" /\ todo = <<>> /\ roots # <<>> /\ roots' = Tail(roots)
      /\ UNCHANGED <<inputVars, seen, candidates, ambiguous>>
    BY DEF StartRoot, foundVars
<1>2. /\ roots' \in Seq(Paths) /\ root \in Range(roots) /\ root \in Paths
      /\ Range(roots) \subseteq Range(roots') \cup {root}
  <2>1. roots \in Seq(Paths) /\ roots # <<>>
      BY <1>1 DEF Accounts, Booked
  <2>2. root \in Paths
      BY <2>1
  <2> QED BY <1>1, <2>1, <2>2, TailRange
<1>3. given' \in Seq(Paths) /\ Range(todo) = {}
    BY <1>1 DEF Accounts, Booked, inputVars, Range
<1>4. CASE root \in Dirs /\ todo' = <<[path |-> root, link |-> FALSE]>> /\ Proceed
           /\ UNCHANGED <<seenPaths, truncated>>
  <2> DEFINE entry == [path |-> root, link |-> FALSE]
  <2>1. entry \in Entry
      BY <1>2 DEF Entry
  <2>2. todo' \in Seq(Entry) /\ Range(todo') = {entry}
    <3> HIDE DEF entry
    <3>1. todo' = <<entry>>
        BY <1>4 DEF entry
    <3> QED BY <2>1, <3>1 DEF Range
  <2>3. pc' = "walk" /\ UNCHANGED <<at, rejected>>
      BY <1>4 DEF Proceed
  <2>4. Booked'
      BY <1>1, <1>2, <1>3, <2>2, <2>3 DEF Accounts, Booked
  <2>5. Frame(None) /\ \A g \in Files : Same(g) /\ ~Being(g)'
      BY <1>1, <1>4, <2>3, NoFile DEF Accounts
  <2>6. None \notin Files /\ None \notin Dirs
      BY PathAssumption DEF Paths
  <2>7. AllOnce'
    <3>1. \A e \in Range(todo') : ~e.link
        BY <2>2
    <3> QED BY <2>5, <2>6, <3>1, OnceKept DEF Accounts
  <2>8. Pending \subseteq Pending'
    <3>1. root \in Pending'
        BY <2>2 DEF Pending
    <3> QED BY <1>2, <1>3, <3>1 DEF Pending
  <2>9. Covered'
      BY <1>1, <1>4, <2>3, <2>5, <2>6, <2>8, CoveredKept DEF Accounts
  <2> QED BY <2>4, <2>7, <2>9 DEF Accounts
<1>5. CASE (StopAtEntries \/ (Fail /\ UNCHANGED truncated)) /\ UNCHANGED todo
  <2>1. /\ UNCHANGED <<seenPaths, at, rejected>> /\ pc' \in {"stop", "error"}
        /\ pc' = "stop" => truncated'
      BY <1>5 DEF StopAtEntries, Limit, Fail
  <2>2. Booked'
      BY <1>1, <1>2, <1>3, <1>5, <2>1 DEF Accounts, Booked
  <2>3. Frame(None) /\ \A g \in Files : Same(g) /\ ~Being(g)'
      BY <1>1, <2>1, NoFile DEF Accounts
  <2>4. None \notin Files /\ None \notin Dirs
      BY PathAssumption DEF Paths
  <2>5. AllOnce'
      BY <1>5, <2>3, <2>4, OnceKept DEF Accounts
  <2>6. Covered'
      BY <2>1, <2>3, <2>4, CoveredKept DEF Accounts
  <2> QED BY <2>2, <2>5, <2>6 DEF Accounts
<1>6. CASE regular /\ Inspect(root, disk[root]) /\ UNCHANGED <<todo, truncated>>
  <2>1. pc' \in {"walk", "lstat"} /\ rejected' \in [Files -> Nat]
      BY <1>6 DEF Inspect, Proceed, Reject, Accounts, Booked
  <2>2. Booked'
      BY <1>1, <1>2, <1>3, <1>6, <2>1 DEF Accounts, Booked
  <2>3. PICK f \in Files : f = root
      BY <1>6
  <2>4. Inspect(f, disk[f])
      BY <1>6, <2>3
  <2>5. /\ Frame(f) /\ f \in seenPaths'
        /\ \/ Same(f) /\ (f \in seenPaths \/ ~Source(f)) /\ ~Being(f)'
           \/ Adds(f) /\ f \notin seenPaths /\ ~Being(f)'
           \/ Same(f) /\ f \notin seenPaths /\ Being(f)'
      BY <1>1, <2>4, InspectHandles DEF Accounts
  <2>6. AllOnce'
      BY <1>6, <2>5, OnceKept DEF Accounts
  <2>7. Handled(f)'
      BY <1>1, <2>5, SeenStay DEF Accounts
  <2>8. Pending \subseteq Pending' \cup {f}
      BY <1>2, <1>6, <2>3 DEF Pending
  <2>9. f \notin Dirs
      BY PathAssumption
  <2>10. Covered'
      BY <1>1, <1>6, <2>1, <2>5, <2>7, <2>8, <2>9, CoveredKept DEF Accounts
  <2> QED BY <2>2, <2>6, <2>10 DEF Accounts
<1> QED BY <1>4, <1>5, <1>6 DEF StartRoot, StopAtEntries, Fail

LEMMA VisitAccounts == IInv /\ Accounts /\ Visit => Accounts'
<1> SUFFICES ASSUME IInv, Accounts, Visit PROVE Accounts'
    OBVIOUS
<1>1. /\ pc = "walk" /\ todo # <<>>
      /\ UNCHANGED <<inputVars, roots, seen, candidates, ambiguous>>
    BY DEF Visit, foundVars
<1>2. PICK entry \in Entry : entry = Head(todo)
    BY <1>1 DEF Accounts, Booked
<1> DEFINE p == entry.path
           link == entry.link
<1>3. /\ Tail(todo) \in Seq(Entry) /\ entry \in Range(todo)
      /\ Range(Tail(todo)) \subseteq Range(todo) /\ Range(todo) \subseteq Range(Tail(todo)) \cup {entry}
  <2>1. todo \in Seq(Entry) /\ todo # <<>>
      BY <1>1 DEF Accounts, Booked
  <2> HIDE DEF Entry
  <2> QED BY <1>2, <2>1, TailRange
<1>4. p \in Paths /\ link \in BOOLEAN
    BY DEF Entry
<1>5. given' \in Seq(Paths) /\ roots' \in Seq(Paths)
    BY <1>1 DEF Accounts, Booked, inputVars
<1>6. None \notin Files /\ None \notin Dirs
    BY PathAssumption DEF Paths
<1>7. CASE StopAtEntries /\ UNCHANGED todo
  <2>1. /\ UNCHANGED <<seenPaths, at, rejected>> /\ pc' = "stop" /\ truncated'
      BY <1>7 DEF StopAtEntries, Limit
  <2>2. Booked'
      BY <1>1, <1>5, <1>7, <2>1 DEF Accounts, Booked
  <2>3. Frame(None) /\ \A g \in Files : Same(g) /\ ~Being(g)'
      BY <1>1, <2>1, NoFile DEF Accounts
  <2>4. AllOnce'
      BY <1>6, <1>7, <2>3, OnceKept DEF Accounts
  <2>5. Covered'
      BY <1>6, <2>1, <2>3, CoveredKept DEF Accounts
  <2> QED BY <2>2, <2>4, <2>5 DEF Accounts
<1>8. CASE p \in Dirs /\ todo' = Listing(p) \o Tail(todo) /\ Proceed /\ UNCHANGED <<seenPaths, truncated>>
  <2>1. pc' = "walk" /\ UNCHANGED <<at, rejected>>
      BY <1>8 DEF Proceed
  <2>2. /\ Listing(p) \in Seq(Entry)
        /\ \A e \in Range(Listing(p)) : e.link => disk[e.path].type = "symlink"
        /\ \A q \in Range(Entries[p]) :
              \/ \E e \in Range(Listing(p)) : e.path = q
              \/ q \in Files /\ disk[q].type = "gone"
      BY <1>8, ListingIs
  <2>3. /\ todo' \in Seq(Entry) /\ Range(todo') \subseteq Range(Listing(p)) \cup Range(Tail(todo))
        /\ Range(Listing(p)) \cup Range(Tail(todo)) \subseteq Range(todo')
    <3> DEFINE list == Listing(p)
               rest == Tail(todo)
    <3>1. list \in Seq(Entry) /\ rest \in Seq(Entry) /\ todo' = list \o rest
        BY <1>3, <1>8, <2>2
    <3> HIDE DEF list, rest, Entry
    <3>2. /\ list \o rest \in Seq(Entry) /\ Range(list \o rest) \subseteq Range(list) \cup Range(rest)
          /\ Range(list) \cup Range(rest) \subseteq Range(list \o rest)
        BY <3>1, ConcatRange
    <3> QED BY <3>1, <3>2 DEF list, rest
  <2>4. Booked'
      BY <1>1, <1>5, <2>1, <2>3 DEF Accounts, Booked
  <2>5. Frame(p) /\ \A g \in Files : Same(g) /\ ~Being(g)'
      BY <1>1, <1>8, <2>1, NoFile DEF Accounts
  <2>6. p \notin Files
      BY <1>8, PathAssumption
  <2>7. AllOnce'
    <3>1. \A e \in Range(todo') : e \in Range(todo) \/ ~e.link \/ disk[e.path].type = "symlink"
        BY <1>3, <2>2, <2>3
    <3> QED BY <2>5, <2>6, <3>1, OnceKept DEF Accounts
  <2>8. Pending \subseteq Pending' \cup {p}
      BY <1>1, <1>3, <2>3 DEF Pending
  <2>9. \A q \in Range(Entries[p]) : q \in Pending' \/ (q \in Files /\ disk[q].type = "gone")
      BY <2>2, <2>3 DEF Pending
  <2>10. Covered'
      BY <1>1, <1>8, <2>1, <2>5, <2>6, <2>8, <2>9, CoveredKept DEF Accounts
  <2> QED BY <2>4, <2>7, <2>10 DEF Accounts
<1>9. ASSUME p \in Files, todo' = Tail(todo), UNCHANGED truncated,
             \/ link /\ Reject(p) /\ pc' = "walk" /\ UNCHANGED <<at, seenPaths>>
             \/ Fail
             \/ ~link /\ Inspect(p, disk[p])
      PROVE  Accounts'
  <2>1. /\ pc' \in {"walk", "lstat", "error"} /\ rejected' \in [Files -> Nat]
      BY <1>9 DEF Inspect, Proceed, Reject, Fail, Accounts, Booked
  <2>2. Booked'
      BY <1>1, <1>3, <1>5, <1>9, <2>1 DEF Accounts, Booked
  <2>3. \A e \in Range(todo') : e \in Range(todo)
      BY <1>3, <1>9
  <2>4. Pending \subseteq Pending' \cup {p}
      BY <1>1, <1>3, <1>9 DEF Pending
  <2>5. p \notin Dirs
      BY <1>9, PathAssumption
  <2>6. CASE link /\ Reject(p) /\ pc' = "walk" /\ UNCHANGED <<at, seenPaths>>
    <3>1. Adds(p)
        BY <1>1, <1>9, <2>6, RejectAdds DEF Accounts
    <3>2. \A g \in Files : ~Being(g) /\ ~Being(g)'
        BY <1>1, <2>6 DEF Being
    <3>3. Frame(p)
        BY <1>1, <2>6, <3>1, <3>2 DEF Frame, Adds
    <3>4. p \in changed \/ disk[p].type = "symlink"
        BY <1>3, <1>9, <2>6 DEF Accounts, AllOnce, Once
    <3>5. AllOnce'
        BY <1>9, <2>3, <3>2, <3>3, <3>4, OnceKept DEF Accounts
    <3>6. Handled(p)'
        BY <3>1 DEF Handled, Adds
    <3>7. Covered'
        BY <1>1, <1>9, <2>4, <2>5, <2>6, <3>3, <3>6, CoveredKept DEF Accounts
    <3> QED BY <2>2, <3>5, <3>7 DEF Accounts
  <2>7. CASE Fail
    <3>1. UNCHANGED <<seenPaths, at, rejected>> /\ pc' = "error"
        BY <2>7 DEF Fail
    <3>2. Frame(None) /\ \A g \in Files : Same(g) /\ ~Being(g)'
        BY <1>1, <3>1, NoFile DEF Accounts
    <3>3. AllOnce'
        BY <1>6, <2>3, <3>2, OnceKept DEF Accounts
    <3>4. Covered'
        BY <1>6, <3>1, <3>2, CoveredKept DEF Accounts
    <3> QED BY <2>2, <3>3, <3>4 DEF Accounts
  <2>8. CASE Inspect(p, disk[p])
    <3>1. /\ Frame(p) /\ p \in seenPaths'
          /\ \/ Same(p) /\ (p \in seenPaths \/ ~Source(p)) /\ ~Being(p)'
             \/ Adds(p) /\ p \notin seenPaths /\ ~Being(p)'
             \/ Same(p) /\ p \notin seenPaths /\ Being(p)'
        BY <1>1, <1>9, <2>8, InspectHandles DEF Accounts
    <3>2. AllOnce'
        BY <2>3, <3>1, OnceKept DEF Accounts
    <3>3. Handled(p)'
        BY <1>1, <1>9, <3>1, SeenStay DEF Accounts
    <3>4. pc' \in {"walk", "lstat"}
        BY <2>8 DEF Inspect, Proceed
    <3>5. Covered'
        BY <1>1, <1>9, <2>4, <2>5, <3>1, <3>3, <3>4, CoveredKept DEF Accounts
    <3> QED BY <2>2, <3>2, <3>5 DEF Accounts
  <2> QED BY <1>9, <2>6, <2>7, <2>8
<1>10. CASE ~AtEntryLimit /\ UNCHANGED truncated /\ VisitPath(p, link)
    BY <1>4, <1>8, <1>9, <1>10 DEF VisitPath
<1> QED BY <1>2, <1>7, <1>10 DEF Visit

LEMMA LstatAccounts == IInv /\ Accounts /\ Lstat => Accounts'
<1> SUFFICES ASSUME IInv, Accounts, Lstat PROVE Accounts'
    OBVIOUS
<1>1. /\ pc = "lstat" /\ UNCHANGED <<inputVars, roots, todo, visited, seenPaths, candidates, ambiguous, truncated>>
    BY DEF Lstat, walkVars, foundVars
<1>2. PICK f \in Files : f = at
    BY <1>1 DEF IInv, Reading
<1>3. Being(f) /\ f \in seenPaths /\ \A g \in Files \ {f} : ~Being(g)
    BY <1>1, <1>2 DEF Being, Accounts, AllOnce
<1>4. None \notin Files /\ f \notin Dirs
    BY PathAssumption DEF Paths
<1>5. UNCHANGED Pending
    BY <1>1 DEF Pending
<1>6. CASE disk[f].type = "regular" /\ ~disk[f].large /\ seen' = disk[f] /\ pc' = "open"
           /\ UNCHANGED <<at, rejected>>
  <2>1. Booked'
      BY <1>1, <1>6 DEF Accounts, Booked, inputVars
  <2>2. \A g \in Files : Same(g) /\ (Being(g)' <=> Being(g))
      BY <1>1, <1>6, KeepsMentions DEF Being
  <2>3. Frame(f)
      BY <1>1, <2>2 DEF Frame
  <2>4. AllOnce'
      BY <1>1, <1>3, <2>2, <2>3, OnceKept DEF Accounts
  <2>5. Handled(f)'
      BY <1>3, <2>2 DEF Handled
  <2>6. Covered'
      BY <1>1, <1>4, <1>5, <1>6, <2>3, <2>5, CoveredKept DEF Accounts
  <2> QED BY <2>1, <2>4, <2>6 DEF Accounts
<1>7. CASE Reject(f) /\ at' = None /\ pc' = "walk" /\ UNCHANGED seen
  <2>1. rejected' \in [Files -> Nat]
      BY <1>7 DEF Reject, Accounts, Booked
  <2>2. Booked'
      BY <1>1, <1>7, <2>1 DEF Accounts, Booked, inputVars
  <2>3. Adds(f)
      BY <1>1, <1>7, RejectAdds DEF Accounts
  <2>4. \A g \in Files : ~Being(g)'
      BY <1>7 DEF Being
  <2>5. Frame(f)
      BY <1>1, <1>3, <2>3, <2>4 DEF Frame, Adds
  <2>6. AllOnce'
      BY <1>1, <1>3, <2>3, <2>4, <2>5, OnceKept DEF Accounts
  <2>7. Handled(f)'
      BY <2>3 DEF Handled, Adds
  <2>8. Covered'
      BY <1>1, <1>4, <1>5, <1>7, <2>5, <2>7, CoveredKept DEF Accounts
  <2> QED BY <2>2, <2>6, <2>8 DEF Accounts
<1> QED BY <1>2, <1>6, <1>7 DEF Lstat

LEMMA ReadAccounts == IInv /\ Accounts /\ Read => Accounts'
<1> SUFFICES ASSUME IInv, Accounts, Read PROVE Accounts'
    OBVIOUS
<1>1. /\ pc = "open" /\ UNCHANGED <<inputVars, roots, todo, visited, seenPaths>>
      /\ at' = None /\ seen' = None
    BY DEF Read, walkVars
<1>2. PICK f \in Files : f = at
    BY <1>1 DEF IInv, Reading
<1> DEFINE verdict == Verdict(f, seen.content)
           same == disk[f] = seen
<1>3. Being(f) /\ f \in seenPaths /\ \A g \in Files \ {f} : ~Being(g)
    BY <1>1, <1>2 DEF Being, Accounts, AllOnce
<1>4. f \notin Dirs
    BY PathAssumption
<1>5. UNCHANGED Pending
    BY <1>1 DEF Pending
<1>6. pc' \in {"walk", "stop"} /\ (pc' = "stop" => truncated') /\ (pc' = "walk" => UNCHANGED truncated)
    BY DEF Read, Accept, NewCandidate, Limit, reportVars, foundVars
<1>7. \A g \in Files : ~Being(g)'
    BY <1>6 DEF Being
<1>8. seen \in Documents /\ seen.content \in Contents /\ seen.type = "regular" /\ ~seen.large
    BY <1>1, PathAssumption DEF IInv, Reading, Document, Accounts, Booked
<1>9. ASSUME Adds(f), rejected' \in [Files -> Nat], ambiguous' \in [Files -> Nat]
      PROVE  Accounts'
  <2>1. Booked'
      BY <1>1, <1>6, <1>9 DEF Accounts, Booked, inputVars
  <2>2. Frame(f)
      BY <1>1, <1>3, <1>7, <1>9 DEF Frame, Adds
  <2>3. AllOnce'
      BY <1>1, <1>3, <1>7, <1>9, <2>2, OnceKept DEF Accounts
  <2>4. Handled(f)'
      BY <1>9 DEF Handled, Adds
  <2>5. Covered'
      BY <1>1, <1>4, <1>5, <1>6, <2>2, <2>4, CoveredKept DEF Accounts
  <2> QED BY <2>1, <2>3, <2>5 DEF Accounts
<1>10. CASE verdict \in Kinds /\ Accept(f, verdict, seen.content) /\ UNCHANGED <<rejected, ambiguous>>
  <2> HIDE DEF verdict
  <2>1. Adds(f)
    <3>1. CASE seen.content \in DOMAIN byDigest
      <4> DEFINE c == seen.content
                 k == byDigest[c]
      <4>1. /\ k \in DOMAIN candidates
            /\ candidates' = [candidates EXCEPT ![k].duplicates = @ \cup {f}]
          BY <1>1, <1>10, <3>1 DEF Accept, IInv, Indexed
      <4> HIDE DEF k
      <4> QED BY <1>10, <4>1, DuplicateAdds DEF Accounts
    <3>2. CASE seen.content \notin DOMAIN byDigest
      <4>1. NewCandidate(f, verdict, seen.content)
          BY <1>10, <3>2 DEF Accept
      <4> QED BY <1>8, <1>10, <4>1, NewAdds DEF Accounts
    <3> QED BY <3>1, <3>2
  <2> QED BY <1>9, <1>10, <2>1 DEF Accounts, Booked
<1>11. CASE ambiguous' = [ambiguous EXCEPT ![f] = @ + 1] /\ UNCHANGED <<foundVars, rejected>>
  <2>1. Adds(f)
      BY <1>11, AmbiguousAdds DEF Accounts, foundVars
  <2>2. rejected' \in [Files -> Nat] /\ ambiguous' \in [Files -> Nat]
      BY <1>11 DEF Accounts, Booked
  <2> QED BY <1>9, <2>1, <2>2
<1>12. CASE Reject(f) /\ UNCHANGED <<foundVars, ambiguous>>
  <2>1. Adds(f)
      BY <1>12, RejectAdds DEF Accounts, foundVars
  <2>2. rejected' \in [Files -> Nat] /\ ambiguous' \in [Files -> Nat]
      BY <1>12 DEF Reject, Accounts, Booked
  <2> QED BY <1>9, <2>1, <2>2
<1>13. CASE same /\ verdict = "unknown" /\ f \notin Likely /\ UNCHANGED reportVars
  <2>1. Booked'
      BY <1>1, <1>6, <1>13 DEF Accounts, Booked, inputVars, reportVars
  <2>2. \A g \in Files : Same(g)
      BY <1>13, KeepsMentions DEF reportVars, foundVars
  <2>3. Frame(f)
      BY <1>1, <1>3, <1>7, <2>2 DEF Frame
  <2>4. AllOnce'
      BY <1>1, <1>3, <1>7, <2>2, <2>3, OnceKept DEF Accounts
  <2>5. ~Source(f)
      BY <1>8, <1>13 DEF Source
  <2>6. ~Source(f)'
    <3>1. UNCHANGED <<disk, explicit>>
        BY <1>1 DEF inputVars
    <3>2. Verdict(f, disk[f].content)' = Verdict(f, disk[f].content)
        BY <3>1 DEF Verdict
    <3> QED BY <2>5, <3>1, <3>2 DEF Source
  <2>7. Covered'
    <3>1. Handled(f)'
        BY <2>6 DEF Handled
    <3> QED BY <1>1, <1>4, <1>5, <1>6, <2>3, <3>1, CoveredKept DEF Accounts
  <2> QED BY <2>1, <2>4, <2>7 DEF Accounts
<1> QED BY <1>2, <1>10, <1>11, <1>12, <1>13 DEF Read

LEMMA FinishAccounts == IInv /\ Accounts /\ Finish => Accounts'
<1> SUFFICES ASSUME IInv, Accounts, Finish PROVE Accounts'
    OBVIOUS
<1>1. /\ pc = "stop" \/ (pc = "walk" /\ todo = <<>> /\ roots = <<>>)
      /\ pc' = "done" /\ UNCHANGED <<inputVars, roots, todo, seenPaths, rejected, ambiguous, truncated>>
    BY DEF Finish, walkVars
<1>2. Booked'
    BY <1>1 DEF Accounts, Booked, inputVars
<1>3. \A g \in Files : Same(g)
    BY FinishKeepsMentions DEF Accounts
<1>4. \A g : ~Being(g) /\ ~Being(g)'
    BY <1>1 DEF Being
<1>5. Frame(None)
    BY <1>1, <1>3, <1>4 DEF Frame
<1>6. None \notin Files /\ None \notin Dirs
    BY PathAssumption DEF Paths
<1>7. AllOnce'
    BY <1>1, <1>5, <1>6, OnceKept DEF Accounts
<1>8. UNCHANGED Pending /\ (~truncated => Pending = {})
    BY <1>1 DEF Accounts, Covered, Pending, Range
<1>9. Covered'
    BY <1>1, <1>5, <1>6, <1>8, CoveredKept DEF Accounts
<1> QED BY <1>2, <1>7, <1>9 DEF Accounts

\* A file that is replaced leaves the promise, the others are as they were.
LEMMA ChangeAccounts == ASSUME NEW f \in Files, IInv, Accounts, Change(f) PROVE Accounts'
<1>1. /\ UNCHANGED <<explicit, given, roots, todo, visited, seenPaths, at, seen, candidates, byDigest,
                     rejected, ambiguous, truncated, pc>>
      /\ changed' = changed \cup {f}
      /\ \A g \in Files \ {f} : disk'[g] = disk[g]
    BY DEF Change, walkVars, readVars, reportVars, foundVars, IInv, Reading
<1>2. \A g : Same(g) /\ (Being(g)' <=> Being(g))
    BY <1>1, KeepsMentions DEF Being
<1>3. Booked'
    BY <1>1 DEF Accounts, Booked
<1>4. \A g \in Files \ changed' : g \in Files \ changed /\ disk'[g] = disk[g] /\ (Once(g) => Once(g)')
    BY <1>1, <1>2 DEF Once, Same
<1>5. AllOnce'
    BY <1>1, <1>2, <1>4 DEF Accounts, AllOnce
<1>6. ASSUME NEW g \in Files \ {f} PROVE Source(g)' <=> Source(g)
  <2>1. disk'[g] = disk[g] /\ explicit' = explicit
      BY <1>1
  <2>2. Verdict(g, disk[g].content)' = Verdict(g, disk[g].content)
      BY <2>1 DEF Verdict
  <2> QED BY <2>1, <2>2 DEF Source
<1>7. ASSUME NEW g \in Files, Handled(g) PROVE Handled(g)'
    BY <1>1, <1>2, <1>6, <1>7 DEF Handled, Same
<1>8. UNCHANGED Pending
    BY <1>1 DEF Pending
<1>9. ASSUME NEW C, Covers(C) PROVE Covers(C)'
    BY <1>1, <1>7, <1>8, <1>9 DEF Covers
<1>10. Covered'
    BY <1>1, <1>7, <1>8, <1>9 DEF Accounts, Covered
<1> QED BY <1>3, <1>5, <1>10 DEF Accounts

LEMMA NextAccounts == IInv /\ Accounts /\ [Next]_vars => Accounts'
<1>1. ASSUME IInv, Accounts, UNCHANGED vars PROVE Accounts'
  <2>1. UNCHANGED <<inputVars, roots, todo, seenPaths, pc, at, seen, candidates, rejected, ambiguous, truncated>>
      BY <1>1 DEF vars, walkVars, readVars, reportVars, foundVars
  <2>2. Booked'
      BY <1>1, <2>1 DEF Accounts, Booked, inputVars
  <2>3. \A g \in Files : Same(g) /\ (Being(g)' <=> Being(g))
      BY <2>1, KeepsMentions DEF Being
  <2>4. Frame(None) /\ UNCHANGED Pending
      BY <2>1, <2>3 DEF Frame, Pending
  <2>5. None \notin Files /\ None \notin Dirs
      BY PathAssumption DEF Paths
  <2>6. AllOnce'
      BY <1>1, <2>1, <2>4, <2>5, OnceKept DEF Accounts
  <2>7. Covered'
      BY <1>1, <2>1, <2>4, <2>5, CoveredKept DEF Accounts, Covered
  <2> QED BY <2>2, <2>6, <2>7 DEF Accounts
<1> QED BY <1>1, StartRootAccounts, VisitAccounts, LstatAccounts, ReadAccounts, FinishAccounts,
           ChangeAccounts DEF Next

THEOREM AccountsCorrect == Spec => []Accounts
  BY InitAccounts, NextAccounts, InvCorrect, PTL DEF Spec

\* A file that nobody replaced is reported at most once, through however many
\* roots, listings and declarations the walk comes to it.
THEOREM OnceCorrect == Spec => []ReportedOnce
<1>1. Accounts => ReportedOnce
    BY DEF Accounts, AllOnce, Once, ReportedOnce
<1> QED BY <1>1, AccountsCorrect, PTL

\* A walk that no limit ended has covered all that the roots lead to, so every
\* source in it that nobody replaced is in the report.
THEOREM CoverageCorrect == Spec => []NothingIsLost
<1>1. ASSUME Accounts PROVE NothingIsLost
  <2> SUFFICES ASSUME pc = "done", ~truncated, NEW f \in Files, Expected(f)
               PROVE  Mentions(f) > 0
      BY DEF NothingIsLost
  <2>1. Pending = {}
      BY <1>1 DEF Accounts, Covered
  <2>2. PICK C \in SUBSET Paths : Covers(C)
      BY <1>1 DEF Accounts, Covered
  <2>3. Range(given) \subseteq C /\ Closed(C)
      BY <2>1, <2>2 DEF Covers, Closed
  <2>4. f \in C
      BY <2>3 DEF Expected, Under
  <2>5. Handled(f) /\ ~Being(f)
      BY <2>1, <2>2, <2>4 DEF Covers, Being
  <2> QED BY <2>5 DEF Handled, Expected
<1> QED BY <1>1, AccountsCorrect, PTL
====
