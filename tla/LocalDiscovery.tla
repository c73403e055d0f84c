---- MODULE LocalDiscovery ----
(***************************************************************************)
(* DiscoverLocalSources: the walk over local roots that may overlap, the   *)
(* documents a caller declares the kind of, deduplication by content, and  *)
(* the two limits.  Others replace files under the walk.                   *)
(*                                                                         *)
(* What a document shows of its kind, by its content and its name, is a    *)
(* constant; so is the place of a candidate in the sorted report.          *)
(***************************************************************************)
EXTENDS Naturals, Sequences, FiniteSets, Functions

CONSTANTS
    Dirs, Files,     \* the paths
    Entries,         \* [Dirs -> Seq(Dirs \cup Files)]: the names in a directory, in order
    Order,           \* the paths that may be roots, as sort.Strings orders them
    Named,           \* the files with an extension of a source that are no sidecar
    Likely,          \* those that are likelySourceFile
    Contents, Kinds,
    Detected,        \* [Files -> [Contents -> SUBSET Kinds]]: detectedLocalSourceKinds
    Structured,      \* [Files -> SUBSET Contents]: ambiguousStructuredDocument
    Valid,           \* [Contents -> SUBSET Kinds]: the kinds it parses as
    Rank,            \* [Files -> [Kinds -> Nat]]: by score, kind and path
    Declarable,      \* bound: the files that callers may declare the kind of
    Documents,       \* what a file may be, a subset of Document
    MaxVisited, MaxCandidates,
    None,
    MaxChanges       \* bound: files that are replaced under the walk

Paths == Dirs \cup Files
Document == [type : {"regular", "symlink", "special", "gone"}, large : BOOLEAN, content : Contents]

ASSUME PathAssumption ==
    /\ Dirs \cap Files = {} /\ None \notin Paths \cup Kinds
    /\ Entries \in [Dirs -> Seq(Paths)] /\ Order \in Seq(Paths)
    /\ Documents \subseteq Document
ASSUME KindAssumption ==
    /\ Kinds \cap {"invalid", "ambiguous", "unknown"} = {}
    /\ Detected \in [Files -> [Contents -> SUBSET Kinds]]
    /\ Valid \in [Contents -> SUBSET Kinds]
    /\ \A f, g \in Files : \A k, l \in Kinds : f # g => Rank[f][k] # Rank[g][l]
ASSUME LimitAssumption ==
    MaxVisited \in Nat \ {0} /\ MaxCandidates \in Nat \ {0} /\ MaxChanges \in Nat

VARIABLES
    disk,        \* [Files -> Documents]
    changed,     \* history: the files that were replaced
    explicit,    \* [Files -> Kinds \cup {None}]: explicitPaths
    given,       \* the sorted roots
    roots,       \* those still to be walked
    todo,        \* what WalkDir listed and has not visited: paths, and if they were links
    pc,
    at, seen,    \* the file being read, and what its Lstat showed
    visited,     \* VisitedEntries
    seenPaths,
    candidates,
    byDigest,    \* the index of the candidate with a content
    rejected, ambiguous,  \* [Files -> Nat]: how often a path is listed
    truncated

inputVars == <<disk, changed, explicit, given>>
walkVars == <<roots, todo, visited, seenPaths>>
readVars == <<at, seen>>
foundVars == <<candidates, byDigest>>
reportVars == <<foundVars, rejected, ambiguous, truncated>>
vars == <<inputVars, walkVars, readVars, reportVars, pc>>

\* The elements of a sequence that are in a set, in their order: SelectSeq, as a
\* recursive function that a proof can expand.
Those(seq, set) ==
    LET upTo[n \in 0..Len(seq)] ==
          IF n = 0 THEN <<>>
          ELSE IF seq[n] \in set THEN Append(upTo[n - 1], seq[n]) ELSE upTo[n - 1]
    IN upTo[Len(seq)]

Candidate == [path : Files, kind : Kinds, content : Contents, duplicates : SUBSET Files]

Init ==
    /\ disk \in [Files -> Documents] /\ changed = {}
    /\ explicit \in [Files -> Kinds \cup {None}]
    /\ \A f \in Files \ Declarable : explicit[f] = None
    /\ \E listed \in SUBSET Range(Order) :
          given = Those(Order, listed \cup {f \in Files : explicit[f] # None})
    /\ given # <<>> /\ roots = given
    /\ todo = <<>> /\ visited = 0 /\ seenPaths = {}
    /\ at = None /\ seen = None
    /\ candidates = <<>> /\ byDigest = [c \in {} |-> 0]
    /\ rejected = [f \in Files |-> 0] /\ ambiguous = [f \in Files |-> 0]
    /\ truncated = FALSE
    /\ pc = "walk"

\* A variant with a bug: the walk ends at a limit and the report looks whole.
LimitUnreported == pc' = "stop" /\ UNCHANGED truncated
\* Reaching a limit ends the walk, and the report says so.
Limit == pc' = "stop" /\ truncated' = TRUE

Reject(f) == rejected' = [rejected EXCEPT ![f] = @ + 1]

(***************************************************************************)
(* inspect, up to the reading of the file f whose FileInfo is info.        *)
(***************************************************************************)
Proceed == pc' = "walk" /\ UNCHANGED <<at, rejected>>

\* A variant with a bug: a file is inspected once for every root it is under.
InspectAgain(f, info) ==
    /\ seenPaths' = seenPaths \cup {f}
    /\ \/ info.type = "regular" /\ f \notin Named /\ explicit[f] = None /\ Proceed
       \/ info.type # "regular" /\ Reject(f) /\ pc' = "walk" /\ UNCHANGED at
       \/ /\ info.type = "regular" /\ (f \in Named \/ explicit[f] # None)
          /\ IF info.large THEN Reject(f) /\ pc' = "walk" /\ UNCHANGED at
                           ELSE pc' = "lstat" /\ at' = f /\ UNCHANGED rejected
\* A path is inspected once, and read if its name or a declaration says that
\* it is a source and it is not too large.
Inspect(f, info) ==
    LET source == f \in Named \/ explicit[f] # None
        refused == info.type # "regular" \/ (source /\ info.large)
    IN /\ seenPaths' = seenPaths \cup {f}
       /\ \/ (f \in seenPaths \/ (~refused /\ ~source)) /\ Proceed
          \/ f \notin seenPaths /\ refused /\ Reject(f) /\ pc' = "walk" /\ UNCHANGED at
          \/ f \notin seenPaths /\ ~refused /\ source
             /\ pc' = "lstat" /\ at' = f /\ UNCHANGED rejected

(***************************************************************************)
(* The walk.                                                               *)
(***************************************************************************)
\* A variant with a bug: the limit is noticed one entry late.
AtEntryLimitLate == visited > MaxVisited
AtEntryLimit == visited >= MaxVisited

Fail == pc' = "error" /\ UNCHANGED <<at, rejected, seenPaths>>
StopAtEntries == AtEntryLimit /\ Limit /\ UNCHANGED <<visited, seenPaths, at, rejected>>

\* A root that is a directory is walked, a file is inspected as an entry, and
\* anything else ends the discovery with an error.
StartRoot ==
    /\ pc = "walk" /\ todo = <<>> /\ roots # <<>>
    /\ roots' = Tail(roots)
    /\ LET root == Head(roots)
           regular == root \in Files /\ disk[root].type = "regular"
       IN \/ /\ root \in Dirs
             /\ todo' = <<[path |-> root, link |-> FALSE]>>
             /\ Proceed /\ UNCHANGED <<visited, seenPaths, truncated>>
          \/ regular /\ StopAtEntries /\ UNCHANGED todo
          \/ regular /\ ~AtEntryLimit
             /\ visited' = visited + 1 /\ Inspect(root, disk[root]) /\ UNCHANGED <<todo, truncated>>
          \/ root \in Files /\ ~regular
             /\ Fail /\ UNCHANGED <<todo, visited, truncated>>
    /\ UNCHANGED <<inputVars, seen, foundVars, ambiguous>>

\* What ReadDir lists of a directory.
Listing(d) ==
    LET present == Those(Entries[d], Dirs \cup {f \in Files : disk[f].type # "gone"})
        Link(p) == p \in Files /\ disk[p].type = "symlink"
    IN [i \in DOMAIN present |-> [path |-> present[i], link |-> Link(present[i])]]

\* Whether an entry is a link is known from the listing, its FileInfo is of now.
VisitPath(p, link) ==
    \/ p \in Dirs /\ todo' = Listing(p) \o Tail(todo) /\ Proceed /\ UNCHANGED seenPaths
    \/ /\ p \in Files /\ todo' = Tail(todo)
       /\ \/ link /\ Reject(p) /\ pc' = "walk" /\ UNCHANGED <<at, seenPaths>>
          \/ ~link /\ disk[p].type = "gone" /\ Fail
          \/ ~link /\ disk[p].type # "gone" /\ Inspect(p, disk[p])

Visit ==
    /\ pc = "walk" /\ todo # <<>>
    /\ \/ StopAtEntries /\ UNCHANGED todo
       \/ /\ ~AtEntryLimit /\ visited' = visited + 1 /\ UNCHANGED truncated
          /\ VisitPath(Head(todo).path, Head(todo).link)
    /\ UNCHANGED <<inputVars, roots, seen, foundVars, ambiguous>>

(***************************************************************************)
(* readLocalSpecFile: Lstat, then Open and SameFile.                       *)
(***************************************************************************)
Lstat ==
    /\ pc = "lstat"
    /\ \/ /\ disk[at].type = "regular" /\ ~disk[at].large
          /\ seen' = disk[at] /\ pc' = "open" /\ UNCHANGED <<at, rejected>>
       \/ /\ disk[at].type # "regular" \/ disk[at].large
          /\ Reject(at) /\ at' = None /\ pc' = "walk" /\ UNCHANGED seen
    /\ UNCHANGED <<inputVars, walkVars, foundVars, ambiguous, truncated>>

\* detectLocalSource: a kind, or why there is none.
Verdict(f, c) ==
    LET kinds == IF explicit[f] # None THEN {explicit[f]} ELSE Detected[f][c] IN
    CASE Cardinality(kinds) > 1 -> "ambiguous"
      [] Cardinality(kinds) = 1 -> IF kinds \subseteq Valid[c] THEN CHOOSE k \in kinds : TRUE
                                                               ELSE "invalid"
      [] kinds = {} -> IF c \in Structured[f] THEN "ambiguous" ELSE "unknown"

NewCandidate(f, kind, c) ==
    /\ byDigest' = [d \in DOMAIN byDigest \cup {c} |->
                      IF d = c THEN Len(candidates) + 1 ELSE byDigest[d]]
    /\ candidates' = Append(candidates,
                       [path |-> f, kind |-> kind, content |-> c, duplicates |-> {}])
    /\ IF Len(candidates) + 1 >= MaxCandidates THEN Limit ELSE pc' = "walk" /\ UNCHANGED truncated

\* A variant with a bug: the same content of another kind is a new candidate.
AcceptByKind(f, kind, c) ==
    IF c \in DOMAIN byDigest /\ candidates[byDigest[c]].kind = kind
    THEN /\ candidates' = [candidates EXCEPT ![byDigest[c]].duplicates = @ \cup {f}]
         /\ pc' = "walk" /\ UNCHANGED <<byDigest, truncated>>
    ELSE NewCandidate(f, kind, c)
\* A document whose content a candidate has already is a duplicate of it.
Accept(f, kind, c) ==
    \/ /\ c \in DOMAIN byDigest
       /\ candidates' = [candidates EXCEPT ![byDigest[c]].duplicates = @ \cup {f}]
       /\ pc' = "walk" /\ UNCHANGED <<byDigest, truncated>>
    \/ c \notin DOMAIN byDigest /\ NewCandidate(f, kind, c)

\* The rest of inspect, on a file that is still the one Lstat saw.
Read ==
    /\ pc = "open"
    /\ LET same == disk[at] = seen
           verdict == Verdict(at, seen.content)
       IN \/ /\ same /\ verdict \in Kinds
             /\ Accept(at, verdict, seen.content)
             /\ UNCHANGED <<rejected, ambiguous>>
          \/ /\ same /\ verdict = "ambiguous"
             /\ ambiguous' = [ambiguous EXCEPT ![at] = @ + 1]
             /\ pc' = "walk" /\ UNCHANGED <<foundVars, rejected, truncated>>
          \/ /\ ~same \/ verdict = "invalid" \/ (verdict = "unknown" /\ at \in Likely)
             /\ Reject(at) /\ pc' = "walk" /\ UNCHANGED <<foundVars, ambiguous, truncated>>
          \/ /\ same /\ verdict = "unknown" /\ at \notin Likely
             /\ pc' = "walk" /\ UNCHANGED reportVars
    /\ at' = None /\ seen' = None
    /\ UNCHANGED <<inputVars, walkVars>>

(***************************************************************************)
(* finish sorts the candidates.                                            *)
(***************************************************************************)
RankOf(c) == Rank[c.path][c.kind]

Finish ==
    /\ pc = "stop" \/ (pc = "walk" /\ todo = <<>> /\ roots = <<>>)
    /\ \E f \in Bijection(DOMAIN candidates, DOMAIN candidates) :
          /\ candidates' = [i \in DOMAIN candidates |-> candidates[f[i]]]
          /\ \A i, j \in DOMAIN candidates :
                i < j => RankOf(candidates[f[i]]) < RankOf(candidates[f[j]])
    /\ pc' = "done"
    /\ UNCHANGED <<inputVars, walkVars, readVars, byDigest, rejected, ambiguous, truncated>>

\* Somebody else replaces a file.
Change(f) ==
    /\ pc \notin {"done", "error"}
    /\ Cardinality(changed) < MaxChanges /\ f \notin changed
    /\ \E doc \in Documents : doc # disk[f] /\ disk' = [disk EXCEPT ![f] = doc]
    /\ changed' = changed \cup {f}
    /\ UNCHANGED <<explicit, given, walkVars, readVars, reportVars, pc>>

Next ==
    \/ StartRoot \/ Visit \/ Lstat \/ Read \/ Finish
    \/ \E f \in Files : Change(f)

Spec == Init /\ [][Next]_vars

----------------------------------------------------------------------------
\* The report keeps to both limits, however many roots lead to an entry.
WithinLimits == visited <= MaxVisited /\ Len(candidates) <= MaxCandidates

\* No two candidates have the same content, whatever the paths and the kinds
\* under which it was found ("deduplicates identical content by SHA-256
\* digest", local_source_discovery.go:130).
ContentsDiffer ==
    \A i, j \in DOMAIN candidates :
        candidates[i].content = candidates[j].content => i = j

\* A report that is not truncated accounts for every source under the roots:
\* a file that was not replaced meanwhile and is a source by its name or its
\* declaration is a candidate, a duplicate, rejected or ambiguous, unless its
\* name is of no particular format and its content shows nothing of a kind.
Closed(C) == \A d \in C \cap Dirs : Range(Entries[d]) \subseteq C
Under == {p \in Paths : \A C \in SUBSET Paths : Range(given) \subseteq C /\ Closed(C) => p \in C}
Mentions(f) ==
    rejected[f] + ambiguous[f]
    + Cardinality({i \in DOMAIN candidates : candidates[i].path = f})
    + Cardinality({i \in DOMAIN candidates : f \in candidates[i].duplicates})
Source(f) ==
    /\ f \in Named \/ explicit[f] # None
    /\ disk[f].type = "regular" /\ ~disk[f].large =>
          Verdict(f, disk[f].content) # "unknown" \/ f \in Likely
Expected(f) == f \notin changed /\ disk[f].type # "gone" /\ Source(f) /\ f \in Under
NothingIsLost ==
    pc = "done" /\ ~truncated => \A f \in Files : Mentions(f) > 0 \/ ~Expected(f)

\* A file is reported once, though overlapping roots and its own declaration
\* lead to it several times, unless it is a symbolic link.
ReportedOnce ==
    \A f \in Files \ changed : disk[f].type # "symlink" => Mentions(f) <= 1
====
