---- MODULE ProjectDiscovery ----
(***************************************************************************)
(* discovery.go, import.go, local.go: Discoverer.DiscoverWithReport, by    *)
(* several processes on one project directory.  Each scans the documents   *)
(* in the directory, imports those its project text names under names that *)
(* are free, and turns to APIs.guru when it has found nothing.             *)
(*                                                                         *)
(* A file name is a stem with a suffix, <<stem, n>>; a file records who    *)
(* writes it and how much of it is written.                                *)
(***************************************************************************)
EXTENDS Naturals, FiniteSets, SequencesExt

CONSTANTS
    Processes,   \* the running discoveries
    URLs,        \* the URLs of documents
    Mentioned,   \* the URLs in each one's project text, in order
    Stem,        \* the stem of the file name an import of a URL asks for
    GuruMatch,   \* the URL of the best APIs.guru match, or None
    MaxURLs,     \* DefaultMaxProjectURLs
    Loose,       \* does the beginning of a document pass for a document?
    None,
    MaxFaults,   \* bound: failing downloads and system calls
    MaxCrashes   \* bound: crashes

ASSUME UrlAssumption ==
    /\ Mentioned \in [Processes -> Seq(URLs)]
    /\ GuruMatch \in URLs \cup {None} /\ None \notin URLs /\ "local" \notin URLs
ASSUME BoundAssumption == MaxURLs \in Nat /\ MaxFaults \in Nat /\ MaxCrashes \in Nat

VARIABLES
    dir,         \* the files: [name -> [url, writer, written]]
    pc,          \* the next step of each process
    todo,        \* what it has still to read or to import
    suffix,      \* the suffix writeUniqueFile tries next
    found,       \* its candidates: [name, source]
    attempts,    \* its attempts: [url, status]
    res,         \* what it returned
    faults, crashes

fileVars == <<todo, suffix>>
reportVars == <<found, attempts, res>>
vars == <<dir, pc, fileVars, reportVars, faults, crashes>>

\* Each URL once, in the order of the text: after[n] is what the first n leave.
Unique(urls) ==
    LET after[n \in 0..Len(urls)] ==
            IF n = 0 THEN <<>>
            ELSE IF \E i \in 1..(n - 1) : urls[i] = urls[n] THEN after[n - 1]
                 ELSE Append(after[n - 1], urls[n])
    IN after[Len(urls)]

Running == {"scan", "read", "urls", "download", "create", "write", "remove", "guru"}

Init ==
    /\ dir = <<>>
    /\ pc = [p \in Processes |-> "scan"]
    /\ todo = [p \in Processes |-> <<>>]
    /\ suffix = [p \in Processes |-> 1]
    /\ found = [p \in Processes |-> <<>>]
    /\ attempts = [p \in Processes |-> <<>>]
    /\ res = [p \in Processes |-> "none"]
    /\ faults = 0 /\ crashes = 0

Goto(p, step) == pc' = [pc EXCEPT ![p] = step]
Succeed == UNCHANGED faults
Fault == faults < MaxFaults /\ faults' = faults + 1
Return(p, r) == Goto(p, "done") /\ res' = [res EXCEPT ![p] = r]

File(p, url, written) == [url |-> url, writer |-> p, written |-> written]
With(name, file) == [n \in DOMAIN dir \cup {name} |-> IF n = name THEN file ELSE dir[n]]
Without(name) == [n \in DOMAIN dir \ {name} |-> dir[n]]

(***************************************************************************)
(* LocalFiles: the directory is listed, then its files are read.           *)
(***************************************************************************)
Scan(p) ==
    /\ pc[p] = "scan"
    /\ Goto(p, "read")
    /\ todo' = [todo EXCEPT ![p] = SetToSeq(DOMAIN dir)]
    /\ Succeed /\ UNCHANGED <<dir, suffix, reportVars, crashes>>

\* An empty file, or one that is no document, is passed over; a file that is
\* gone ends the discovery.
Accepts(file) == file.written = "whole" \/ (file.written = "part" /\ Loose)
ReadFile(p) ==
    /\ pc[p] = "read"
    /\ \/ /\ todo[p] = <<>>
          /\ Goto(p, "urls")
          /\ Succeed /\ UNCHANGED <<todo, reportVars>>
       \/ /\ todo[p] # <<>>
          /\ todo' = [todo EXCEPT ![p] = Tail(@)]
          /\ LET name == Head(todo[p]) IN
             \/ /\ name \in DOMAIN dir
                /\ found' = [found EXCEPT ![p] =
                      IF Accepts(dir[name]) THEN Append(@, [name |-> name, source |-> "local"]) ELSE @]
                /\ Succeed /\ UNCHANGED <<pc, attempts, res>>
             \/ /\ IF name \in DOMAIN dir THEN Fault ELSE Succeed
                /\ Return(p, "error")
                /\ found' = [found EXCEPT ![p] = <<>>]
                /\ UNCHANGED attempts
    /\ UNCHANGED <<dir, suffix, crashes>>

(***************************************************************************)
(* ImportProjectURLsReport: nothing is imported when there are too many    *)
(* URLs; else one after the other.                                         *)
(***************************************************************************)
ProjectURLs(p) ==
    /\ pc[p] = "urls"
    /\ LET urls == Unique(Mentioned[p]) IN
       IF Len(urls) > MaxURLs THEN Return(p, "error") /\ UNCHANGED todo
       ELSE /\ Goto(p, "download")
            /\ todo' = [todo EXCEPT ![p] = urls]
            /\ UNCHANGED res
    /\ Succeed /\ UNCHANGED <<dir, suffix, found, attempts, crashes>>

\* APIs.guru is asked after the last URL if there is no candidate.
Asking(p) == res[p] = "asking"
Rest(p) == Tail(todo[p])

\* The import of a URL is over.
Attempted(p, status) ==
    /\ attempts' = [attempts EXCEPT ![p] = Append(@, [url |-> Head(todo[p]), status |-> status])]
    /\ todo' = [todo EXCEPT ![p] = Rest(p)]
    /\ suffix' = [suffix EXCEPT ![p] = 1]

\* A variant with a bug: the first failure ends the imports.
FailImportStops(p) ==
    /\ attempts' = [attempts EXCEPT ![p] = Append(@, [url |-> Head(todo[p]), status |-> "fail"])]
    /\ todo' = [todo EXCEPT ![p] = <<>>]
    /\ suffix' = [suffix EXCEPT ![p] = 1]
    /\ IF Asking(p) THEN Return(p, "error") ELSE Goto(p, "download") /\ UNCHANGED res
    /\ UNCHANGED found
FailImport(p) ==
    /\ Attempted(p, "fail")
    /\ IF Asking(p) THEN Return(p, "error") ELSE Goto(p, "download") /\ UNCHANGED res
    /\ UNCHANGED found

Download(p) ==
    /\ pc[p] = "download"
    /\ \/ /\ todo[p] # <<>>
          /\ Goto(p, "create")
          /\ Succeed /\ UNCHANGED <<fileVars, reportVars>>
       \/ todo[p] # <<>> /\ Fault /\ FailImport(p)
       \/ /\ todo[p] = <<>>
          /\ IF found[p] = <<>> /\ ~Asking(p)
             THEN Goto(p, "guru") /\ UNCHANGED res ELSE Return(p, "ok")
          /\ Succeed /\ UNCHANGED <<fileVars, found, attempts>>
    /\ UNCHANGED <<dir, crashes>>

(***************************************************************************)
(* writeUniqueFile.                                                        *)
(***************************************************************************)
Name(p) == <<Stem[Head(todo[p])], suffix[p]>>

\* A variant with a bug: an existing file is opened as well.
CreateAnyway(p) ==
    /\ pc[p] = "create"
    /\ dir' = With(Name(p), File(p, Head(todo[p]), "empty"))
    /\ Goto(p, "write")
    /\ Succeed /\ UNCHANGED <<fileVars, reportVars, crashes>>
\* A variant with a bug: a name that is taken is tried again.
CreateSameName(p) ==
    /\ pc[p] = "create"
    /\ \/ /\ Name(p) \notin DOMAIN dir
          /\ dir' = With(Name(p), File(p, Head(todo[p]), "empty"))
          /\ Goto(p, "write")
          /\ Succeed /\ UNCHANGED <<fileVars, reportVars>>
       \/ /\ Name(p) \in DOMAIN dir
          /\ Succeed /\ UNCHANGED <<dir, pc, fileVars, reportVars>>
       \/ Fault /\ FailImport(p) /\ UNCHANGED dir
    /\ UNCHANGED crashes
\* O_CREATE|O_EXCL: a name that is taken is passed over.
Create(p) ==
    /\ pc[p] = "create"
    /\ \/ /\ Name(p) \notin DOMAIN dir
          /\ dir' = With(Name(p), File(p, Head(todo[p]), "empty"))
          /\ Goto(p, "write")
          /\ Succeed /\ UNCHANGED <<fileVars, reportVars>>
       \/ /\ Name(p) \in DOMAIN dir
          /\ suffix' = [suffix EXCEPT ![p] = @ + 1]
          /\ Succeed /\ UNCHANGED <<dir, pc, todo, reportVars>>
       \/ Fault /\ FailImport(p) /\ UNCHANGED dir
    /\ UNCHANGED crashes

\* The document reaches the file in pieces; a failing write is undone.
Write(p) ==
    /\ pc[p] = "write"
    /\ \/ /\ dir[Name(p)].written = "empty"
          /\ dir' = With(Name(p), File(p, Head(todo[p]), "part"))
          /\ Succeed /\ UNCHANGED <<pc, fileVars, reportVars>>
       \/ /\ dir[Name(p)].written = "part"
          /\ dir' = With(Name(p), File(p, Head(todo[p]), "whole"))
          /\ found' = [found EXCEPT ![p] = Append(@, [name |-> Name(p), source |-> Head(todo[p])])]
          /\ Attempted(p, "pass")
          /\ Goto(p, "download")
          /\ Succeed /\ UNCHANGED res
       \/ /\ Fault
          /\ Goto(p, "remove")
          /\ UNCHANGED <<dir, fileVars, reportVars>>
    /\ UNCHANGED crashes

\* A variant with a bug: what was written stays.
RemoveNothing(p) ==
    /\ pc[p] = "remove"
    /\ FailImport(p)
    /\ Succeed /\ UNCHANGED <<dir, crashes>>
\* os.Remove, whose error is ignored.
RemoveFile(p) ==
    /\ pc[p] = "remove"
    /\ FailImport(p)
    /\ \/ dir' = Without(Name(p)) /\ Succeed
       \/ Fault /\ UNCHANGED dir
    /\ UNCHANGED crashes

\* ImportBestAPIsGuruMatch: the search fails, or its best result is imported.
AskGuru(p) ==
    /\ pc[p] = "guru"
    /\ \/ /\ GuruMatch # None
          /\ Goto(p, "download")
          /\ todo' = [todo EXCEPT ![p] = <<GuruMatch>>]
          /\ res' = [res EXCEPT ![p] = "asking"]
          /\ Succeed
       \/ /\ IF GuruMatch = None THEN Succeed ELSE Fault
          /\ Return(p, "error")
          /\ UNCHANGED todo
    /\ UNCHANGED <<dir, suffix, found, attempts, crashes>>

Crash(p) ==
    /\ pc[p] \in Running
    /\ crashes < MaxCrashes /\ crashes' = crashes + 1
    /\ Goto(p, "dead")
    /\ UNCHANGED <<dir, fileVars, reportVars, faults>>

Step(p) ==
    \/ Scan(p) \/ ReadFile(p) \/ ProjectURLs(p) \/ Download(p)
    \/ Create(p) \/ Write(p) \/ RemoveFile(p) \/ AskGuru(p)

Next == \E p \in Processes : Step(p) \/ Crash(p)

\* Each process runs on until it returns or dies.
Spec == Init /\ [][Next]_vars /\ \A p \in Processes : WF_vars(Step(p))
----------------------------------------------------------------------------
(***************************************************************************)
(* Properties.                                                             *)
(***************************************************************************)
\* Names are free or the file of one importer.
Names == {Stem[u] : u \in URLs} \X Nat
Files == [url : URLs, writer : Processes, written : {"empty", "part", "whole"}]
TypeOK ==
    /\ DOMAIN dir \in SUBSET Names /\ IsFiniteSet(DOMAIN dir) /\ dir \in [DOMAIN dir -> Files]
    /\ pc \in [Processes -> Running \cup {"done", "dead"}]
    /\ todo \in [Processes -> Seq(Names \cup URLs)]
    /\ suffix \in [Processes -> Nat]
    /\ found \in [Processes -> Seq([name : Names, source : URLs \cup {"local"}])]
    /\ attempts \in [Processes -> Seq([url : URLs, status : {"pass", "fail"}])]
    /\ res \in [Processes -> {"none", "asking", "ok", "error"}]
    /\ faults \in Nat /\ crashes \in Nat

Imported(p) == {i \in DOMAIN found[p] : found[p][i].source # "local"}

\* What an import returned is there, whole, as long as the discoveries run:
\* importers that race for a name never write, truncate or remove a file that
\* is not their own (writeUniqueFile).
ImportsSurvive ==
    \A p \in Processes : \A i \in Imported(p) :
        LET c == found[p][i] IN
        c.name \in DOMAIN dir /\ dir[c.name] = File(p, c.source, "whole")

\* When nobody runs, a file that is not whole is the trace of a crash, or of
\* a failing write whose removal failed too: of two faults.
OnlyCrashesLitter ==
    (\A p \in Processes : pc[p] \notin Running) =>
        \A n \in DOMAIN dir : dir[n].written = "whole"
            \/ pc[dir[n].writer] = "dead" \/ faults >= 2

\* A discovery that succeeds has tried every URL of its project text exactly
\* once, those that failed are in the report, and it fails rather than return
\* nothing.
NothingIsSkipped ==
    \A p \in Processes : res[p] = "ok" =>
        /\ found[p] # <<>>
        /\ Unique(Mentioned[p]) \in {SubSeq([i \in DOMAIN attempts[p] |-> attempts[p][i].url], 1, n) :
                                         n \in 0..Len(attempts[p])}
        /\ Cardinality(Imported(p)) =
              Cardinality({i \in DOMAIN attempts[p] : attempts[p][i].status = "pass"})

\* Every discovery ends: the search for a free name does, however many others
\* take names at the same time.
EveryDiscoveryEnds == \A p \in Processes : <>(pc[p] \notin Running)
====
