---- MODULE MCArtifactFile ----
(***************************************************************************)
(* Instances of ArtifactFile.  Calls that overlap make few requests and    *)
(* at most MaxFaultsInOverlap system calls fail; callers that take turns   *)
(* make every request.                                                     *)
(***************************************************************************)
EXTENDS ArtifactFile, TLC
CONSTANTS w1, w2, w3
CONSTANT MaxFaultsInOverlap    \* bound: system calls that fail when calls overlap

\* Two contents of the same size and a longer one; the old file is short.
MCContents == {"old", "new", "long"}
MCSize == [c \in MCContents |-> IF c = "long" THEN 2 ELSE 1]

AllRequests == [data : {"old", "new", "long"}, force : BOOLEAN]
FewRequests == [data : {"old", "new"}, force : BOOLEAN]

WriterSymmetry == Permutations(Writers)

MCInit == Init /\ (turns \/ req \in [Writers -> FewRequests])

MCNext == Next /\ (turns \/ faults' <= MaxFaultsInOverlap)

MCSpec == MCInit /\ [][MCNext]_vars
====
