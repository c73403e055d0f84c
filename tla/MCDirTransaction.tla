---- MODULE MCDirTransaction ----
(***************************************************************************)
(* Instances of DirTransaction.  At most MaxFaultsInOverlap system calls   *)
(* fail when transactions overlap.                                         *)
(***************************************************************************)
EXTENDS DirTransaction, TLC
CONSTANTS t1, t2, t3
CONSTANT MaxFaultsInOverlap  \* bound: system calls that fail when transactions overlap

\* Two files with two contents each.  A plan may stage both files, one
\* file or nothing, or contradict itself.
File(n, d) == [name |-> n, data |-> d]
MCPlans ==
    { <<File(1, "x"), File(2, "x")>>, <<File(1, "x"), File(2, "y")>>,
      <<File(1, "y"), File(2, "y")>>, <<File(1, "y")>>,
      <<File(1, "x"), File(1, "y")>>, <<>> }
PairPlans ==
    { <<File(1, "x"), File(2, "y")>>, <<File(1, "y"), File(2, "y")>> }
MCOldTree == 1 :> "x" @@ 2 :> "x"

TransactionSymmetry == Permutations(Transactions)

MCNext == Next /\ (turns \/ faults' <= MaxFaultsInOverlap)

MCSpec == Init /\ [][MCNext]_vars
====
