---- MODULE MCSpecFetch ----
(***************************************************************************)
(* Two references with a file each; the first redirects to a third URL,    *)
(* which has no file of its own, and may move to the second reference.     *)
(***************************************************************************)
EXTENDS SpecFetch, TLC
CONSTANTS u1, u2, u3, p1, p2

MCRedirects == {u1 :> to @@ u2 :> u2 @@ u3 :> u3 : to \in {u2, u3}}
MCArtifactPath == u1 :> p1 @@ u2 :> p2
MCBatches == {<<u1, u2>>}
Symmetry == Permutations(Refreshers)

MCInit == Init /\ final[u1] = u3
MCSpec == MCInit /\ [][Next]_vars
====
