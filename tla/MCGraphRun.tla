----------------------------- MODULE MCGraphRun -----------------------------
(* Instances of GraphRun for TLC: two graphs and what requests may hold back. *)
EXTENDS GraphRunContract, TLC

CONSTANTS a, b, c

\* a feeds b.
ChainDeps == (a :> {}) @@ (b :> {a})
ChainRank == (a :> 0) @@ (b :> 1)

\* a feeds b and c; b and c are leaves in different branches.
ForkDeps == (a :> {}) @@ (b :> {a}) @@ (c :> {a})
ForkRank == (a :> 0) @@ (b :> 1) @@ (c :> 2)

AllOpen == [n \in Nodes |-> "open"]
OpenOnly == {AllOpen}
HeldBack == {AllOpen, [AllOpen EXCEPT ![b] = "script"],
             [AllOpen EXCEPT ![a] = "disabled"], [AllOpen EXCEPT ![b] = "denied"]}

JobSymmetry == Permutations(Jobs)
Symmetry == Permutations(Jobs) \cup Permutations(Runs)
=============================================================================
