-------------------------- MODULE MCModelDeployment --------------------------
(* Instances of ModelDeployment for TLC. *)
EXTENDS ModelDeployment, TLC

CONSTANTS a, b, m1, m2, f1, q1, q2, q3, d1, d2

\* Two model names that become one function.
OneSlug == [m \in Names |-> f1]
Alike   == Permutations(Orgs) \cup Permutations(Names) \cup Permutations(Requests)
             \cup Permutations(Rows)
=============================================================================
