-------------------------- MODULE MCQueryServing --------------------------
(* A small instance: two requests at a time, two versions, two releases.   *)
EXTENDS QueryServing, TLC

Moves == [p \in Profiles |-> CASE p = "lambda" -> 2 [] p = "server" -> 1 [] p = "local" -> 3]

Symmetry == Permutations(Releases) \cup Permutations(Requests)
=============================================================================
