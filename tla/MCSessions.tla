----------------------------- MODULE MCSessions -----------------------------
(* Instances of Sessions for model checking. *)
EXTENDS Sessions, TLC

Symmetry ==
    Permutations(Users) \cup Permutations(Hashes)
    \cup Permutations(Tokens) \cup Permutations(Requests)

=============================================================================
