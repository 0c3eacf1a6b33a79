------------------------------ MODULE MCLogin -------------------------------
EXTENDS Login, TLC

(* Requests are interchangeable, and so are tokens. *)
Symmetry == Permutations(Reqs) \cup Permutations(Tokens)

=============================================================================
