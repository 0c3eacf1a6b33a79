-------------------------- MODULE MCSessionManager --------------------------
EXTENDS SessionManager, TLC

(* Ids and requests are interchangeable; not for runs that check liveness. *)
Symmetry == Permutations(Ids) \cup Permutations(Reqs)

=============================================================================
