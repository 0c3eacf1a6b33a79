-------------------------- MODULE MCTerminalClient --------------------------
EXTENDS TerminalClient, TLC

(* Sessions are interchangeable, and so are slots. *)
Symmetry == Permutations(Sessions) \cup Permutations(Slots)

=============================================================================
