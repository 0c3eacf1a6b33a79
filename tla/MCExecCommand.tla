--------------------------- MODULE MCExecCommand ---------------------------
EXTENDS ExecCommand

(* Requests are interchangeable. *)
Symmetry == Permutations(Execs)

=============================================================================
