--------------------------- MODULE MCUserSession ---------------------------
(* UserSession for TLC: handlers are interchangeable. *)
EXTENDS UserSession, TLC

Symmetry == Permutations(Procs)
=============================================================================
