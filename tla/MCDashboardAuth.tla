-------------------------- MODULE MCDashboardAuth --------------------------
(* DashboardAuth for TLC: tabs, and the requests of a tab, are alike. *)
EXTENDS DashboardAuth, TLC

Symmetry == Permutations(Tabs) \cup Permutations(Reqs)
=============================================================================
