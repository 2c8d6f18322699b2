--------------------------- MODULE MCBatchUpdater ---------------------------
(***************************************************************************)
(* Instances of BatchUpdater for TLC: a user row with two columns and a    *)
(* token or channel row with one.                                          *)
(***************************************************************************)
EXTENDS BatchUpdater, TLC

CONSTANTS quota, usedQuota, remainQuota, user, other, o1, o2, o3, o4

TwoRows == (quota :> user) @@ (usedQuota :> user) @@ (remainQuota :> other)
OneRow  == (quota :> user) @@ (usedQuota :> user)
Signed  == {-1, 0, 3}
=============================================================================
