----------------------- MODULE MCSubscriptionBilling -----------------------
(* SubscriptionBilling for TLC: pollers are interchangeable. *)
EXTENDS SubscriptionBilling, TLC

PollerSymmetry == Permutations(Pollers)
=============================================================================
