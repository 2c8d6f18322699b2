--------------------------- MODULE MCWalletBilling ---------------------------
(***************************************************************************)
(* Instances of WalletBilling for TLC.                                     *)
(***************************************************************************)
EXTENDS WalletBilling, TLC

CONSTANTS r1, r2, u1, u2, t1, t2, n1, n2

OneUser   == (r1 :> u1) @@ (r2 :> u1)
TwoUsers  == (r1 :> u1) @@ (r2 :> u2)
OneToken  == (r1 :> t1) @@ (r2 :> t1)
OneNode   == (r1 :> n1) @@ (r2 :> n1)
TwoNodes  == (r1 :> n1) @@ (r2 :> n2)
Solo(x)   == r1 :> x
SoloUser  == Solo(u1)
SoloToken == Solo(t1)
SoloNode  == Solo(n1)

=============================================================================
