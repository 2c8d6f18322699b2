--------------------------- MODULE RequestAccount ---------------------------
(***************************************************************************)
(* What wallet billing promises for one relay request, without sessions,   *)
(* processes, sweepers or failures: money is held once and the hold ends   *)
(* in exactly one of three ways.  It is charged at the metered amount,     *)
(* returned whole, or voided because the user it belongs to has been       *)
(* erased.  WalletBilling implements this specification as long as nobody  *)
(* tops a reservation up, which no caller of the program does.             *)
(***************************************************************************)
EXTENDS Integers

CONSTANTS Requests, PreQuotas, Actuals

VARIABLE acct    \* acct[r]: state of r's account and the amount it has taken

Init == acct = [r \in Requests |-> [st |-> "none", amt |-> 0]]

\* The estimate is taken from the wallet.
Hold(r, q) ==
  /\ acct[r].st = "none" /\ q > 0
  /\ acct' = [acct EXCEPT ![r] = [st |-> "held", amt |-> q]]

\* The hold is corrected to the metered amount.
Charge(r, a) ==
  /\ acct[r].st = "held"
  /\ acct' = [acct EXCEPT ![r] = [st |-> "charged", amt |-> a]]

\* The hold is given back.
Return(r) ==
  /\ acct[r].st = "held"
  /\ acct' = [acct EXCEPT ![r] = [st |-> "returned", amt |-> 0]]

\* A user is erased, and with the user the holds in S.
Void(S) ==
  /\ \A r \in S : acct[r].st = "held"
  /\ acct' = [r \in Requests |->
       IF r \in S THEN [st |-> "voided", amt |-> acct[r].amt] ELSE acct[r]]

Next ==
  \/ \E r \in Requests :
       \/ \E q \in PreQuotas : Hold(r, q)
       \/ \E a \in Actuals : Charge(r, a)
       \/ Return(r)
  \/ \E S \in SUBSET Requests : Void(S)

Spec == Init /\ [][Next]_acct
=============================================================================
