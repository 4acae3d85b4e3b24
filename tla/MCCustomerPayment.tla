-------------------------- MODULE MCCustomerPayment --------------------------
(* A purchase, two renewals of one service, and a payment without an order *)
(* for one representative.                                                 *)
EXTENDS CustomerPayment, FiniteSets

CONSTANTS buy, renewA, renewB, plain, service, agent

MCAttempts == Payments \X (1..MaxAttempts)
MCKeys == {<<"debit", k>> : k \in MCAttempts} \cup {<<"refund", k>> : k \in MCAttempts}
MCBuys == Payments \cap {buy}
MCRenews == Payments \cap {renewA, renewB}
MCRenewOf == [p \in MCRenews |-> service]
MCWalletAmounts == {Price}
\* The payment without an order has nothing in common with the others, and is
\* looked at alone.  One answer of the panel is lost; of two payments, one is
\* tried again.
Bound ==
    /\ status[plain] # "none" => \A p \in Payments \ {plain} : status[p] = "none"
    /\ Cardinality(lost) <= 1
    /\ Cardinality({p \in Payments : used[p].keys > 1}) <= 1
\* In the storm an answer is lost or a bot dies.
OneLoss == Cardinality(lost) + crashes <= 1
=============================================================================
