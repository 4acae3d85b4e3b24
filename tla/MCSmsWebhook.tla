---------------------------- MODULE MCSmsWebhook ----------------------------
(* Two payments, one of them a direct purchase, a top-up of the same       *)
(* amount, and two deposits, the message of one of which is sent under two *)
(* event ids.                                                              *)
EXTENDS SmsWebhook, TLC

CONSTANTS w1, w2, p1, p2, c1, e1, e2, e3, d1, d2

MCDepositOf == e1 :> d1 @@ e2 :> d1 @@ e3 :> d2
\* The two threads are alike, and so are the two messages of one deposit.
MCSymmetry == Permutations(Workers) \cup Permutations({e1, e2})
MCSameAmount == Events \X Targets
\* The second deposit was made from another card than that of p1.
MCFits == MCSameAmount \ {<<e3, p1>>}

\* What is at work at a time.
Busies ==
    Cardinality({w \in Workers : Working(w)})
        + Cardinality({receipt.p, topup.p} \ {Nothing})

\* Three targets of one amount at once add nothing to two, nor do three requests
\* and receipts at work.  What follows when two requests for one deposit
\* overlapped is excused, and not followed, nor is new work after a call that
\* raised; one write is lost.
Bound ==
    /\ Cardinality({p \in Targets : status[p] # "none"}) <= 2
    /\ \A d \in Deposits : <<d, d>> \notin met
    /\ Busies <= 2
    /\ (raised # {} => Busies = 0) /\ Cardinality(unwritten) <= 1
=============================================================================
