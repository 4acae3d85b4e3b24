-------------------------- MODULE MCAgentSmsQueue --------------------------
(* Two payments of one amount, and two deposits, the message of each of    *)
(* which is sent under two event ids.  One has a reference, the other has  *)
(* neither a reference nor the number of its sender.                       *)
EXTENDS AgentSmsQueue, TLC

CONSTANTS w1, w2, p1, p2, e1, e2, e3, e4, d1, d2

MCDepositOf == e1 :> d1 @@ e2 :> d1 @@ e3 :> d2 @@ e4 :> d2
MCTraced == {d1}
MCFits == Events \X Payments
\* The threads are alike, and so are the payments and the messages of one
\* deposit.
MCSymmetry == Permutations(Workers) \cup Permutations(Payments)
              \cup Permutations({e1, e2}) \cup Permutations({e3, e4})
=============================================================================
