---------------------------- MODULE MCWalletTopup ----------------------------
(* Two payments of one representative, both fitted by each of two bank     *)
(* messages (equal amounts, same card), and two concurrent workers.        *)
EXTENDS WalletTopup, TLC

MCAgentOf == [p \in Payments |-> CHOOSE a \in Agents : TRUE]
MCAmountOf == [p \in Payments |-> 1]
MCFits == Events \X Payments

\* The two workers, the two messages and the two payments are alike.
MCSymmetry == Permutations(Workers) \cup Permutations(Events) \cup Permutations(Payments)
=============================================================================
