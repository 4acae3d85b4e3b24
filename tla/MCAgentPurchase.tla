-------------------------- MODULE MCAgentPurchase --------------------------
(* One representative, two keys and two renewals of one service.           *)
EXTENDS AgentPurchase, TLC

CONSTANTS agent, o1, o2

MCKeys == {<<"debit", o>> : o \in Ops} \cup {<<"refund", o>> : o \in Ops}
MCSymmetry == Permutations(Ops)

\* Purchases and renewals share the wallet only: two of them at most, or two
\* renewals and a deletion; the price changes while nothing is deleted.
Bound ==
    /\ opened # {} => Cardinality(opened) + renewed + deletions <= 2
    /\ reprices = 0 \/ deletions = 0
=============================================================================
