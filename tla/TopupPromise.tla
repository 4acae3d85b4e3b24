----------------------------- MODULE TopupPromise -----------------------------
(***************************************************************************)
(* What a representative is promised about top-ups, without claims, keys,  *)
(* bank messages or processes: a request is paid or refused, once and for  *)
(* all, and the wallet grows in the very step that pays it.                *)
(***************************************************************************)
EXTENDS Integers

CONSTANTS Agents, Payments, AgentOf, AmountOf

VARIABLES
    decision,  \* of each request
    balance    \* of each representative

Decisions == {"none", "open", "paid", "refused"}

Init ==
    /\ decision = [p \in Payments |-> "none"]
    /\ balance = [a \in Agents |-> 0]

Request(p) ==
    /\ decision[p] = "none"
    /\ decision' = [decision EXCEPT ![p] = "open"]
    /\ UNCHANGED balance

Pay(p) ==
    /\ decision[p] = "open"
    /\ decision' = [decision EXCEPT ![p] = "paid"]
    /\ balance' = [balance EXCEPT ![AgentOf[p]] = @ + AmountOf[p]]

Refuse(p) ==
    /\ decision[p] = "open"
    /\ decision' = [decision EXCEPT ![p] = "refused"]
    /\ UNCHANGED balance

Next == \E p \in Payments : Request(p) \/ Pay(p) \/ Refuse(p)

Spec == Init /\ [][Next]_<<decision, balance>>
=============================================================================
