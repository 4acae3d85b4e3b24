--------------------------- MODULE MCUserPurchase ---------------------------
(* Instances of UserPurchase: one card payment and two orders, new or      *)
(* renewal in every combination, with money for one of the orders.         *)
EXTENDS UserPurchase

CONSTANTS d1, w1, w2

\* The orders and the card payment have nothing in common but the event loop.
\* A behaviour has both orders, or the card payment and one order, or the card
\* payment and the buttons of AdminBot; what has not started stays a new
\* service.  It has no more than two buttons and crashes.  Once something has
\* upset the delivery of the payment, every property of it is excused, and what
\* follows is not looked at; an order is followed to its end.
Started(o) == order[o] # "new"
Bound ==
    /\ Started(w2) => \A p \in Direct : status[p] = "pending" /\ thread.p # p
    /\ ~Started(w2) => w2 \notin renewal
    /\ Started(w1) \/ Started(w2) => presses = 0
    /\ presses > 0 => w1 \notin renewal
    /\ presses + crashes <= 2
    /\ crowded # {} \/ broken # {} => presses + crashes = 0 /\ ~Started(w1)
    /\ \A p \in Direct : upset[p] = {}
=============================================================================
