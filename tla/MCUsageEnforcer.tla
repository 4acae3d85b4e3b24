-------------------------- MODULE MCUsageEnforcer --------------------------
(* A primary server and a node.                                            *)
EXTENDS UsageEnforcer, TLC

CONSTANTS main, node

\* Two bursts fill the first period, one fills the next.  A counter set back by 2
\* is a corrected one when it was at 6 and counts as lost when it was at 3.
MCQuota == 0 :> 6 @@ 1 :> 3

\* At most two of: a renewal, a lost counter, a refresh, a crash, a removed
\* server, the end of a period.  What follows when the books have been upset is
\* excused by the properties and not followed.
Disturbances ==
    renewals + resets + refreshes + crashes + Cardinality(Nodes \ servers) + Cardinality(past)
Bound == Disturbances <= 2 /\ upset = {}
=============================================================================
