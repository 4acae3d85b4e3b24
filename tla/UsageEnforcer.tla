---------------------------- MODULE UsageEnforcer ----------------------------
(***************************************************************************)
(* The usage enforcer of a representative's service:                       *)
(* Shared/agent_enforcer.py.  A service has a user on the panel of its     *)
(* primary server and of every node of it.  Each panel counts the traffic  *)
(* of its own user, may lose its counter and may not answer; the enforcer  *)
(* adds the counters up, so that what was once counted is not lost, and    *)
(* disables the users of a service that is used up or has ended.           *)
(*                                                                         *)
(* Who runs it                                                             *)
(*   - AdminBot, one cycle of the enforcer at a time, and on the same loop *)
(*     two buttons that sample the panels too, the refresh of a service's  *)
(*     page and the repair of its books, and one that forgets frozen rows; *)
(*   - AgentBot, another process: the renewal of the service, from its row *)
(*     to the panels and the rows of the nodes (AgentPurchase has what it  *)
(*     is paid with);                                                      *)
(*   - the administrator, who removes the server of a node;                *)
(*   - the panels.                                                         *)
(*                                                                         *)
(* One service.  Quota and end of a period are known by its number.        *)
(***************************************************************************)
EXTENDS Integers, FiniteSets, FiniteSetsExt

CONSTANTS
    Nodes,        \* the servers that have a user of the service
    Primary,      \* the one that decides
    Quota,        \* period -> usage_limit
    Burst,        \* what a user's traffic adds to a counter, in 0.1 GB
    Corrections,  \* what a panel may take back of it
    None,
    MaxRenewals,  \* bound on renewals
    MaxUse,       \* bound on the traffic of the users
    MaxResets,    \* bound on counters a panel loses or corrects
    MaxRemovals,  \* bound on servers removed
    MaxRefreshes, \* bound on refreshes and repairs
    MaxCrashes    \* bound on crashes

Periods == 0..MaxRenewals

ASSUME UsageAssumption ==
    /\ IsFiniteSet(Nodes) /\ Primary \in Nodes /\ None \notin Nodes
    /\ Quota \in [Periods -> Nat \ {0}] /\ Burst \in Nat \ {0} /\ Corrections \subseteq Nat \ {0}
    /\ {MaxRenewals, MaxUse, MaxResets, MaxRemovals, MaxRefreshes, MaxCrashes} \subseteq Nat

VARIABLES
    svc,      \* agent_services: usage_current, usage_limit, end_date, is_active
    row,      \* agent_service_nodes
    frozen,   \* the rows marked frozen
    panel,    \* the users on the panels: the counter, the period, enabled
    past,     \* periods whose end date has passed
    servers,  \* the nodes whose server is still configured
    e,        \* the cycle of the enforcer
    view,     \* what a refresh or a repair has read
    asked,    \* and whom it has asked
    r,        \* the renewal
    renewals, uses, resets, refreshes, crashes, \* counters for the bounds
    \* history
    used,     \* traffic of the period, but what was lost with a counter unseen
    seen,     \* the part of it that samples have shown
    zeroed,   \* counters lost since the last sample
    corrected, \* what the panel has taken back of the traffic it had counted
    upset     \* what has disturbed the books

counters == <<renewals, uses, resets, refreshes, crashes>>
history == <<used, seen, zeroed, corrected>>
vars == <<svc, row, frozen, panel, past, servers, e, view, asked, r, counters, history, upset>>

Reasons == {"", "renew_pending", "disable_pending", "verified"}
RowStates == {"live", "deleted", "gone"}
Causes == {"overlap", "refresh", "unnoticed", "late", "restored", "forgot", "cleared", "lost", "died"}
CyclePCs == {"idle", "read", "visit", "thaw", "again", "record", "note", "off", "offNote"}
RenewPCs == {"idle", "primary", "nodes", "enable"}

FreshRow == [state |-> "live", eff |-> 0, raw |-> 0, off |-> 0, reason |-> "", active |-> TRUE]
Nothing == [raw |-> 0, plan |-> 0, used |-> 0, on |-> FALSE]
NoCycle == [pc |-> "idle"]
NoView == [n \in {} |-> Nothing]
NoRenewal == [pc |-> "idle"]

Cycling == e # NoCycle
Viewing == view # NoView
Renewing == r # NoRenewal

\* Something begins while something else is under way.
Meet(others) == upset' = IF others THEN upset \cup {"overlap"} ELSE upset

Total(f) == MapThenSumSet(LAMBDA n : f[n], DOMAIN f)

-----------------------------------------------------------------------------
(* The panels.                                                             *)

booksOnly == <<svc, row, frozen, servers, e, view, asked, r>>

Use(n) ==
    /\ panel[n].on
    /\ uses < MaxUse
    /\ uses' = uses + 1
    /\ panel' = [panel EXCEPT ![n].raw = @ + Burst]
    /\ used' = [used EXCEPT ![n] = @ + Burst]
    /\ UNCHANGED <<booksOnly, past, renewals, resets, refreshes, crashes, seen, zeroed, corrected, upset>>

\* What no sample has shown is lost with the counter.
Zero(n) ==
    /\ used' = [used EXCEPT ![n] = seen[n]]
    /\ zeroed' = zeroed \cup {n}

\* A sample of n is on its way to the books.
BeingRead(n) == (e.pc = "record" /\ e.n = n) \/ n \in DOMAIN view

\* A panel starts its counter again.
CounterReset(n) ==
    /\ panel[n].raw > 0
    /\ resets < MaxResets
    /\ resets' = resets + 1
    /\ panel' = [panel EXCEPT ![n].raw = 0]
    /\ Zero(n)
    /\ upset' = IF BeingRead(n) THEN upset \cup {"late"} ELSE upset
    /\ UNCHANGED <<booksOnly, past, renewals, uses, refreshes, crashes, seen, corrected>>

\* Mutant: a counter that went backwards is taken as it is.
Mutant_ResetDetected(old, raw) == FALSE

\* A counter that has collapsed has been reset; a small correction has not.
ResetDetected(old, raw) == old >= 1 /\ old - raw >= 1 /\ 10 * raw <= 6 * old

\* A panel sets its counter back, a little, or so far that it will count as lost
\* while it still shows what it showed before.
CounterCorrected(n, back) ==
    LET raw == panel[n].raw - back
    IN /\ raw > 0
       /\ resets < MaxResets
       /\ resets' = resets + 1
       /\ panel' = [panel EXCEPT ![n].raw = raw]
       /\ corrected' = [corrected EXCEPT ![n] = @ + back]
       /\ upset' = upset \cup (IF BeingRead(n) THEN {"late"} ELSE {})
                        \cup (IF ResetDetected(row[n].raw, raw) THEN {"restored"} ELSE {})
       /\ UNCHANGED <<booksOnly, past, renewals, uses, refreshes, crashes, used, seen, zeroed>>

EndPasses(p) ==
    /\ p <= renewals
    /\ past' = past \cup {p}
    /\ UNCHANGED <<booksOnly, panel, counters, history, upset>>

\* The row of n is frozen, or is not.
Held(n, b) == IF b THEN frozen \cup {n} ELSE frozen \ {n}

\* hold_deleted_server_nodes
RemoveServer(n) ==
    /\ n \in servers \ {Primary}
    /\ Cardinality(Nodes \ servers) < MaxRemovals
    /\ servers' = servers \ {n}
    /\ row' = [row EXCEPT ![n].state = IF @ = "gone" THEN @ ELSE "deleted",
                          ![n].reason = "", ![n].active = FALSE]
    /\ frozen' = Held(n, row[n].eff > 0)
    /\ UNCHANGED <<svc, panel, past, e, view, asked, r, counters, history, upset>>

-----------------------------------------------------------------------------
(* record_monotonic_panel_usage, which asks ResetDetected                  *)

\* Mutant: every sample is taken for a lost counter.
Mutant_Recorded(x, raw) == [x EXCEPT !.raw = raw, !.off = @ + x.raw - raw]

Recorded(x, raw) ==
    LET off == x.off + (IF ResetDetected(x.raw, raw) THEN x.raw ELSE 0)
    IN [x EXCEPT !.raw = raw, !.off = off, !.eff = Max({@, off + raw})]

\* The samples g, each of a node that has a row.
Sample(g, rows) ==
    LET known == {n \in DOMAIN g : rows[n].state # "gone"}
    IN /\ row' = [n \in Nodes |-> IF n \in known THEN Recorded(rows[n], g[n].raw) ELSE rows[n]]
       /\ seen' = [n \in Nodes |-> IF n \in known THEN g[n].used ELSE seen[n]]
       /\ zeroed' = zeroed \ known

\* A lost counter that grew again before anybody looked.
Unnoticed(g) == \E n \in DOMAIN g \cap zeroed : row[n].raw > 0 /\ 10 * g[n].raw > 6 * row[n].raw

Reading(n) == [raw |-> panel[n].raw, plan |-> panel[n].plan, used |-> used[n], on |-> panel[n].on]

-----------------------------------------------------------------------------
(* A cycle: _process_service.                                              *)

Over == svc.usage >= Quota[svc.limit] \/ svc.end \in past
LiveRows == {n \in Nodes : row[n].state = "live"}

\* get_all_active_services
Listed ==
    \/ svc.active
    \/ \E n \in LiveRows : row[n].active
    \/ Over /\ \E n \in LiveRows : row[n].reason # "verified"

cycleOnly == <<past, servers, view, asked, counters>>
Goto(pc) == e' = [e EXCEPT !.pc = pc]
\* The node adds x to the total.
Adds(n, x) == e' = [e EXCEPT !.pc = "visit", !.todo = @ \ {n}, !.total = @ + x]

\* The row of the service is read with those of all services, for the whole
\* cycle.
CycleStart ==
    /\ ~Cycling
    /\ Listed
    /\ e' = [pc |-> "read", snap |-> svc, map |-> row, n |-> None, got |-> Nothing,
             todo |-> {}, total |-> 0, live |-> FALSE, ended |-> FALSE]
    /\ Meet(Viewing \/ Renewing)
    /\ UNCHANGED <<svc, row, frozen, panel, r, cycleOnly, history>>

\* The rows of its nodes are read when its turn comes.
CycleRead ==
    /\ e.pc = "read"
    /\ e' = [e EXCEPT !.pc = "visit", !.map = row, !.todo = {n \in Nodes : row[n].state # "gone"}]
    /\ UNCHANGED <<svc, row, frozen, panel, r, cycleOnly, history, upset>>

\* The usage of a deleted node stays in the total.
VisitDeleted(n) ==
    /\ e.pc = "visit" /\ n \in e.todo
    /\ e.map[n].state = "deleted"
    /\ Adds(n, e.map[n].eff)
    /\ UNCHANGED <<svc, row, frozen, panel, r, cycleOnly, history, upset>>

VisitRemoved(n) ==
    /\ e.pc = "visit" /\ n \in e.todo
    /\ e.map[n].state = "live" /\ n \notin servers
    /\ Adds(n, e.map[n].eff)
    /\ row' = [row EXCEPT ![n].state = IF @ = "gone" THEN @ ELSE "deleted",
                          ![n].reason = "", ![n].active = FALSE]
    /\ frozen' = Held(n, e.map[n].eff > 0)
    /\ UNCHANGED <<svc, panel, r, cycleOnly, history, upset>>

Asks(n) == e.map[n].state = "live" /\ n \in servers

\* The panel answers.  A node that missed a renewal is brought up to date first.
VisitAnswers(n) ==
    /\ e.pc = "visit" /\ n \in e.todo
    /\ Asks(n)
    /\ e' = [e EXCEPT !.n = n, !.got = Reading(n),
                      !.pc = IF e.map[n].reason = "renew_pending" THEN "thaw" ELSE "record"]
    /\ UNCHANGED <<svc, row, frozen, panel, r, cycleOnly, history, upset>>

\* It does not, or has no such user: the last sample counts, and a renewal it
\* missed stays pending.  The row is frozen at once or after some failures.
VisitFails(n) ==
    /\ e.pc = "visit" /\ n \in e.todo
    /\ Asks(n)
    /\ Adds(n, e.map[n].eff)
    /\ \E active \in {e.map[n].active, FALSE} :
         row' = [row EXCEPT ![n].reason = IF e.map[n].reason = "renew_pending" THEN "renew_pending" ELSE "",
                            ![n].active = IF e.map[n].reason = "renew_pending" THEN FALSE ELSE active]
    /\ \E held \in {(n \in frozen), TRUE} :
         frozen' = Held(n, e.map[n].reason = "renew_pending" \/ (held /\ e.map[n].eff > 0))
    /\ UNCHANGED <<svc, panel, r, cycleOnly, history, upset>>

\* _renew_pending_payload, of the row as it was at the start
Renewed(n, plan) == panel' = [panel EXCEPT ![n].raw = 0, ![n].plan = plan]

Thaw ==
    /\ e.pc = "thaw"
    /\ Renewed(e.n, e.snap.end)
    /\ Zero(e.n)
    /\ Goto("again")
    /\ UNCHANGED <<svc, row, frozen, r, cycleOnly, seen, corrected, upset>>

ThawFails ==
    /\ e.pc \in {"thaw", "again"}
    /\ \/ UNCHANGED <<panel, used, zeroed>>
       \/ e.pc = "thaw" /\ Renewed(e.n, e.snap.end) /\ Zero(e.n)
    /\ Adds(e.n, e.map[e.n].eff)
    /\ row' = [row EXCEPT ![e.n].reason = "renew_pending", ![e.n].active = FALSE]
    /\ frozen' = Held(e.n, TRUE)
    /\ UNCHANGED <<svc, r, cycleOnly, seen, corrected, upset>>

ThawAnswers ==
    /\ e.pc = "again"
    /\ e' = [e EXCEPT !.pc = "record", !.got = Reading(e.n)]
    /\ UNCHANGED <<svc, row, frozen, panel, r, cycleOnly, history, upset>>

\* A node without a row counts with its counter.
Record ==
    LET g == [n \in {e.n} |-> e.got]
    IN /\ e.pc = "record"
       /\ Sample(g, row)
       /\ e' = [e EXCEPT !.pc = "note", !.got = Nothing, !.live = TRUE, !.ended = @ \/ e.got.plan \in past,
                         !.total = @ + (IF row[e.n].state = "gone" THEN e.got.raw ELSE row'[e.n].eff)]
       /\ upset' = IF Unnoticed(g) THEN upset \cup {"unnoticed"} ELSE upset
       /\ UNCHANGED <<svc, frozen, panel, r, cycleOnly, used, corrected>>

Note ==
    /\ e.pc = "note"
    /\ row' = [row EXCEPT ![e.n].state = IF @ = "gone" THEN @ ELSE "live",
                          ![e.n].reason = "", ![e.n].active = TRUE]
    /\ frozen' = Held(e.n, FALSE)
    /\ e' = [e EXCEPT !.pc = "visit", !.n = None, !.todo = @ \ {e.n}]
    /\ UNCHANGED <<svc, panel, r, cycleOnly, history, upset>>

\* No panel answered: nothing is decided, and the usage does not go down.
CloseUnconfirmed ==
    /\ e.pc = "visit" /\ e.todo = {}
    /\ ~e.live
    /\ svc' = [svc EXCEPT !.usage = Max({e.total, e.snap.usage})]
    /\ e' = NoCycle
    /\ UNCHANGED <<row, frozen, panel, r, cycleOnly, history, upset>>

\* Mutant: a service one burst short of its quota is used up, and a period that is
\* over does not matter.
Mutant_UsedUp == e.total + Burst >= Quota[e.snap.limit] \/ e.ended

UsedUp == e.total >= Quota[e.snap.limit] \/ e.snap.end \in past \/ e.ended

\* update_service: the quota of the start is written back with the usage.
Books(active) ==
    svc' = [svc EXCEPT !.usage = e.total, !.limit = e.snap.limit, !.active = active]

CloseInOrder ==
    /\ e.pc = "visit" /\ e.todo = {}
    /\ e.live /\ ~UsedUp
    /\ Books(TRUE)
    /\ e' = NoCycle
    /\ UNCHANGED <<row, frozen, panel, r, cycleOnly, history, upset>>

CloseUsedUp ==
    /\ e.pc = "visit" /\ e.todo = {}
    /\ e.live /\ UsedUp
    /\ e' = [e EXCEPT !.pc = "off", !.todo = {n \in Nodes : e.map[n].state = "live"}]
    /\ UNCHANGED <<svc, row, frozen, panel, r, cycleOnly, history, upset>>

\* A renewal the node missed is no longer pending.
Forgets(n) == upset' = IF row[n].reason = "renew_pending" THEN upset \cup {"forgot"} ELSE upset

\* _disable_on_all_targets
Off(n) ==
    /\ e.pc = "off" /\ n \in e.todo
    /\ n \in servers
    /\ panel' = [panel EXCEPT ![n].on = FALSE]
    /\ e' = [e EXCEPT !.pc = "offNote", !.n = n]
    /\ UNCHANGED <<svc, row, frozen, r, cycleOnly, history, upset>>

\* Mutant: a node that could not be disabled counts as disabled.
Mutant_OffFails(n) ==
    /\ e.pc = "off" /\ n \in e.todo
    /\ row' = [row EXCEPT ![n].reason = "verified", ![n].active = FALSE]
    /\ e' = [e EXCEPT !.todo = @ \ {n}]
    /\ Forgets(n)
    /\ UNCHANGED <<svc, frozen, panel, r, cycleOnly, history>>

\* The server is gone or the call fails: the node stays active, to be tried
\* again.
OffFails(n) ==
    /\ e.pc = "off" /\ n \in e.todo
    /\ \/ UNCHANGED panel
       \/ n \in servers /\ panel' = [panel EXCEPT ![n].on = FALSE]
    /\ row' = [row EXCEPT ![n].reason = "disable_pending", ![n].active = TRUE]
    /\ e' = [e EXCEPT !.todo = @ \ {n}]
    /\ Forgets(n)
    /\ UNCHANGED <<svc, frozen, r, cycleOnly, history>>

OffNote ==
    /\ e.pc = "offNote"
    /\ row' = [row EXCEPT ![e.n].reason = "verified", ![e.n].active = FALSE]
    /\ e' = [e EXCEPT !.pc = "off", !.n = None, !.todo = @ \ {e.n}]
    /\ Forgets(e.n)
    /\ UNCHANGED <<svc, frozen, panel, r, cycleOnly, history>>

OffEnd ==
    /\ e.pc = "off" /\ e.todo = {}
    /\ Books(FALSE)
    /\ e' = NoCycle
    /\ UNCHANGED <<row, frozen, panel, r, cycleOnly, history, upset>>

\* AdminBot dies.
Crash ==
    /\ Cycling \/ Viewing
    /\ crashes < MaxCrashes
    /\ crashes' = crashes + 1
    /\ e' = NoCycle
    /\ view' = NoView /\ asked' = {}
    /\ UNCHANGED <<svc, row, frozen, panel, past, servers, r, renewals, uses, resets, refreshes, history, upset>>

-----------------------------------------------------------------------------
(* Two buttons: refresh_service_detail and repair_service_from_panel.  The *)
(* panels that are asked and those that answer in time.                    *)

Targets == {n \in servers : row[n].state # "gone"}

RefreshRead(S) ==
    /\ ~Viewing
    /\ refreshes < MaxRefreshes
    /\ refreshes' = refreshes + 1
    /\ S # {} /\ S \subseteq Targets
    /\ view' = [n \in S |-> Reading(n)] /\ asked' = Targets
    /\ Meet(Cycling \/ Renewing)
    /\ UNCHANGED <<svc, row, frozen, panel, past, servers, e, r, renewals, uses, resets, crashes, history>>

viewOnly == <<panel, past, servers, e, r, counters, used, corrected>>

\* The service as the panel of a shows it.  The usage is written when every
\* panel that was asked has answered.
Shown(a, rows) ==
    \E active \in {view[a].on, svc.active} :
        svc' = [usage |-> IF DOMAIN view = asked THEN Total([n \in DOMAIN view |-> rows[n].eff]) ELSE svc.usage,
                limit |-> view[a].plan, end |-> view[a].plan, active |-> active]

\* The samples are written as this period's.
Viewed ==
    /\ view' = NoView /\ asked' = {}
    /\ upset' = upset
         \cup (IF Unnoticed(view) THEN {"unnoticed"} ELSE {})
         \cup (IF \E n \in DOMAIN view : view[n].plan # svc.end THEN {"refresh"} ELSE {})

\* Quota, end and state are those of the primary, or of some other panel.
RefreshWrite ==
    LET S == DOMAIN view
    IN /\ Viewing
       /\ Sample(view, row)
       /\ \E a \in S : (Primary \in S => a = Primary) /\ Shown(a, row')
       /\ Viewed
       /\ UNCHANGED <<viewOnly, frozen>>

\* The row of n after its sample, repaired: whatever was noted of it is taken
\* back, be it that its server was removed or that it missed a renewal.
Repaired(x, on) ==
    IF x.state = "gone" THEN x ELSE [x EXCEPT !.state = "live", !.reason = "", !.active = on]

\* Only from the primary.
RepairWrite ==
    LET S == DOMAIN view
        known == {n \in S : row[n].state # "gone"}
        sampled == [n \in Nodes |-> IF n \in known THEN Recorded(row[n], view[n].raw) ELSE row[n]]
    IN /\ Viewing /\ Primary \in S
       /\ row' = [n \in Nodes |-> IF n \in known THEN Repaired(sampled[n], view[n].on) ELSE sampled[n]]
       /\ seen' = [n \in Nodes |-> IF n \in known THEN view[n].used ELSE seen[n]]
       /\ zeroed' = zeroed \ known
       /\ Shown(Primary, sampled)
       /\ frozen' = frozen \ S
       /\ Viewed
       /\ UNCHANGED viewOnly

\* clear_frozen_service_nodes: the rows that are frozen or whose server was
\* removed are forgotten, with what they were charged.
ClearFrozen ==
    LET held == {n \in Nodes : row[n].state = "deleted" \/ (row[n].state = "live" /\ n \in frozen)}
        usage == Total([n \in held |-> row[n].eff])
    IN /\ held # {}
       /\ row' = [n \in Nodes |-> IF n \in held THEN [row[n] EXCEPT !.state = "gone"] ELSE row[n]]
       /\ frozen' = frozen \ held
       /\ svc' = [svc EXCEPT !.usage = Max({0, @ - usage})]
       /\ upset' = upset \cup (IF Cycling THEN {"overlap"} ELSE {})
                        \cup (IF \E n \in held : row[n].eff > 0 THEN {"cleared"} ELSE {})
       /\ UNCHANGED <<panel, past, servers, e, view, asked, r, counters, history>>

-----------------------------------------------------------------------------
(* A renewal: renew_subscription, after the debit.                         *)

renewOnly == <<past, servers, e, view, asked, uses, resets, refreshes, crashes>>
Job == r.period
Step(pc) == r' = [r EXCEPT !.pc = pc]

\* renew_service_with_policy: a new period begins in the books.
RenewStart ==
    /\ ~Renewing
    /\ renewals < MaxRenewals
    /\ renewals' = renewals + 1
    /\ svc' = [svc EXCEPT !.usage = 0, !.limit = renewals + 1, !.end = renewals + 1]
    /\ r' = [pc |-> "primary", period |-> renewals + 1, old |-> svc, all |-> Targets,
             todo |-> Targets \ {Primary}, failed |-> {}, on |-> FALSE]
    /\ Meet(Cycling \/ Viewing)
    /\ UNCHANGED <<row, frozen, panel, renewOnly, history>>

\* The counter begins again, and with it what is counted.
Patched(n) ==
    /\ Renewed(n, Job)
    /\ used' = [used EXCEPT ![n] = 0]
    /\ seen' = [seen EXCEPT ![n] = 0]
    /\ zeroed' = zeroed \ {n}
    /\ corrected' = [corrected EXCEPT ![n] = 0]

RenewPrimary ==
    /\ r.pc = "primary"
    /\ Patched(Primary)
    /\ Step("nodes")
    /\ UNCHANGED <<svc, row, frozen, renewOnly, renewals, upset>>

\* The books are put back, and no other node is touched.
RenewPrimaryFails ==
    /\ r.pc = "primary"
    /\ \/ UNCHANGED <<panel, history, upset>>
       \/ Patched(Primary) /\ upset' = upset \cup {"lost"}
    /\ svc' = r.old
    /\ r' = NoRenewal
    /\ UNCHANGED <<row, frozen, renewOnly, renewals>>

RenewNode(n) ==
    /\ r.pc = "nodes" /\ n \in r.todo
    /\ Patched(n)
    /\ r' = [r EXCEPT !.todo = @ \ {n}]
    /\ UNCHANGED <<svc, row, frozen, renewOnly, renewals, upset>>

RenewNodeFails(n) ==
    /\ r.pc = "nodes" /\ n \in r.todo
    /\ \/ UNCHANGED <<panel, history>>
       \/ Patched(n)
    /\ r' = [r EXCEPT !.todo = @ \ {n}, !.failed = @ \cup {n}]
    /\ UNCHANGED <<svc, row, frozen, renewOnly, renewals, upset>>

\* reset_service_nodes_on_renew: deleted nodes are forgotten, one that missed
\* the renewal waits for it.
AfterRenewal(n) ==
    IF row[n].state # "live" THEN [row[n] EXCEPT !.state = "gone"]
    ELSE IF n \in r.failed THEN [FreshRow EXCEPT !.reason = "renew_pending", !.active = FALSE]
    ELSE FreshRow

RenewReset ==
    /\ r.pc = "nodes" /\ r.todo = {}
    /\ row' = [n \in Nodes |-> AfterRenewal(n)]
    /\ seen' = [n \in Nodes |-> 0]
    /\ frozen' = {n \in r.failed : row[n].state = "live"}
    /\ used' = [n \in Nodes |-> IF panel[n].plan = Job THEN used[n] ELSE 0]
    /\ corrected' = [n \in Nodes |-> IF panel[n].plan = Job THEN corrected[n] ELSE 0]
    /\ r' = [r EXCEPT !.pc = "enable", !.todo = r.all]
    /\ UNCHANGED <<svc, panel, renewOnly, renewals, zeroed, upset>>

RenewEnable(n) ==
    /\ r.pc = "enable" /\ n \in r.todo
    /\ panel' = [panel EXCEPT ![n].on = TRUE]
    /\ r' = [r EXCEPT !.todo = @ \ {n}, !.on = @ \/ n = Primary]
    /\ UNCHANGED <<svc, row, frozen, renewOnly, renewals, history, upset>>

RenewEnableFails(n) ==
    /\ r.pc = "enable" /\ n \in r.todo
    /\ panel' \in {panel, [panel EXCEPT ![n].on = TRUE]}
    /\ r' = [r EXCEPT !.todo = @ \ {n}]
    /\ UNCHANGED <<svc, row, frozen, renewOnly, renewals, history, upset>>

RenewEnd ==
    /\ r.pc = "enable" /\ r.todo = {}
    /\ svc' = [svc EXCEPT !.active = r.on]
    /\ r' = NoRenewal
    /\ UNCHANGED <<row, frozen, panel, renewOnly, renewals, history, upset>>

\* AgentBot dies.
RenewDies ==
    /\ Renewing
    /\ crashes < MaxCrashes
    /\ crashes' = crashes + 1
    /\ r' = NoRenewal
    /\ upset' = upset \cup {"died"}
    /\ UNCHANGED <<svc, row, frozen, panel, past, servers, e, view, asked, renewals, uses, resets, refreshes, history>>

-----------------------------------------------------------------------------
Init ==
    /\ svc = [usage |-> 0, limit |-> 0, end |-> 0, active |-> TRUE]
    /\ row = [n \in Nodes |-> FreshRow]
    /\ panel = [n \in Nodes |-> [raw |-> 0, plan |-> 0, on |-> TRUE]]
    /\ frozen = {} /\ past = {} /\ servers = Nodes
    /\ e = NoCycle /\ view = NoView /\ asked = {} /\ r = NoRenewal
    /\ renewals = 0 /\ uses = 0 /\ resets = 0 /\ refreshes = 0 /\ crashes = 0
    /\ used = [n \in Nodes |-> 0] /\ seen = [n \in Nodes |-> 0] /\ zeroed = {}
    /\ corrected = [n \in Nodes |-> 0] /\ upset = {}

VisitStep(n) == VisitDeleted(n) \/ VisitRemoved(n) \/ VisitAnswers(n) \/ VisitFails(n)

CycleStep ==
    \/ \E n \in Nodes : VisitStep(n) \/ Off(n) \/ OffFails(n)
    \/ Thaw \/ ThawFails \/ ThawAnswers \/ Record \/ Note
    \/ CloseUnconfirmed \/ CloseInOrder \/ CloseUsedUp \/ OffNote \/ OffEnd

RenewStep ==
    \/ RenewPrimary \/ RenewPrimaryFails \/ RenewReset \/ RenewEnd
    \/ \E n \in Nodes : RenewNode(n) \/ RenewNodeFails(n) \/ RenewEnable(n) \/ RenewEnableFails(n)

PanelStep ==
    \E n \in Nodes :
        \/ Use(n)
        \/ CounterReset(n)
        \/ \E back \in Corrections : CounterCorrected(n, back)

Next ==
    \/ PanelStep
    \/ \E p \in Periods : EndPasses(p)
    \/ \E n \in Nodes : RemoveServer(n)
    \/ CycleStart \/ CycleRead \/ CycleStep \/ Crash
    \/ \E S \in SUBSET Nodes : RefreshRead(S)
    \/ RefreshWrite \/ RepairWrite
    \/ ClearFrozen
    \/ RenewStart \/ RenewStep \/ RenewDies

Spec == Init /\ [][Next]_vars

-----------------------------------------------------------------------------
Services == [usage : Nat, limit : Periods, end : Periods, active : BOOLEAN]
Rows == [state : RowStates, eff : Nat, raw : Nat, off : Nat, reason : Reasons, active : BOOLEAN]
Readings == [raw : Nat, plan : Periods, used : Nat, on : BOOLEAN]

TypeOK ==
    /\ svc \in Services
    /\ row \in [Nodes -> Rows] /\ frozen \in SUBSET Nodes
    /\ panel \in [Nodes -> [raw : Nat, plan : Periods, on : BOOLEAN]]
    /\ past \in SUBSET Periods /\ servers \in SUBSET Nodes
    /\ Cycling => /\ e.pc \in CyclePCs \ {"idle"} /\ e.snap \in Services /\ e.map \in [Nodes -> Rows]
                  /\ e.todo \in SUBSET Nodes /\ e.n \in Nodes \cup {None} /\ e.got \in Readings
                  /\ e.total \in Nat /\ e.live \in BOOLEAN /\ e.ended \in BOOLEAN
    /\ asked \in SUBSET Nodes /\ DOMAIN view \subseteq Nodes /\ \A n \in DOMAIN view : view[n] \in Readings
    /\ Renewing => /\ r.pc \in RenewPCs \ {"idle"} /\ r.period \in Periods /\ r.old \in Services
                   /\ {r.all, r.todo, r.failed} \subseteq SUBSET Nodes /\ r.on \in BOOLEAN
    /\ renewals \in 0..MaxRenewals /\ uses \in 0..MaxUse /\ resets \in 0..MaxResets
    /\ refreshes \in 0..MaxRefreshes /\ crashes \in 0..MaxCrashes
    /\ used \in [Nodes -> Nat] /\ seen \in [Nodes -> Nat]
    /\ zeroed \in SUBSET Nodes /\ corrected \in [Nodes -> Nat] /\ upset \in SUBSET Causes

Quiet == ~Renewing /\ upset = {}

\* A node is charged for the traffic of this period only, and for all of it
\* that a sample has shown but for what the panel has taken back since: a counter
\* that was lost or corrected, a panel that did not answer, a removed server or a
\* renewal that a node missed neither add to it nor take from it.  Otherwise one
\* of these has happened: a cycle, a refresh or repair and a renewal overlapped,
\* or a cycle and a clearing of frozen rows, or usage was cleared with them;
\* a refresh or repair looked at a node that had missed the renewal, or the next
\* disabling made it forget that it had; a lost counter grew again unseen, one was
\* set back so far that it counted as lost, or its last sample was on its way then;
\* the answer to a renewal was lost, or AgentBot died in one.
ChargedIsUsed ==
    Quiet => \A n \in Nodes : row[n].state # "gone" =>
                 seen[n] - corrected[n] <= row[n].eff /\ row[n].eff <= used[n]

\* The enforcer has disabled a user only because the present period of the
\* service is used up or over, in the same circumstances.
DisabledForCause ==
    Quiet => \A n \in LiveRows : row[n].reason = "verified" =>
                 \/ svc.end \in past
                 \/ Total([m \in {k \in Nodes : row[k].state # "gone"} |-> row[m].eff]) >= Quota[svc.limit]

\* When the service is used up or over, a user of it that is still enabled on a
\* panel is one the next cycle will look at, however many disablings have failed,
\* a cycle was cut short or a node has missed a renewal.
EndedIsWatched == Quiet /\ ~Cycling /\ Over => \A n \in LiveRows : panel[n].on => Listed
=============================================================================
