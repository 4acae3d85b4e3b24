--------------------------- MODULE AgentPurchase ---------------------------
(***************************************************************************)
(* A representative buys services and renews one from the wallet:          *)
(* AgentBot/services/subscription_service.py.  create_subscription debits  *)
(* and refunds under the key of the wizard, which is kept for a retry      *)
(* until the purchase is delivered or refunded; renew_subscription debits  *)
(* and refunds without a key, writes the books first, then the panel, and  *)
(* puts the books back when the panel refuses.                             *)
(*                                                                         *)
(* Who runs it                                                             *)
(*   - the Handler of AgentBot, which takes the representative's messages  *)
(*     one at a time: the wizard, renewals, deletions;                     *)
(*   - the Admin, AdminBot, another process: renewals and deletions of the *)
(*     same service from the same wallet, cut off after sixty seconds;     *)
(*   - the panel, which does what it is asked or not; its answer may be    *)
(*     lost.                                                               *)
(*                                                                         *)
(* A renewal replaces what was left of the service, so the state of the    *)
(* service is the number of the renewal in effect.  Only the primary       *)
(* server decides; its nodes are left out.                                 *)
(***************************************************************************)
EXTENDS AgentWallet, FiniteSets

CONSTANTS
    Agent,         \* the representative
    Funds,         \* the wallet at the start
    Prices,        \* the wholesale prices the administrator sets
    Ops,           \* operation keys of wizards
    Handler, Admin,
    None,
    Gone,          \* the state of a deleted service
    MaxRenewals,   \* bound on renewals
    MaxDeletions,  \* bound on deletions begun
    MaxReprices,   \* bound on changes of the price
    MaxFaults      \* bound on crashes, timeouts and database calls that raise

DebitKey(o) == <<"debit", o>>
RefundKey(o) == <<"refund", o>>
Renewals == 1..MaxRenewals
Original == 0
States == {Original, Gone} \cup Renewals
Actors == {Handler, Admin}

ASSUME PurchaseAssumption ==
    /\ Agent \in Agents
    /\ Keys = {DebitKey(o) : o \in Ops} \cup {RefundKey(o) : o \in Ops}
    /\ Funds \in Nat /\ Prices \subseteq Nat \ {0} /\ Prices # {}
    /\ Handler # Admin
    /\ None \notin Ops \cup Renewals /\ Gone \notin Renewals \cup {Original}
    /\ {MaxRenewals, MaxDeletions, MaxReprices, MaxFaults} \subseteq Nat

VARIABLES
    price,     \* calculate_wholesale_price
    listed,    \* the server is in the list of servers
    wizard,    \* context.user_data: the operation key of the open wizard
    served,    \* agent_services.payment_operation_key
    users,     \* operations whose user exists on the panel
    row,       \* the renewed service in agent_services
    panel,     \* and on the panel
    active, enabled, \* it may be used: is_active of its row, and on the panel
    task,      \* what the actors are doing
    renewed, deletions, reprices, faults, \* counters for the bounds
    \* history
    opened,    \* operation keys used so far
    paid, back,\* renewals debited, and refunded
    applied,   \* renewals the panel has carried out
    upset      \* what disturbed an operation or a renewal

createVars == <<wizard, served, users, opened>>
serviceVars == <<row, panel, active, enabled>>
renewVars == <<paid, back, applied>>
counters == <<renewed, deletions, reprices, faults>>
vars == <<walletVars, price, listed, createVars, serviceVars, task, renewVars, counters, upset>>

Causes == {"lost", "rollback", "left", "crash", "timeout", "raise", "overlap", "deleted",
           "unlisted"}
PCs == {"idle", "panel", "store", "rollback", "giveBack",
        "debit", "row", "look", "patch", "restore", "refund", "enable", "remove", "erase"}
\* The task is renewing or deleting the service.
OnService == {"debit", "row", "look", "patch", "restore", "refund", "enable", "remove", "erase"}

Idle == [pc |-> "idle", job |-> None, cost |-> 0, old |-> Original, on |-> FALSE,
         want |-> Original]

At(t, pc) == task[t].pc = pc
Job(t) == task[t].job
Goto(t, pc) == task' = [task EXCEPT ![t].pc = pc]
Return(t) == task' = [task EXCEPT ![t] = Idle]
Upset(j, cause) == upset' = [upset EXCEPT ![j] = @ \cup {cause}]

Debit(o, v) == Entry(Agent, v, "purchase", DebitKey(o))
Refund(o, v) == Entry(Agent, v, "refund", RefundKey(o))
Debited(o) == HasTx(DebitKey(o))
Refunded(o) == HasTx(RefundKey(o))

-----------------------------------------------------------------------------
(* The wizard and create_subscription.                                     *)

serviceOnly == <<serviceVars, renewVars, renewed, deletions, reprices, listed>>

\* Choosing a plan makes a new key.  An open wizard is left behind, with what
\* its key may have been debited for.
OpenWizard(o) ==
    /\ At(Handler, "idle")
    /\ o \notin opened
    /\ opened' = opened \cup {o}
    /\ wizard' = o
    /\ IF wizard # None THEN Upset(wizard, "left") ELSE UNCHANGED upset
    /\ UNCHANGED <<walletVars, price, served, users, task, serviceOnly, faults>>

\* The name is sent: the keyed debit, at the price of now.  A debit that is
\* refused, or raises because the price has changed under the key, leaves
\* everything as it is.
CreateDebit ==
    /\ At(Handler, "idle")
    /\ wizard # None
    /\ listed
    /\ wizard \notin served
    /\ OnceOk(Debit(wizard, price))
    /\ task' = [task EXCEPT ![Handler] = [Idle EXCEPT !.pc = "panel", !.job = wizard, !.cost = price]]
    /\ UNCHANGED <<price, createVars, serviceOnly, faults, upset>>

\* A server that has been removed is noticed before the debit is looked up,
\* and the wizard goes on under a new key.
CreateUnlisted ==
    /\ At(Handler, "idle")
    /\ wizard # None
    /\ ~listed
    /\ wizard' = None
    /\ Upset(wizard, "unlisted")
    /\ UNCHANGED <<walletVars, price, served, users, opened, task, serviceOnly, faults>>

\* The panel user has the key's own identity: a second call makes no second user.
CreatePanel ==
    /\ At(Handler, "panel")
    /\ users' = users \cup {Job(Handler)}
    /\ Goto(Handler, "store")
    /\ UNCHANGED <<walletVars, price, wizard, served, opened, serviceOnly, faults, upset>>

CreatePanelFails ==
    /\ At(Handler, "panel")
    /\ \/ UNCHANGED <<users, upset>>
       \/ users' = users \cup {Job(Handler)} /\ Upset(Job(Handler), "lost")
    /\ Goto(Handler, "giveBack")
    /\ UNCHANGED <<walletVars, price, wizard, served, opened, serviceOnly, faults>>

\* The service row; the wizard is closed.
CreateStore ==
    /\ At(Handler, "store")
    /\ served' = served \cup {Job(Handler)}
    /\ wizard' = None
    /\ Return(Handler)
    /\ UNCHANGED <<walletVars, price, users, opened, serviceOnly, faults, upset>>

Fault == faults < MaxFaults /\ faults' = faults + 1

CreateStoreRaises ==
    /\ At(Handler, "store")
    /\ Fault
    /\ Goto(Handler, "rollback")
    /\ UNCHANGED <<walletVars, price, createVars, serviceOnly, upset>>

\* Mutant: the user is left on the panel.
Mutant_CreateRollback ==
    /\ At(Handler, "rollback")
    /\ Goto(Handler, "giveBack")
    /\ UNCHANGED <<walletVars, price, createVars, serviceOnly, faults, upset>>

\* The refund follows whatever the panel answers.
CreateRollback ==
    /\ At(Handler, "rollback")
    /\ \/ users' = users \ {Job(Handler)} /\ UNCHANGED upset
       \/ UNCHANGED users /\ Upset(Job(Handler), "rollback")
    /\ Goto(Handler, "giveBack")
    /\ UNCHANGED <<walletVars, price, wizard, served, opened, serviceOnly, faults>>

\* A refunded purchase is over: the wizard goes on under a new key, made when
\* the name is sent again.
CreateRefund ==
    /\ At(Handler, "giveBack")
    /\ OnceOk(Refund(Job(Handler), task[Handler].cost))
    /\ wizard' = None
    /\ Return(Handler)
    /\ UNCHANGED <<price, served, users, opened, serviceOnly, faults, upset>>

\* Mutant: the key is given up whether or not the money went back.
Mutant_CreateRefundRaises ==
    /\ At(Handler, "giveBack")
    /\ Fault
    /\ wizard' = None
    /\ Return(Handler)
    /\ UNCHANGED <<walletVars, price, served, users, opened, serviceOnly, upset>>

\* The money is kept, and so is the key.
CreateRefundRaises ==
    /\ At(Handler, "giveBack")
    /\ Fault
    /\ Return(Handler)
    /\ UNCHANGED <<walletVars, price, createVars, serviceOnly, upset>>

-----------------------------------------------------------------------------
(* renew_subscription                                                      *)

renewOnly == <<price, createVars, reprices, listed>>

Others(t) == {u \in Actors \ {t} : task[u].pc \in OnService}
\* t begins to work on the service: whoever works on it is disturbed, and so
\* is t.  A deletion has no job.
Meet(t, j) ==
    upset' = [x \in DOMAIN upset |->
        IF Others(t) # {} /\ (x = j \/ \E u \in Others(t) : x = Job(u))
          THEN upset[x] \cup {"overlap"} ELSE upset[x]]

\* The row is read; what it says is the state to go back to.
RenewStart(t) ==
    /\ At(t, "idle")
    /\ row # Gone
    /\ listed
    /\ renewed < MaxRenewals
    /\ renewed' = renewed + 1
    /\ task' = [task EXCEPT ![t] = [pc |-> "debit", job |-> renewed + 1, cost |-> price,
                                    old |-> row, on |-> active, want |-> Original]]
    /\ Meet(t, renewed + 1)
    /\ UNCHANGED <<walletVars, renewOnly, serviceVars, renewVars, deletions, faults>>

\* deduct_wallet, without a key
RenewDebit(t) ==
    /\ At(t, "debit")
    /\ IF balance[Agent] >= task[t].cost
         THEN /\ Deduct(Agent, task[t].cost)
              /\ paid' = paid \cup {Job(t)}
              /\ Goto(t, "row")
         ELSE /\ UNCHANGED <<walletVars, paid>>
              /\ Return(t)
    /\ UNCHANGED <<renewOnly, serviceVars, back, applied, renewed, deletions, faults, upset>>

\* renew_service_with_policy: a service that was deleted meanwhile is refused.
RenewRow(t) ==
    /\ At(t, "row")
    /\ IF row = Gone
         THEN UNCHANGED row /\ Goto(t, "refund")
         ELSE row' = Job(t) /\ Goto(t, "look")
    /\ UNCHANGED <<walletVars, renewOnly, panel, active, enabled, renewVars, renewed, deletions,
                   faults, upset>>

\* What the panel is told is read again.  A row that is gone ends the renewal.
RenewLook(t) ==
    /\ At(t, "look")
    /\ row = Gone \/ listed
    /\ IF row = Gone
         THEN Return(t) /\ Upset(Job(t), "deleted")
         ELSE /\ task' = [task EXCEPT ![t].pc = "patch", ![t].want = row]
              /\ UNCHANGED upset
    /\ UNCHANGED <<walletVars, renewOnly, serviceVars, renewVars, renewed, deletions, faults>>

\* A server removed since the start is no target, and a renewal without a
\* target is taken as done.
RenewUnlisted(t) ==
    /\ At(t, "look")
    /\ row # Gone /\ ~listed
    /\ active' = TRUE
    /\ Return(t)
    /\ Upset(Job(t), "unlisted")
    /\ UNCHANGED <<walletVars, renewOnly, row, panel, enabled, renewVars, renewed, deletions, faults>>

Applies(t) ==
    /\ panel # Gone
    /\ panel' = task[t].want
    /\ applied' = applied \cup {task[t].want}

RenewPatch(t) ==
    /\ At(t, "patch")
    /\ Applies(t)
    /\ Goto(t, "enable")
    /\ UNCHANGED <<walletVars, renewOnly, row, active, enabled, paid, back, renewed, deletions,
                   faults, upset>>

\* Mutant: the books are not put back.
Mutant_RenewPatchFails(t) ==
    /\ At(t, "patch")
    /\ UNCHANGED <<panel, applied, upset>>
    /\ Goto(t, "refund")
    /\ UNCHANGED <<walletVars, renewOnly, row, active, enabled, paid, back, renewed, deletions, faults>>

RenewPatchFails(t) ==
    /\ At(t, "patch")
    /\ \/ UNCHANGED <<panel, applied, upset>>
       \/ Applies(t) /\ Upset(Job(t), "lost")
    /\ Goto(t, "restore")
    /\ UNCHANGED <<walletVars, renewOnly, row, active, enabled, paid, back, renewed, deletions, faults>>

\* update_service(old_state)
RenewRestore(t) ==
    /\ At(t, "restore")
    /\ IF row = Gone
         THEN UNCHANGED <<row, active>>
         ELSE row' = task[t].old /\ active' = task[t].on
    /\ Goto(t, "refund")
    /\ UNCHANGED <<walletVars, renewOnly, panel, enabled, renewVars, renewed, deletions,
                   faults, upset>>

\* refund_wallet, without a key
RenewRefund(t) ==
    /\ At(t, "refund")
    /\ Credit(Agent, task[t].cost, "refund")
    /\ back' = back \cup {Job(t)}
    /\ Return(t)
    /\ UNCHANGED <<renewOnly, serviceVars, paid, applied, renewed, deletions, faults, upset>>

\* Mutant: the row says active whatever the panel answers.
Mutant_RenewEnable(t) ==
    /\ At(t, "enable")
    /\ enabled' \in {enabled, panel # Gone}
    /\ active' = (row # Gone)
    /\ Return(t)
    /\ UNCHANGED <<walletVars, renewOnly, row, panel, renewVars, renewed, deletions, faults, upset>>

\* The user is enabled on the panel and the row says whether it was; the
\* panel's answer may be lost.
RenewEnable(t) ==
    /\ At(t, "enable")
    /\ \/ enabled' = TRUE /\ panel # Gone /\ active' = (row # Gone)
       \/ enabled' \in {enabled, panel # Gone} /\ active' = FALSE
    /\ Return(t)
    /\ UNCHANGED <<walletVars, renewOnly, row, panel, renewVars, renewed, deletions, faults, upset>>

\* A transaction raises: renew_subscription has no handler for it.
RenewRaises(t) ==
    /\ task[t].pc \in {"row", "look", "restore", "refund"}
    /\ Fault
    /\ Return(t)
    /\ Upset(Job(t), "raise")
    /\ UNCHANGED <<walletVars, renewOnly, serviceVars, renewVars, renewed, deletions>>

\* AdminBot waits for sixty seconds, then cancels the renewal where it waits,
\* for the panel.  The call may be carried out all the same.
RenewTimeout ==
    /\ task[Admin].pc \in {"patch", "enable"}
    /\ Fault
    /\ \/ UNCHANGED <<panel, applied, enabled>>
       \/ At(Admin, "patch") /\ Applies(Admin) /\ UNCHANGED enabled
       \/ At(Admin, "enable") /\ enabled' = (panel # Gone) /\ UNCHANGED <<panel, applied>>
    /\ Return(Admin)
    /\ Upset(Job(Admin), "timeout")
    /\ UNCHANGED <<walletVars, renewOnly, row, active, paid, back, renewed, deletions>>

-----------------------------------------------------------------------------
(* delete_subscription                                                     *)

deleteOnly == <<walletVars, renewOnly, renewVars, renewed>>

DeleteStart(t) ==
    /\ At(t, "idle")
    /\ row # Gone
    /\ listed
    /\ deletions < MaxDeletions
    /\ deletions' = deletions + 1
    /\ task' = [task EXCEPT ![t] = [Idle EXCEPT !.pc = "remove"]]
    /\ Meet(t, None)
    /\ UNCHANGED <<deleteOnly, serviceVars, faults>>

\* The user is deleted, or known to be absent.
DeletePanel(t) ==
    /\ At(t, "remove")
    /\ panel' = Gone /\ enabled' = FALSE
    /\ Goto(t, "erase")
    /\ UNCHANGED <<deleteOnly, row, active, deletions, faults, upset>>

\* The row is kept for another try; so it is when AdminBot stops waiting.
DeletePanelFails(t) ==
    /\ At(t, "remove")
    /\ \/ UNCHANGED <<panel, enabled>>
       \/ panel' = Gone /\ enabled' = FALSE
    /\ Return(t)
    /\ UNCHANGED <<deleteOnly, row, active, deletions, faults, upset>>

DeleteRow(t) ==
    /\ At(t, "erase")
    /\ row' = Gone /\ active' = FALSE
    /\ Return(t)
    /\ UNCHANGED <<deleteOnly, panel, enabled, deletions, faults, upset>>

-----------------------------------------------------------------------------
\* A process dies; the wizard is in the memory of AgentBot.
Crash(t) ==
    /\ ~At(t, "idle") \/ (t = Handler /\ wizard # None)
    /\ Fault
    /\ Return(t)
    /\ wizard' = IF t = Handler THEN None ELSE wizard
    /\ upset' = [x \in DOMAIN upset |->
          IF x = Job(t) \/ (t = Handler /\ x = wizard) THEN upset[x] \cup {"crash"} ELSE upset[x]]
    /\ UNCHANGED <<walletVars, price, served, users, opened, serviceOnly>>

\* The administrator changes the wholesale price.
Reprice(v) ==
    /\ reprices < MaxReprices
    /\ reprices' = reprices + 1
    /\ v # price
    /\ price' = v
    /\ UNCHANGED <<walletVars, listed, createVars, serviceVars, task, renewVars, renewed, deletions,
                   faults, upset>>

\* The administrator removes the server from the list, delete_server; what it
\* serves goes on.
RemoveServer ==
    /\ listed
    /\ listed' = FALSE
    /\ UNCHANGED <<walletVars, price, createVars, serviceVars, task, renewVars, counters, upset>>

Init ==
    /\ balance = [a \in Agents |-> IF a = Agent THEN Funds ELSE 0]
    /\ ledger = IF Funds = 0 THEN << >> ELSE << Entry(Agent, Funds, "charge", NoKey) >>
    /\ price \in Prices /\ listed = TRUE
    /\ wizard = None /\ served = {} /\ users = {} /\ opened = {}
    /\ row = Original /\ panel = Original
    /\ active \in BOOLEAN /\ enabled = active
    /\ task = [t \in Actors |-> Idle]
    /\ paid = {} /\ back = {} /\ applied = {}
    /\ renewed = 0 /\ deletions = 0 /\ reprices = 0 /\ faults = 0
    /\ upset = [x \in Ops \cup Renewals |-> {}]

CreateStep ==
    \/ CreateDebit \/ CreateUnlisted \/ CreatePanel \/ CreatePanelFails \/ CreateStore
    \/ CreateStoreRaises \/ CreateRollback \/ CreateRefund \/ CreateRefundRaises

ServiceStep(t) ==
    \/ RenewStart(t) \/ RenewDebit(t) \/ RenewRow(t) \/ RenewLook(t) \/ RenewUnlisted(t)
    \/ RenewPatch(t) \/ RenewPatchFails(t) \/ RenewRestore(t) \/ RenewRefund(t) \/ RenewEnable(t) \/ RenewRaises(t)
    \/ DeleteStart(t) \/ DeletePanel(t) \/ DeletePanelFails(t) \/ DeleteRow(t)

Next ==
    \/ \E o \in Ops : OpenWizard(o)
    \/ CreateStep
    \/ \E t \in Actors : ServiceStep(t) \/ Crash(t)
    \/ RenewTimeout
    \/ \E v \in Prices : Reprice(v)
    \/ RemoveServer

Spec == Init /\ [][Next]_vars
-----------------------------------------------------------------------------
TypeOK ==
    /\ WalletTypeOK
    /\ price \in Prices /\ listed \in BOOLEAN
    /\ wizard \in opened \cup {None} /\ opened \in SUBSET Ops
    /\ served \in SUBSET Ops /\ users \in SUBSET Ops
    /\ row \in States /\ panel \in States
    /\ active \in BOOLEAN /\ enabled \in BOOLEAN
    /\ task \in [Actors -> [pc : PCs, job : Ops \cup Renewals \cup {None}, cost : Prices \cup {0},
                            old : States, on : BOOLEAN, want : States]]
    /\ paid \in SUBSET Renewals /\ back \in SUBSET Renewals /\ applied \in SUBSET States
    /\ renewed \in 0..MaxRenewals /\ deletions \in 0..MaxDeletions
    /\ reprices \in 0..MaxReprices /\ faults \in 0..MaxFaults
    /\ upset \in [Ops \cup Renewals -> SUBSET Causes]

InWork(j) == \E t \in Actors : Job(t) = j

\* A key buys one service, and pays for it: however often the name is sent
\* again, a service was debited under its key and not refunded.  A purchase whose
\* money went back leaves no user on the panel, unless the panel's answer to the
\* creation was lost or it refused the rollback.
PurchaseSettled ==
    /\ \A o \in served : Debited(o) /\ ~Refunded(o)
    /\ \A o \in users : Refunded(o) => upset[o] \cap {"lost", "rollback"} # {}

\* Money that was debited for nothing is not forgotten: the open wizard still
\* has its key ("Keep the same key: a retry can resume without a second debit"),
\* unless AgentBot died, the representative started over, or the name was sent
\* again after the server had been removed.
HeldIsResumable ==
    \A o \in Ops : Debited(o) /\ ~Refunded(o) /\ o \notin served /\ ~InWork(o)
        => wizard = o \/ upset[o] \cap {"crash", "left", "unlisted"} # {}

\* A renewal that is over, and that nothing disturbed, is all there or all
\* gone: the money stayed and the panel has it, or the money went back and
\* neither the panel nor the books have it.
RenewalSettled ==
    \A r \in paid : ~InWork(r) /\ upset[r] = {} =>
        IF r \in back THEN row # r /\ r \notin applied ELSE r \in applied

\* When nobody works on the service and no renewal was disturbed, the books
\* say of it what the panel does, as long as it has not been deleted from one.
BooksAgree ==
    (\A t \in Actors : task[t].pc \notin OnService) /\ (\A r \in Renewals : upset[r] = {})
        => /\ row = Gone => panel = Gone
           /\ panel # Gone => row = panel /\ (active => enabled)
=============================================================================
