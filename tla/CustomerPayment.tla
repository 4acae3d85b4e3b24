--------------------------- MODULE CustomerPayment ---------------------------
(***************************************************************************)
(* A customer of a representative pays by card-to-card transfer and gets a *)
(* service, or the renewal of one, after the representative's wallet has   *)
(* been debited the wholesale price.  The payment is a row of              *)
(* customer_payments (customer_bot.db), the money and the services are in *)
(* agency.db, the user itself is on a remote panel: an approval is a saga  *)
(* over three stores -- claim, debit, panel, service row, finish -- that   *)
(* refunds what it could not deliver.                                      *)
(*                                                                         *)
(* Who runs it                                                             *)
(*   - AgentBot, one event loop with two tasks: the Handler of the buttons *)
(*     a representative presses, one at a time, and the Worker that polls  *)
(*     the queue of bank messages.  A task keeps the loop until its next   *)
(*     await, so its steps between two awaits are disturbed only by other  *)
(*     processes and by a crash;                                           *)
(*   - CustomerBot, another process, which writes the row when a customer  *)
(*     sends a receipt;                                                    *)
(*   - the panel, which does what it is asked or does not; either way the  *)
(*     answer may be lost, which the bot takes for a failure.              *)
(*                                                                         *)
(* An action is one database transaction or one remote call, with the code *)
(* up to the next one.                                                     *)
(***************************************************************************)
EXTENDS AgentWallet

CONSTANTS
    Agent,        \* the representative
    Funds,        \* what the representative's wallet starts with
    Price,        \* the wholesale price of an order
    Payments,     \* the ids of customer_payments
    Buys,         \* those whose order is a new service
    Renews,       \* those whose order renews a service; the others have no order
    Services,     \* the services renewed
    RenewOf,      \* the service an order renews
    NoPayment,
    Handler,      \* the task that runs the buttons
    Worker,       \* the task that drains the queue of bank messages
    MaxAttempts,  \* bound on operation keys made for one payment
    MaxMessages,  \* bound on bank messages queued for one payment
    MaxReceipts,  \* bound on receipts sent for one payment
    MaxCrashes,   \* bound on crashes of AgentBot
    Faults,       \* a database call of AgentBot may raise
    RejectClaimed,\* "reject" is pressed on a payment that is being processed
    LateReceipts  \* a receipt is written while or after its payment is approved

\* An operation key is random; it is modelled by the payment and a count.
Attempts == Payments \X (1..MaxAttempts)
DebitKey(k) == <<"debit", k>>
RefundKey(k) == <<"refund", k>>

ASSUME PaymentAssumption ==
    /\ Keys = {DebitKey(k) : k \in Attempts} \cup {RefundKey(k) : k \in Attempts}
    /\ NoKey \notin Attempts
    /\ Agent \in Agents
    /\ Funds \in Nat /\ Price \in Nat \ {0}
    /\ Buys \cap Renews = {} /\ Buys \cup Renews \subseteq Payments
    /\ RenewOf \in [Renews -> Services]
    /\ NoPayment \notin Payments
    /\ Handler # Worker
    /\ {MaxAttempts, MaxMessages, MaxReceipts, MaxCrashes} \subseteq Nat
    /\ {Faults, RejectClaimed, LateReceipts} \subseteq BOOLEAN

VARIABLES
    \* customer_bot.db
    status,    \* customer_payments.status, "none" before the row exists
    claim,     \* customer_payments.processing_key
    orderDone, \* customer_orders.status is "approved"
    queued,    \* an unprocessed row of customer_payment_sms_queue
    \* agency.db, beside the wallet
    created,  \* agent_services.payment_operation_key
    lastKey,   \* agent_services.last_payment_operation_key of a renewed service
    \* the processes
    bot,       \* AgentBot: "down", "recover" or "up"
    task,      \* its two tasks
    rows,      \* the recovery under way: rows left, order to update
    receipt,   \* CustomerBot, per payment
    used,      \* keys, messages, receipts made so far, per payment
    crashes,
    \* history
    panel,     \* attempts whose call the panel carried out
    lost,      \* those of them that the bot takes for failed
    renewed    \* how often a renewal was stored under an attempt

paymentVars == <<status, claim, orderDone>>
serviceVars == <<created, lastKey, panel, lost, renewed>>
processVars == <<bot, task, rows>>
customerVars == <<queued, receipt, used>>
vars == <<walletVars, paymentVars, serviceVars, processVars, customerVars, crashes>>

Statuses == {"none", "pending", "processing", "approved", "rejected"}
OptAttempts == Attempts \cup {NoKey}
AttemptsOf(p) == {k \in Attempts : k[1] = p}

Debit(k) == Entry(Agent, Price, "purchase", DebitKey(k))
Refund(k) == Entry(Agent, Price, "refund", RefundKey(k))
Debited(k) == HasTx(DebitKey(k))
Refunded(k) == HasTx(RefundKey(k))
Owing(k) == Debited(k) /\ ~Refunded(k)

-----------------------------------------------------------------------------
(* customer_payments: the statements of AgentBot/database.py.              *)

\* Mutant: a status no reader knows is written.
Mutant_SetStatus(p, s) == status' = [status EXCEPT ![p] = IF s = "rejected" THEN "declined" ELSE s]

SetStatus(p, s) == status' = [status EXCEPT ![p] = s]

\* claim_customer_payment_processing
Claim(p, k) ==
    /\ SetStatus(p, "processing")
    /\ claim' = [claim EXCEPT ![p] = k]

\* finish_customer_payment_processing
Finishable(p, k) == status[p] = "processing" /\ claim[p] = k
Finish(p, k, final) ==
    IF Finishable(p, k)
      THEN SetStatus(p, final) /\ claim' = [claim EXCEPT ![p] = NoKey]
      ELSE UNCHANGED <<status, claim>>

Processing == {p \in Payments : status[p] = "processing"}

\* Mutant: the proof of a renewal is not looked up.
Mutant_Delivered(p, k) == p \in Buys /\ k \in created

\* The local proof of delivery: the service row made under the key, or the
\* key of the last renewal of the service.
Delivered(p, k) ==
    \/ p \in Buys /\ k \in created
    \/ p \in Renews /\ lastKey[RenewOf[p]] = k

-----------------------------------------------------------------------------
(* The tasks of AgentBot.                                                  *)

Tasks == {Handler, Worker}
TaskPCs == {"idle", "claim", "deduct", "release", "notify", "fulfil", "panel", "store",
            "enable", "deliver", "finish", "refund", "giveBack", "recover", "recheck",
            "order", "report"}
\* An await: the other task may run.
Waiting == {"idle", "notify", "panel", "enable", "deliver", "report"}

Idle == [pc |-> "idle", p |-> NoPayment, k |-> NoKey]
At(t, pc) == task[t].pc = pc
Goto(t, pc) == task' = [task EXCEPT ![t] = IF pc = "idle" THEN Idle ELSE [@ EXCEPT !.pc = pc]]
\* The event loop runs t: no other task is between two awaits.
Runs(t) == bot = "up" /\ \A u \in Tasks \ {t} : task[u].pc \in Waiting
Step(t, pc) == Runs(t) /\ At(t, pc)

NoRows == [left |-> {}, owed |-> NoPayment]

\* An order that was renewed is not renewed again for a pending payment.
AlreadyRenewed(p) == p \in Renews /\ status[p] = "pending" /\ orderDone[p]

(***************************************************************************)
(* _approve_payment and _auto_approve_from_sms_webhook, up to the claim.   *)
(* A payment that has a key keeps it; otherwise a new one is made.         *)
(***************************************************************************)
StartApproval(t, p) ==
    /\ Step(t, "idle")
    /\ t = Worker => queued[p]
    /\ p \in Buys \cup Renews
    /\ status[p] \in {"pending", "processing"}
    /\ ~AlreadyRenewed(p)
    /\ status[p] = "pending" => balance[Agent] >= Price
    /\ IF claim[p] # NoKey
         THEN /\ task' = [task EXCEPT ![t] = [pc |-> "claim", p |-> p, k |-> claim[p]]]
              /\ UNCHANGED used
         ELSE /\ used[p].keys < MaxAttempts
              /\ used' = [used EXCEPT ![p].keys = @ + 1]
              /\ task' = [task EXCEPT ![t] = [pc |-> "claim", p |-> p, k |-> <<p, used[p].keys + 1>>]]
    /\ UNCHANGED <<walletVars, paymentVars, serviceVars, bot, rows, queued, receipt, crashes>>

\* A payment without an order is only marked.
ApproveNoOrder(t, p) ==
    /\ Step(t, "idle")
    /\ t = Worker => queued[p]
    /\ p \notin Buys \cup Renews
    /\ status[p] = "pending"
    /\ SetStatus(p, "approved")
    /\ task' = [task EXCEPT ![t] = IF t = Worker THEN [pc |-> "report", p |-> p, k |-> NoKey] ELSE Idle]
    /\ UNCHANGED <<walletVars, claim, orderDone, serviceVars, bot, rows, customerVars, crashes>>

ClaimPayment(t) ==
    LET p == task[t].p
    IN /\ Step(t, "claim")
       /\ IF status[p] = "pending"
            THEN Claim(p, task[t].k) /\ Goto(t, "deduct")
            ELSE UNCHANGED <<status, claim>> /\ Goto(t, "idle")
       /\ UNCHANGED <<walletVars, orderDone, serviceVars, bot, rows, customerVars, crashes>>

ledgerStep == <<paymentVars, serviceVars, bot, rows, customerVars, crashes>>

\* deduct_wallet_once; the worker tells the customer before it delivers.
DeductWallet(t) ==
    /\ Step(t, "deduct")
    /\ OnceOk(Debit(task[t].k))
    /\ Goto(t, IF t = Worker THEN "notify" ELSE "fulfil")
    /\ UNCHANGED ledgerStep

\* Mutant: the False of deduct_wallet_once is not looked at.
Mutant_DeductRefused(t) ==
    /\ Step(t, "deduct")
    /\ Refused(Debit(task[t].k))
    /\ Goto(t, "fulfil")
    /\ UNCHANGED <<walletVars, ledgerStep>>

DeductRefused(t) ==
    /\ Step(t, "deduct")
    /\ Refused(Debit(task[t].k))
    /\ Goto(t, "release")
    /\ UNCHANGED <<walletVars, ledgerStep>>

\* The call raises; the claim is kept if the money is gone all the same.
DeductRaises(t) ==
    /\ Step(t, "deduct")
    /\ Faults
    /\ Goto(t, IF Debited(task[t].k) THEN "idle" ELSE "release")
    /\ UNCHANGED <<walletVars, ledgerStep>>

Release(t) ==
    /\ Step(t, "release")
    /\ Finish(task[t].p, task[t].k, "pending")
    /\ Goto(t, "idle")
    /\ UNCHANGED <<walletVars, orderDone, serviceVars, bot, rows, customerVars, crashes>>

Notify(t) ==
    /\ Step(t, "notify")
    /\ Goto(t, "fulfil")
    /\ UNCHANGED <<walletVars, ledgerStep>>

-----------------------------------------------------------------------------
(* _create_subscription_from_order, _renew_subscription_from_order         *)

\* A service that exists under the key is returned as it is.
StartDelivery(t) ==
    /\ Step(t, "fulfil")
    /\ Goto(t, IF Delivered(task[t].p, task[t].k) THEN "finish" ELSE "panel")
    /\ UNCHANGED <<walletVars, ledgerStep>>

PanelDone(t) ==
    /\ Step(t, "panel")
    /\ panel' = panel \cup {task[t].k}
    /\ Goto(t, "store")
    /\ UNCHANGED <<walletVars, paymentVars, created, lastKey, lost, renewed, bot, rows, customerVars,
                   crashes>>

\* The call raises, which counts as a failure; the panel may have done it all
\* the same, and only the answer was lost.
PanelFails(t) ==
    /\ Step(t, "panel")
    /\ \/ UNCHANGED <<panel, lost>>
       \/ panel' = panel \cup {task[t].k} /\ lost' = lost \cup {task[t].k}
    /\ Goto(t, "refund")
    /\ UNCHANGED <<walletVars, paymentVars, created, lastKey, renewed, bot, rows, customerVars, crashes>>

\* create_service
StoreService(t) ==
    /\ Step(t, "store")
    /\ task[t].p \in Buys
    /\ created' = created \cup {task[t].k}
    /\ Goto(t, "deliver")
    /\ UNCHANGED <<walletVars, paymentVars, lastKey, panel, lost, renewed, bot, rows, customerVars, crashes>>

\* renew_service_with_policy
StoreRenewal(t) ==
    LET k == task[t].k
        s == RenewOf[task[t].p]
    IN /\ Step(t, "store")
       /\ task[t].p \in Renews
       /\ lastKey' = [lastKey EXCEPT ![s] = k]
       /\ renewed' = [renewed EXCEPT ![k] = IF lastKey[s] = k THEN @ ELSE @ + 1]
       /\ Goto(t, "enable")
       /\ UNCHANGED <<walletVars, paymentVars, created, panel, lost, bot, rows, customerVars, crashes>>

\* renew_service_with_policy returns False when the enforcer has meanwhile
\* taken the last day of a service whose order adds no days: for review.
StoreRefused(t) ==
    /\ Step(t, "store")
    /\ task[t].p \in Renews
    /\ Goto(t, "idle")
    /\ UNCHANGED <<walletVars, ledgerStep>>

\* create_service never returns False; an exception is a failed delivery.
StoreRaises(t) ==
    /\ Step(t, "store")
    /\ Faults
    /\ Goto(t, "refund")
    /\ UNCHANGED <<walletVars, ledgerStep>>

\* Mutant: a panel that does not enable the user fails the renewal.
Mutant_Activate(t) ==
    /\ Step(t, "enable")
    /\ Goto(t, "deliver") \/ Goto(t, "refund")
    /\ UNCHANGED <<walletVars, ledgerStep>>

\* enable_user on the panels is awaited, then set_service_active is called.
Activate(t) ==
    /\ Step(t, "enable")
    /\ Goto(t, "deliver") \/ (Faults /\ Goto(t, "refund"))
    /\ UNCHANGED <<walletVars, ledgerStep>>

\* The renewed service is read once more, outside the try of the notice.
DeliverRaises(t) ==
    /\ Step(t, "deliver")
    /\ task[t].p \in Renews
    /\ Faults
    /\ Goto(t, "refund")
    /\ UNCHANGED <<walletVars, ledgerStep>>

-----------------------------------------------------------------------------
(* _refund_payment_attempt and the end of the approval                     *)

\* The handler also puts the order back to pending, the worker does not.
PutBack(t) == orderDone' = [orderDone EXCEPT ![task[t].p] = @ /\ t = Worker]

RefundWallet(t) ==
    /\ Step(t, "refund")
    /\ OnceOk(Refund(task[t].k))
    /\ Goto(t, "giveBack")
    /\ UNCHANGED ledgerStep

\* The refund raises: the payment is left processing.
RefundRaises(t) ==
    /\ Step(t, "refund")
    /\ Faults
    /\ PutBack(t)
    /\ Goto(t, "idle")
    /\ UNCHANGED <<walletVars, status, claim, serviceVars, bot, rows, customerVars, crashes>>

GiveBack(t) ==
    /\ Step(t, "giveBack")
    /\ Finish(task[t].p, task[t].k, "pending")
    /\ PutBack(t)
    /\ Goto(t, "idle")
    /\ UNCHANGED <<walletVars, serviceVars, bot, rows, customerVars, crashes>>

\* A row that cannot be finished is left to the recovery, run at once.
FinishApproved(t) ==
    LET p == task[t].p
        k == task[t].k
    IN /\ Step(t, "finish") \/ Step(t, "deliver")
       /\ Finish(p, k, "approved")
       /\ IF Finishable(p, k)
            THEN Goto(t, "order") /\ UNCHANGED rows
            ELSE Goto(t, "recover") /\ rows' = [NoRows EXCEPT !.left = Processing]
       /\ UNCHANGED <<walletVars, orderDone, serviceVars, bot, customerVars, crashes>>

Recheck(t) ==
    /\ Step(t, "recheck")
    /\ Goto(t, IF status[task[t].p] = "approved" THEN "order" ELSE "idle")
    /\ UNCHANGED <<walletVars, ledgerStep>>

ApproveOrder(t) ==
    /\ Step(t, "order")
    /\ orderDone' = [orderDone EXCEPT ![task[t].p] = TRUE]
    /\ IF t = Worker THEN Goto(t, "report") ELSE Goto(t, "idle")
    /\ UNCHANGED <<walletVars, status, claim, serviceVars, bot, rows, customerVars, crashes>>

\* Any other call that raises ends the approval where it is.
Abandon(t) ==
    /\ Faults
    /\ \E pc \in {"claim", "release", "deliver", "finish", "giveBack", "recover", "recheck", "order"} :
           Step(t, pc)
    /\ rows' = NoRows
    /\ Goto(t, "idle")
    /\ UNCHANGED <<walletVars, paymentVars, serviceVars, bot, customerVars, crashes>>

\* mark_sms_auto_queue_processed, after the reports have been sent
Dequeue(p) == queued' = [queued EXCEPT ![p] = FALSE]
MarkProcessed ==
    /\ Step(Worker, "report")
    /\ Dequeue(task[Worker].p)
    /\ Goto(Worker, "idle")
    /\ UNCHANGED <<walletVars, paymentVars, serviceVars, bot, rows, receipt, used, crashes>>

\* Mutant: only approved payments are taken off the queue.
Mutant_SkipQueued(p) ==
    /\ Step(Worker, "idle")
    /\ queued[p]
    /\ status[p] = "approved" \/ AlreadyRenewed(p)
    /\ Dequeue(p)
    /\ UNCHANGED <<walletVars, paymentVars, serviceVars, processVars, receipt, used, crashes>>

\* Nothing is left to do for a queued message.
SkipQueued(p) ==
    /\ Step(Worker, "idle")
    /\ queued[p]
    /\ status[p] \in {"approved", "rejected"} \/ AlreadyRenewed(p)
    /\ Dequeue(p)
    /\ UNCHANGED <<walletVars, paymentVars, serviceVars, processVars, receipt, used, crashes>>

\* The representative is disabled, has switched automatic approval off, or
\* the reservation of the message is no longer valid.
DropQueued(p) ==
    /\ Step(Worker, "idle")
    /\ queued[p]
    /\ Dequeue(p)
    /\ UNCHANGED <<walletVars, paymentVars, serviceVars, processVars, receipt, used, crashes>>

-----------------------------------------------------------------------------
(* recover_customer_payment_operations, at start-up and from a task.       *)

Recovering == bot = "recover" \/ \E t \in Tasks : Step(t, "recover")

\* Mutant: a debit alone is taken for a delivery.
Mutant_RecoverTrusting(p) ==
    /\ Recovering
    /\ rows.owed = NoPayment
    /\ p \in rows.left
    /\ Finish(p, claim[p], IF Owing(claim[p]) THEN "approved" ELSE "pending")
    /\ rows' = [rows EXCEPT !.left = @ \ {p}]
    /\ UNCHANGED <<walletVars, orderDone, serviceVars, bot, task, customerVars, crashes>>

\* Mutant: a payment without a proof of delivery is released, not reviewed.
Mutant_RecoverReleasing(p) ==
    /\ Recovering
    /\ rows.owed = NoPayment
    /\ p \in rows.left
    /\ Finish(p, claim[p], IF Delivered(p, claim[p]) THEN "approved" ELSE "pending")
    /\ rows' = [rows EXCEPT !.left = @ \ {p}]
    /\ UNCHANGED <<walletVars, orderDone, serviceVars, bot, task, customerVars, crashes>>

\* Released when no money is owed, approved when there is a proof of
\* delivery, left for review otherwise.
RecoverRow(p) ==
    LET k == claim[p]
        claimed == status[p] = "processing"
        proof == Debited(k) /\ ~Refunded(k) /\ Delivered(p, k)
    IN /\ Recovering
       /\ rows.owed = NoPayment
       /\ p \in rows.left
       /\ IF claimed /\ ~Owing(k) THEN Finish(p, k, "pending")
          ELSE IF claimed /\ proof THEN Finish(p, k, "approved")
          ELSE UNCHANGED <<status, claim>>
       /\ rows' = [left |-> rows.left \ {p}, owed |-> IF claimed /\ proof THEN p ELSE NoPayment]
       /\ UNCHANGED <<walletVars, orderDone, serviceVars, bot, task, customerVars, crashes>>

RecoverOrder ==
    /\ Recovering
    /\ rows.owed # NoPayment
    /\ orderDone' = [orderDone EXCEPT ![rows.owed] = TRUE]
    /\ rows' = [rows EXCEPT !.owed = NoPayment]
    /\ UNCHANGED <<walletVars, status, claim, serviceVars, bot, task, customerVars, crashes>>

\* At start-up an exception ends the recovery, and the bot goes on without it.
RecoverDone ==
    /\ Recovering
    /\ rows = NoRows \/ (Faults /\ bot = "recover")
    /\ rows' = NoRows
    /\ bot' = "up"
    /\ task' = [t \in Tasks |-> IF At(t, "recover") THEN [task[t] EXCEPT !.pc = "recheck"] ELSE task[t]]
    /\ UNCHANGED <<walletVars, paymentVars, serviceVars, customerVars, crashes>>

Restart ==
    /\ bot = "down"
    /\ bot' = "recover"
    /\ rows' = [NoRows EXCEPT !.left = Processing]
    /\ UNCHANGED <<walletVars, paymentVars, serviceVars, task, customerVars, crashes>>

Crash ==
    /\ bot # "down"
    /\ crashes < MaxCrashes
    /\ crashes' = crashes + 1
    /\ bot' = "down"
    /\ task' = [t \in Tasks |-> Idle]
    /\ rows' = NoRows
    /\ UNCHANGED <<walletVars, paymentVars, serviceVars, customerVars>>

-----------------------------------------------------------------------------
(* The other buttons of the representative.                                *)

agentPress == <<walletVars, claim, serviceVars, processVars, customerVars, crashes>>

\* Mutant: an approved payment is rejected too.
Mutant_Reject(p) ==
    /\ Step(Handler, "idle")
    /\ status[p] \in {"pending", "approved"}
    /\ SetStatus(p, "rejected")
    /\ orderDone' = [orderDone EXCEPT ![p] = FALSE]
    /\ UNCHANGED agentPress

\* _reject_payment: the list it looks in holds processing payments too.
Reject(p) ==
    /\ Step(Handler, "idle")
    /\ status[p] = "pending" \/ (RejectClaimed /\ status[p] = "processing")
    /\ SetStatus(p, "rejected")
    /\ orderDone' = [orderDone EXCEPT ![p] = FALSE]
    /\ UNCHANGED agentPress

\* _apply_change_status: an undecided payment again.  The key, if any, stays.
Reopen(p) ==
    /\ Step(Handler, "idle")
    /\ status[p] = "rejected"
    /\ SetStatus(p, "pending")
    /\ orderDone' = [orderDone EXCEPT ![p] = FALSE]
    /\ UNCHANGED agentPress

-----------------------------------------------------------------------------
(* CustomerBot and the SMS webhook, in processes of their own.             *)

customerStep == <<walletVars, claim, orderDone, serviceVars, processVars, crashes>>

(***************************************************************************)
(* _finalize_receipt: the row is created, or an existing one is set back   *)
(* to pending whatever its status.                                         *)
(***************************************************************************)
SendReceipt(p) ==
    /\ receipt[p] = "none"
    /\ used[p].receipts < MaxReceipts
    /\ LateReceipts \/ status[p] \in {"none", "pending", "rejected"}
    /\ SetStatus(p, "pending")
    /\ receipt' = [receipt EXCEPT ![p] = IF LateReceipts THEN "notified" ELSE "none"]
    /\ used' = [used EXCEPT ![p].receipts = @ + 1]
    /\ UNCHANGED <<customerStep, queued>>

\* The ids of the messages sent to the agent, if it has not been told before,
\* and to the customer are kept in the row; each update writes the status again.
RewriteReceipt(p) ==
    /\ receipt[p] # "none"
    /\ SetStatus(p, "pending")
    /\ \E next \in {"answered", "none"} :
          /\ receipt[p] = "answered" => next = "none"
          /\ receipt' = [receipt EXCEPT ![p] = next]
    /\ UNCHANGED <<customerStep, queued, used>>

\* enqueue_sms_auto_approval, for the pending payment that a message fits
Enqueue(p) ==
    /\ status[p] = "pending"
    /\ ~queued[p]
    /\ used[p].messages < MaxMessages
    /\ queued' = [queued EXCEPT ![p] = TRUE]
    /\ used' = [used EXCEPT ![p].messages = @ + 1]
    /\ UNCHANGED <<customerStep, status, receipt>>

\* The representative buys something else (deduct_wallet), once.
SpendElsewhere ==
    /\ \A i \in DOMAIN ledger : ledger[i].type = "purchase" => ledger[i].key # NoKey
    /\ Deduct(Agent, Price)
    /\ UNCHANGED <<paymentVars, serviceVars, processVars, customerVars, crashes>>

-----------------------------------------------------------------------------
Init ==
    /\ balance = [a \in Agents |-> IF a = Agent THEN Funds ELSE 0]
    /\ ledger = IF Funds = 0 THEN << >> ELSE << Entry(Agent, Funds, "charge", NoKey) >>
    /\ status = [p \in Payments |-> "none"]
    /\ claim = [p \in Payments |-> NoKey]
    /\ orderDone = [p \in Payments |-> FALSE]
    /\ queued = [p \in Payments |-> FALSE]
    /\ created = {}
    /\ lastKey = [s \in Services |-> NoKey]
    /\ bot = "down"
    /\ task = [t \in Tasks |-> Idle]
    /\ rows = NoRows
    /\ receipt = [p \in Payments |-> "none"]
    /\ used = [p \in Payments |-> [keys |-> 0, messages |-> 0, receipts |-> 0]]
    /\ crashes = 0
    /\ panel = {} /\ lost = {}
    /\ renewed = [k \in Attempts |-> 0]

TaskStep(t) ==
    \/ ClaimPayment(t) \/ DeductWallet(t) \/ DeductRefused(t) \/ DeductRaises(t)
    \/ Release(t) \/ Notify(t) \/ StartDelivery(t) \/ PanelDone(t) \/ PanelFails(t)
    \/ StoreService(t) \/ StoreRenewal(t) \/ StoreRefused(t) \/ StoreRaises(t)
    \/ Activate(t) \/ DeliverRaises(t) \/ RefundWallet(t) \/ RefundRaises(t)
    \/ GiveBack(t) \/ FinishApproved(t) \/ Recheck(t) \/ ApproveOrder(t) \/ Abandon(t)

RecoveryStep == Restart \/ RecoverOrder \/ RecoverDone \/ \E p \in Payments : RecoverRow(p)

QueueStep(p) == StartApproval(Worker, p) \/ ApproveNoOrder(Worker, p) \/ SkipQueued(p)

PressStep(p) == StartApproval(Handler, p) \/ ApproveNoOrder(Handler, p) \/ Reject(p) \/ Reopen(p)

CustomerStep(p) == SendReceipt(p) \/ RewriteReceipt(p) \/ Enqueue(p)

Next ==
    \/ \E t \in Tasks : TaskStep(t)
    \/ \E p \in Payments : QueueStep(p) \/ DropQueued(p) \/ PressStep(p) \/ CustomerStep(p)
    \/ MarkProcessed
    \/ RecoveryStep
    \/ Crash
    \/ SpendElsewhere

Spec == Init /\ [][Next]_vars

(***************************************************************************)
(* The event loop does not starve a task, a call that is awaited returns,  *)
(* the poll of the queue comes back to every row in it, and AgentBot is    *)
(* started again by its service unit.  Nobody has to press a button or to  *)
(* send a receipt.                                                         *)
(***************************************************************************)
FairSpec ==
    /\ Spec
    /\ \A t \in Tasks : SF_vars(TaskStep(t))
    /\ \A p \in Payments : SF_vars(QueueStep(p))
    /\ SF_vars(MarkProcessed)
    /\ WF_vars(RecoveryStep)

-----------------------------------------------------------------------------
TypeOK ==
    /\ WalletTypeOK
    /\ status \in [Payments -> Statuses]
    /\ claim \in [Payments -> OptAttempts]
    /\ orderDone \in [Payments -> BOOLEAN]
    /\ queued \in [Payments -> BOOLEAN]
    /\ created \subseteq Attempts
    /\ lastKey \in [Services -> OptAttempts]
    /\ bot \in {"down", "recover", "up"}
    /\ task \in [Tasks -> [pc : TaskPCs, p : Payments \cup {NoPayment}, k : OptAttempts]]
    /\ rows \in [left : SUBSET Payments, owed : Payments \cup {NoPayment}]
    /\ receipt \in [Payments -> {"none", "notified", "answered"}]
    /\ used \in [Payments -> [keys : 0..MaxAttempts, messages : 0..MaxMessages,
                              receipts : 0..MaxReceipts]]
    /\ crashes \in 0..MaxCrashes
    /\ panel \subseteq Attempts /\ lost \subseteq panel
    /\ renewed \in [Attempts -> Nat]

(***************************************************************************)
(* Nothing is delivered, on a panel or in the books, under a key that the  *)
(* wallet was not debited for, and nothing is refunded that was not        *)
(* debited.                                                                *)
(***************************************************************************)
PaidBefore ==
    \A k \in Attempts :
        (k \in panel \/ k \in created \/ renewed[k] > 0 \/ Refunded(k)) => Debited(k)

(***************************************************************************)
(* A payment is shown as approved only when its order has been carried out *)
(* on the panel and written down, whichever of its attempts did it.        *)
(***************************************************************************)
ApprovedIsDelivered ==
    \A p \in Buys \cup Renews :
        status[p] = "approved" =>
            \E k \in AttemptsOf(p) : k \in panel /\ (k \in created \/ renewed[k] > 0)

(***************************************************************************)
(* What is delivered is not refunded: "Refunding or retrying blindly could *)
(* grant a free or double renewal".  The bot cannot keep this of a call    *)
(* that was carried out and whose answer was lost; such an attempt is      *)
(* refunded like one that failed, and is in no book.                       *)
(***************************************************************************)
InBooks(k) == k \in created \/ renewed[k] > 0
NoFreeService == \A k \in Attempts : Refunded(k) => ~InBooks(k) /\ k \notin panel \ lost

(***************************************************************************)
(* However often a payment is approved, refused, retried and recovered,    *)
(* the representative pays for it once, and apart from attempts whose      *)
(* answer was lost it is delivered once.                                   *)
(***************************************************************************)
DeliveredOnce ==
    \A p \in Payments : \A k, l \in AttemptsOf(p) :
        /\ Owing(k) /\ Owing(l) => k = l
        /\ k \in panel \ lost /\ l \in panel \ lost => k = l
        /\ renewed[k] <= 1

(***************************************************************************)
(* A payment that is pending or rejected owes nothing, and what the bot    *)
(* knows to be delivered belongs to one that is approved or on its way:    *)
(* whatever else was attempted has been undone.                            *)
(***************************************************************************)
UndecidedIsClear ==
    \A p \in Payments : \A k \in AttemptsOf(p) :
        status[p] \in {"pending", "rejected"} => ~Owing(k) /\ ~InBooks(k) /\ k \notin panel \ lost

(***************************************************************************)
(* "Approved transactions cannot change their status."                     *)
(***************************************************************************)
ApprovedIsFinal ==
    [][\A p \in Payments : status[p] = "approved" => status'[p] = "approved"]_vars

(***************************************************************************)
(* The recovery finalizes or releases "interrupted payment attempts from   *)
(* durable evidence": a payment whose order is carried out and written     *)
(* down does not stay claimed after a restart, unless the evidence is      *)
(* gone -- the other task has renewed the same service since, which        *)
(* overwrites the one key the service keeps, and the payment stays in      *)
(* processing for good.                                                    *)
(***************************************************************************)
RecoveryFinalizes ==
    \A p \in Payments : \A k \in AttemptsOf(p) :
        (bot = "down" /\ claim[p] = k /\ status[p] = "processing" /\ Owing(k) /\ InBooks(k))
            ~> (status[p] # "processing" \/ (p \in Renews /\ lastKey[RenewOf[p]] \notin {k, NoKey}))

(***************************************************************************)
(* A message that was queued for a payment leaves the queue once the       *)
(* payment is decided, even if AgentBot crashes in between.                *)
(***************************************************************************)
DecidedLeavesQueue ==
    \A p \in Payments :
        (queued[p] /\ status[p] \in {"approved", "rejected"}) ~>
            (~queued[p] \/ status[p] \notin {"approved", "rejected"})
=============================================================================
