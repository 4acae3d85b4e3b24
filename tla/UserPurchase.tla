---------------------------- MODULE UserPurchase ----------------------------
(***************************************************************************)
(* What a user of UserBot pays for and what is delivered.  A purchase is a *)
(* new service or the renewal of one.  It is paid from the user's wallet   *)
(* (an order) or directly by card (a payment whose flow is direct_buy): a  *)
(* payment is approved by the administrator or by a bank message, and a    *)
(* loop of UserBot delivers what is approved.  How far a delivery got is   *)
(* kept in the meta string of the payment's row, which several processes   *)
(* rewrite.                                                                *)
(*                                                                         *)
(* Who runs it                                                             *)
(*   - UserBot, one event loop with two tasks: the delivery Loop, and the  *)
(*     Handler of a user's message, which runs an order or, after an       *)
(*     automatic approval, the same delivery function as the loop;         *)
(*   - the HTTP thread of a bank message, in the same process;             *)
(*   - AdminBot, which sets the status of a payment and takes back what a  *)
(*     payment it un-approves had delivered;                               *)
(*   - the panel, which does what it is asked or not; its answer may be    *)
(*     lost.                                                               *)
(*                                                                         *)
(* A payment's meta is read and written back as a whole.  Only the thread  *)
(* writes back fields it does not mean to change, so only its read and its *)
(* write are two actions.  A write that raises is swallowed nearly         *)
(* everywhere, and what comes after it is done all the same.               *)
(***************************************************************************)
EXTENDS Integers, FiniteSets

CONSTANTS
    Direct,        \* direct_buy payments
    Orders,        \* purchases from the wallet
    NoPurchase,
    Funds,         \* the wallet at the start
    Price,         \* of a purchase
    Loop, Handler, \* the tasks of UserBot
    MaxTries,      \* DIRECT_DELIVERY_MAX_RETRIES
    MaxAttempts,   \* bound on deliveries begun for a payment
    MaxPresses,    \* bound on buttons pressed in AdminBot
    MaxCrashes     \* bound on crashes of UserBot

Purchases == Direct \cup Orders

ASSUME PurchaseAssumption ==
    /\ IsFiniteSet(Purchases) /\ Direct \cap Orders = {}
    /\ NoPurchase \notin Purchases
    /\ Funds \in Nat /\ Price \in Nat \ {0}
    /\ Loop # Handler
    /\ {MaxTries, MaxAttempts, MaxPresses, MaxCrashes} \subseteq Nat

VARIABLES
    renewal,   \* the purchases that renew a service
    broken,    \* the payments whose row or meta lacks what a delivery needs
    crowded,   \* the payments that are not among the newest the loop reads
    status,    \* userbot_payments.status
    meta,      \* userbot_payments.receipt_image: direct_done, direct_attempts,
               \* and delivered_service_id, or the snapshot of a renewal
    order,     \* what has become of an order
    balance,   \* userbot_users.wallet_balance
    charged, refunded, \* the orders debited and credited back
    services,  \* per purchase, the deliveries that have a row in userbot_services
    panel,     \* per purchase, the deliveries in effect on the panel
    task,      \* the tasks of UserBot
    admin,     \* the button AdminBot is working on
    thread,    \* the bank message a thread is working on
    begun, presses, crashes, \* counters for the bounds
    upset      \* history: what disturbed the delivery of a purchase

paymentVars == <<status, meta>>
moneyVars == <<balance, charged, refunded>>
goodsVars == <<services, panel>>
counters == <<begun, presses, crashes>>
vars == <<renewal, broken, crowded, paymentVars, order, moneyVars, goodsVars, task, admin, thread, counters,
          upset>>

Tasks == {Loop, Handler}
Statuses == {"pending", "approved", "rejected"}
\* "invalid" is "err" with an error that is not tried again, invalid_meta.
DoneStates == {"none", "processing", "1", "err", "invalid", "reverted"}
Attempts == 1..MaxAttempts
NoAttempt == 0
Fresh == [done |-> "none", tries |-> 0, sid |-> NoAttempt]
Causes == {"announce", "store", "lost", "erased", "unwritten", "crash", "stale", "kept",
           "partial", "stopped"}

TaskPCs == {"idle", "row", "check", "charge", "recheck", "panel", "store", "rollback", "refund",
            "announce", "settle"}
\* An await: the other task of the loop may run.
Waiting == {"idle", "row", "check", "recheck", "panel", "rollback", "announce"}

Idle == [pc |-> "idle", p |-> NoPurchase, n |-> NoAttempt, tries |-> 0, ok |-> FALSE]
NoPress == [pc |-> "idle", p |-> NoPurchase, target |-> "pending", prev |-> "pending",
            sid |-> NoAttempt]
NoMessage == [pc |-> "idle", p |-> NoPurchase, seen |-> Fresh]

Runs(t) == \A u \in Tasks \ {t} : task[u].pc \in Waiting
Step(t, pc) == Runs(t) /\ task[t].pc = pc
Goto(t, pc) == task' = [task EXCEPT ![t].pc = pc]
\* The procedure returns, or leaves by an exception.
Return(t, ok) == task' = [task EXCEPT ![t].pc = "settle", ![t].ok = ok]
P(t) == task[t].p
Upset(p, cause) == upset' = [upset EXCEPT ![p] = @ \cup {cause}]

WorkedOn(p) == \E t \in Tasks : task[t].p = p /\ task[t].pc # "row"
Untouched(p) == (\A t \in Tasks : task[t].p # p) /\ admin.p # p /\ thread.p # p

-----------------------------------------------------------------------------
(* The start of a purchase.                                                *)

\* Mutant: a delivery in progress is claimed again.
Mutant_Claimable(m) == m.done \in {"none", "reverted", "processing"} \/ (m.done = "err" /\ m.tries < MaxTries)

\* Mutant: a delivery that failed is never tried again.
Mutant_ClaimableOnce(m) == m.done \in {"none", "reverted"}

\* A delivery that failed is tried again, up to a limit.
Claimable(m) ==
    \/ m.done \in {"none", "reverted"}
    \/ m.done = "err" /\ m.tries < MaxTries

Counted(m) == m.tries + 1

goodsAndMoney == <<order, moneyVars, goodsVars>>
notTheirs == <<renewal, broken, admin, thread, presses, crashes>>

\* Newer payments are approved, or un-approved: what a round reads are the
\* newest 40 of the approved.
Crowd(p) ==
    /\ crowded' = IF p \in crowded THEN crowded \ {p} ELSE crowded \cup {p}
    /\ UNCHANGED <<notTheirs, paymentVars, goodsAndMoney, task, begun, upset>>

\* _process_approved_direct_buy_payments: a round reads the rows and judges each
\* by what it read, maybe long before its turn.
ReadRow(t, p) ==
    /\ Step(t, "idle")
    /\ status[p] = "approved" /\ p \notin crowded
    /\ Claimable(meta[p])
    /\ begun[p] < MaxAttempts
    /\ task' = [task EXCEPT ![t] = [Idle EXCEPT !.pc = "row", !.p = p, !.tries = Counted(meta[p])]]
    /\ UNCHANGED <<notTheirs, crowded, paymentVars, goodsAndMoney, begun, upset>>

ClaimOnly == UNCHANGED <<notTheirs, crowded, status, goodsAndMoney>>

\* A row that lacks something; the mark may not be written.
InvalidMeta(t) ==
    /\ Step(t, "row") /\ P(t) \in broken
    /\ \/ meta' = [meta EXCEPT ![P(t)].done = "invalid"] /\ UNCHANGED upset
       \/ Upset(P(t), "unwritten") /\ UNCHANGED meta
    /\ task' = [task EXCEPT ![t] = Idle]
    /\ ClaimOnly /\ UNCHANGED begun

\* _try_claim_direct_buy_payment reads the row again.
Claim(t) ==
    LET p == P(t)
    IN /\ Step(t, "row") /\ p \notin broken
       /\ IF status[p] = "approved" /\ Claimable(meta[p])
            THEN /\ begun[p] < MaxAttempts
                 /\ meta' = [meta EXCEPT ![p].done = "processing"]
                 /\ begun' = [begun EXCEPT ![p] = @ + 1]
                 /\ task' = [task EXCEPT ![t].pc = IF p \in renewal THEN "check" ELSE "panel",
                                         ![t].n = begun[p] + 1]
            ELSE /\ task' = [task EXCEPT ![t] = Idle]
                 /\ UNCHANGED <<meta, begun>>
       /\ ClaimOnly /\ UNCHANGED upset

\* The claim raises: the payment is marked as failed, whoever delivers it or
\* has delivered it; that mark may not be written either.
ClaimRaises(t) ==
    LET p == P(t)
    IN /\ Step(t, "row") /\ p \notin broken
       /\ \/ /\ meta' = [meta EXCEPT ![p].done = "err", ![p].tries = task[t].tries]
             /\ IF meta[p].done \in {"processing", "1"} THEN Upset(p, "erased") ELSE UNCHANGED upset
          \/ Upset(p, "unwritten") /\ UNCHANGED meta
       /\ task' = [task EXCEPT ![t] = Idle]
       /\ ClaimOnly /\ UNCHANGED begun

\* The user confirms a purchase from the wallet.
StartOrder(o) ==
    /\ Step(Handler, "idle")
    /\ order[o] = "new"
    /\ order' = [order EXCEPT ![o] = "running"]
    /\ task' = [task EXCEPT ![Handler] = [pc |-> IF o \in renewal THEN "check" ELSE "charge",
                                          p |-> o, n |-> 1, tries |-> 0, ok |-> FALSE]]
    /\ UNCHANGED <<notTheirs, crowded, paymentVars, moneyVars, goodsVars, begun, upset>>

-----------------------------------------------------------------------------
(* _process_wallet_purchase                                                *)

taskOnly == <<renewal, broken, crowded, paymentVars, order, admin, thread, counters>>

\* The service may be renewed now, as the panel shows it or, if the panel does
\* not answer, as its row does.
Check(t) ==
    /\ Step(t, "check")
    /\ \/ Goto(t, IF P(t) \in Orders THEN "charge" ELSE "recheck")
       \/ Return(t, FALSE)
    /\ UNCHANGED <<taskOnly, moneyVars, goodsVars, upset>>

\* Mutant: the balance is not tested.
Mutant_Charge(t) ==
    /\ Step(t, "charge")
    /\ balance' = balance - Price
    /\ charged' = charged \cup {P(t)}
    /\ Goto(t, IF P(t) \in renewal THEN "recheck" ELSE "panel")
    /\ UNCHANGED <<taskOnly, refunded, goodsVars, upset>>

\* decrease_user_wallet
Charge(t) ==
    /\ Step(t, "charge")
    /\ IF balance >= Price
         THEN /\ balance' = balance - Price
              /\ charged' = charged \cup {P(t)}
              /\ Goto(t, IF P(t) \in renewal THEN "recheck" ELSE "panel")
         ELSE /\ UNCHANGED <<balance, charged>>
              /\ Return(t, FALSE)
    /\ UNCHANGED <<taskOnly, refunded, goodsVars, upset>>

\* The same question again, after the debit.  A "no" returns without a refund:
\* of an order, the money is kept.
Recheck(t) ==
    /\ Step(t, "recheck")
    /\ \/ Goto(t, "panel") /\ UNCHANGED upset
       \/ /\ Return(t, FALSE)
          /\ IF P(t) \in Orders THEN Upset(P(t), "stale") ELSE UNCHANGED upset
    /\ UNCHANGED <<taskOnly, moneyVars, goodsVars>>

InEffect(t) == panel' = [panel EXCEPT ![P(t)] = @ \cup {task[t].n}]

\* _create_service_users_on_targets, _apply_service_renewal_on_targets: the
\* primary server decides, its nodes are best effort.
PanelDone(t) ==
    /\ Step(t, "panel")
    /\ InEffect(t)
    /\ Goto(t, "store")
    /\ UNCHANGED <<taskOnly, moneyVars, services, upset>>

\* The call raises; the panel may have done it all the same.
PanelFails(t) ==
    /\ Step(t, "panel")
    /\ \/ UNCHANGED <<panel, upset>>
       \/ InEffect(t) /\ Upset(P(t), "lost")
    /\ IF P(t) \in Orders THEN Goto(t, "refund") ELSE Return(t, FALSE)
    /\ UNCHANGED <<taskOnly, moneyVars, services>>

\* The row of the service, the order and the payment, in one transaction.
Store(t) ==
    /\ Step(t, "store")
    /\ services' = [services EXCEPT ![P(t)] = @ \cup {task[t].n}]
    /\ Goto(t, "announce")
    /\ UNCHANGED <<taskOnly, moneyVars, panel, upset>>

\* The transaction raises: a new service is rolled back, a renewal stays.
StoreFails(t) ==
    /\ Step(t, "store")
    /\ IF P(t) \in renewal
         THEN Return(t, FALSE) /\ Upset(P(t), "store")
         ELSE Goto(t, "rollback") /\ UNCHANGED upset
    /\ UNCHANGED <<taskOnly, moneyVars, goodsVars>>

\* _deactivate_created_users: the refund only follows a complete rollback.
Rollback(t) ==
    /\ Step(t, "rollback")
    /\ \/ /\ panel' = [panel EXCEPT ![P(t)] = @ \ {task[t].n}]
          /\ IF P(t) \in Orders THEN Goto(t, "refund") ELSE Return(t, FALSE)
          /\ UNCHANGED upset
       \/ /\ Return(t, FALSE)
          /\ Upset(P(t), "store")
          /\ UNCHANGED panel
    /\ UNCHANGED <<taskOnly, moneyVars, services>>

\* Mutant: the refund is missing from the path of a failed panel call.
Mutant_Refund(t) ==
    /\ Step(t, "refund")
    /\ Return(t, FALSE)
    /\ UNCHANGED <<taskOnly, moneyVars, goodsVars, upset>>

\* increase_user_wallet
Refund(t) ==
    /\ Step(t, "refund")
    /\ balance' = balance + Price
    /\ refunded' = refunded \cup {P(t)}
    /\ Return(t, FALSE)
    /\ UNCHANGED <<taskOnly, charged, goodsVars, upset>>

\* It raises, which is only logged: the money is kept.
RefundRaises(t) ==
    /\ Step(t, "refund")
    /\ Return(t, FALSE)
    /\ Upset(P(t), "kept")
    /\ UNCHANGED <<taskOnly, moneyVars, goodsVars>>

\* The messages of a delivery; the first of them is not in a try block.
Announce(t) ==
    /\ Step(t, "announce")
    /\ Return(t, TRUE)
    /\ UNCHANGED <<taskOnly, moneyVars, goodsVars, upset>>

AnnounceRaises(t) ==
    /\ Step(t, "announce")
    /\ Return(t, P(t) \in Orders)
    /\ Upset(P(t), "announce")
    /\ UNCHANGED <<taskOnly, moneyVars, goodsVars>>

\* The result is written into the meta of a payment.  The count of tries is
\* the one read at the start, plus one.
Settle(t) ==
    /\ Step(t, "settle")
    /\ IF P(t) \in Direct
         THEN /\ meta' = [meta EXCEPT ![P(t)] =
                    IF task[t].ok THEN [done |-> "1", tries |-> @.tries, sid |-> task[t].n]
                                  ELSE [done |-> "err", tries |-> task[t].tries, sid |-> @.sid]]
              /\ UNCHANGED order
         ELSE /\ order' = [order EXCEPT ![P(t)] = IF task[t].ok THEN "done" ELSE "failed"]
              /\ UNCHANGED meta
    /\ task' = [task EXCEPT ![t] = Idle]
    /\ UNCHANGED <<notTheirs, crowded, status, moneyVars, goodsVars, begun, upset>>

\* _update_payment_receipt_meta swallows what its write raises: a payment stays
\* in "processing", without the service it was delivered.
SettleSwallowed(t) ==
    /\ Step(t, "settle")
    /\ P(t) \in Direct
    /\ Upset(P(t), "unwritten")
    /\ task' = [task EXCEPT ![t] = Idle]
    /\ UNCHANGED <<notTheirs, crowded, paymentVars, goodsAndMoney, begun>>

\* UserBot dies and is started again; a payment in processing stays so.
Crash ==
    /\ crashes < MaxCrashes
    /\ crashes' = crashes + 1
    /\ task' = [t \in Tasks |-> Idle]
    /\ thread' = NoMessage
    /\ upset' = [p \in Purchases |-> IF WorkedOn(p) THEN upset[p] \cup {"crash"} ELSE upset[p]]
    /\ UNCHANGED <<renewal, broken, crowded, paymentVars, goodsAndMoney, admin, begun, presses>>

-----------------------------------------------------------------------------
(* The thread of a bank message: approve_pending_card_payment_from_sms.    *)

threadOnly == <<renewal, broken, crowded, goodsAndMoney, task, admin, counters>>

SmsMatch(p) ==
    /\ thread.pc = "idle"
    /\ status[p] = "pending"
    /\ thread' = [NoMessage EXCEPT !.pc = "approve", !.p = p]
    /\ UNCHANGED <<threadOnly, paymentVars, upset>>

\* The status is no longer looked at: change_payment_status_with_wallet
\* approves a payment that was rejected meanwhile.
SmsApprove ==
    /\ thread.pc = "approve"
    /\ status' = [status EXCEPT ![thread.p] = "approved"]
    /\ thread' = [thread EXCEPT !.pc = "look"]
    /\ UNCHANGED <<threadOnly, meta, upset>>

\* _patch_payment_receipt_meta
SmsLook ==
    /\ thread.pc = "look"
    /\ thread' = [thread EXCEPT !.pc = "write", !.seen = meta[thread.p]]
    /\ UNCHANGED <<threadOnly, paymentVars, upset>>

SmsWrite ==
    /\ thread.pc = "write"
    /\ meta' = [meta EXCEPT ![thread.p] = thread.seen]
    /\ IF meta[thread.p] # thread.seen THEN Upset(thread.p, "erased") ELSE UNCHANGED upset
    /\ thread' = NoMessage
    /\ UNCHANGED <<threadOnly, status>>

\* The database raises: what is left of the request is not done.
SmsStops ==
    /\ thread.pc # "idle"
    /\ thread' = NoMessage
    /\ UNCHANGED <<threadOnly, paymentVars, upset>>

-----------------------------------------------------------------------------
(* AdminBot: the buttons that set a status.                                *)

adminOnly == <<renewal, broken, crowded, order, moneyVars, task, thread, begun, crashes>>

\* The status before is read first, and decides what follows the change.
AdminPress(p, target) ==
    /\ admin.pc = "idle"
    /\ presses < MaxPresses
    /\ presses' = presses + 1
    /\ status[p] # target
    /\ admin' = [NoPress EXCEPT !.pc = "change", !.p = p, !.target = target, !.prev = status[p]]
    /\ UNCHANGED <<adminOnly, paymentVars, goodsVars, upset>>

\* Mutant: what an approved payment delivered is left when it is un-approved.
Mutant_AfterChange(prev, target) == IF target = "approved" /\ prev = "rejected" THEN "reset" ELSE "idle"

AfterChange(prev, target) ==
    IF target = "approved"
      THEN IF prev = "rejected" THEN "reset" ELSE "idle"
      ELSE IF prev = "approved" THEN "revert" ELSE "idle"

AdminChange ==
    LET next == AfterChange(admin.prev, admin.target)
    IN /\ admin.pc = "change"
       /\ status' = [status EXCEPT ![admin.p] = admin.target]
       /\ admin' = IF next = "idle" THEN NoPress ELSE [admin EXCEPT !.pc = next]
       /\ \/ /\ admin.target # "approved"
             /\ WorkedOn(admin.p) \/ (status[admin.p] = "approved" /\ admin.prev # "approved")
             /\ Upset(admin.p, "erased")
          \/ /\ ~(/\ admin.target # "approved"
                  /\ WorkedOn(admin.p) \/ (status[admin.p] = "approved" /\ admin.prev # "approved"))
             /\ UNCHANGED upset
       /\ UNCHANGED <<adminOnly, meta, goodsVars, presses>>

\* _reset_direct_delivery_meta, so that the loop delivers again; the snapshot of
\* a renewal stays.
AdminReset ==
    /\ admin.pc = "reset"
    /\ meta' = [meta EXCEPT ![admin.p] =
          [Fresh EXCEPT !.sid = IF admin.p \in renewal THEN meta[admin.p].sid ELSE NoAttempt]]
    /\ IF meta[admin.p].done \in {"processing", "1"} THEN Upset(admin.p, "erased") ELSE UNCHANGED upset
    /\ admin' = NoPress
    /\ UNCHANGED <<adminOnly, status, goodsVars, presses>>

\* _revert_approved_payment: a payment without a delivered service, or without
\* the snapshot of its renewal, is only marked.
AdminRevert ==
    LET sid == meta[admin.p].sid
        found == sid # NoAttempt /\ (admin.p \in renewal \/ sid \in services[admin.p])
    IN /\ admin.pc = "revert"
       /\ admin' = [admin EXCEPT !.pc = IF found THEN "undo" ELSE "mark", !.sid = sid]
       /\ UNCHANGED <<adminOnly, paymentVars, goodsVars, presses, upset>>

\* The service is deleted from the panel and from the books; a renewal is
\* patched back to its snapshot, whatever was added to it since.
AdminUndo ==
    LET gone == IF admin.p \in renewal THEN Attempts ELSE {admin.sid}
    IN /\ admin.pc = "undo"
       /\ panel' = [panel EXCEPT ![admin.p] = @ \ gone]
       /\ services' = [services EXCEPT ![admin.p] = @ \ gone]
       /\ admin' = [admin EXCEPT !.pc = "mark"]
       /\ UNCHANGED <<adminOnly, paymentVars, presses, upset>>

\* One panel that answers is enough, be it a node's: the books follow, and the
\* primary server has what it had.
AdminUndoPartly ==
    LET gone == IF admin.p \in renewal THEN Attempts ELSE {admin.sid}
    IN /\ admin.pc = "undo"
       /\ services' = [services EXCEPT ![admin.p] = @ \ gone]
       /\ admin' = [admin EXCEPT !.pc = "mark"]
       /\ Upset(admin.p, "partial")
       /\ UNCHANGED <<adminOnly, paymentVars, panel, presses>>

\* No panel answered: the payment is approved again.
AdminUndoFails ==
    /\ admin.pc = "undo"
    /\ status' = [status EXCEPT ![admin.p] = "approved"]
    /\ admin' = NoPress
    /\ UNCHANGED <<adminOnly, meta, goodsVars, presses, upset>>

AdminMark ==
    /\ admin.pc = "mark"
    /\ meta' = [meta EXCEPT ![admin.p] =
          [done |-> "reverted", tries |-> @.tries, sid |-> IF admin.p \in renewal THEN @.sid ELSE NoAttempt]]
    /\ IF WorkedOn(admin.p) \/ status[admin.p] = "approved"
         THEN Upset(admin.p, "erased") ELSE UNCHANGED upset
    /\ admin' = NoPress
    /\ UNCHANGED <<adminOnly, status, goodsVars, presses>>

\* AdminBot is stopped, or its handler left by an exception.
AdminStops ==
    /\ admin.pc # "idle"
    /\ admin' = NoPress
    /\ IF admin.pc \in {"revert", "undo", "mark"} THEN Upset(admin.p, "stopped") ELSE UNCHANGED upset
    /\ UNCHANGED <<adminOnly, paymentVars, goodsVars, presses>>

-----------------------------------------------------------------------------
Init ==
    /\ renewal \in SUBSET Purchases
    /\ broken \in SUBSET Direct
    /\ crowded = {}
    /\ status = [p \in Direct |-> "pending"]
    /\ meta = [p \in Direct |-> Fresh]
    /\ order = [o \in Orders |-> "new"]
    /\ balance = Funds /\ charged = {} /\ refunded = {}
    /\ services = [p \in Purchases |-> {}]
    /\ panel = [p \in Purchases |-> {}]
    /\ task = [t \in Tasks |-> Idle]
    /\ admin = NoPress
    /\ thread = NoMessage
    /\ begun = [p \in Direct |-> 0] /\ presses = 0 /\ crashes = 0
    /\ upset = [p \in Purchases |-> {}]

TaskStep(t) ==
    \/ InvalidMeta(t) \/ Claim(t) \/ ClaimRaises(t)
    \/ Check(t) \/ Charge(t) \/ Recheck(t) \/ PanelDone(t) \/ PanelFails(t)
    \/ Store(t) \/ StoreFails(t) \/ Rollback(t) \/ Refund(t) \/ RefundRaises(t)
    \/ Announce(t) \/ AnnounceRaises(t) \/ Settle(t) \/ SettleSwallowed(t)

ThreadStep == SmsApprove \/ SmsLook \/ SmsWrite \/ SmsStops

AdminStep ==
    \/ AdminChange \/ AdminReset \/ AdminRevert
    \/ AdminUndo \/ AdminUndoPartly \/ AdminUndoFails \/ AdminMark \/ AdminStops

Next ==
    \/ \E p \in Direct : Crowd(p)
    \/ \E t \in Tasks, p \in Direct : ReadRow(t, p)
    \/ \E o \in Orders : StartOrder(o)
    \/ \E t \in Tasks : TaskStep(t)
    \/ \E p \in Direct : SmsMatch(p)
    \/ ThreadStep
    \/ \E p \in Direct : \E target \in Statuses : AdminPress(p, target)
    \/ AdminStep
    \/ Crash

Spec == Init /\ [][Next]_vars

\* The loop comes round every six seconds and looks at every row it has read, a
\* task that is not dead goes on, and so do AdminBot and the thread.  Nothing is
\* assumed of a payment that is out of the loop's view.
Fairness ==
    /\ \A t \in Tasks : WF_vars(TaskStep(t))
    /\ \A p \in Direct : SF_vars(ReadRow(Loop, p))
    /\ WF_vars(ThreadStep)
    /\ WF_vars(AdminStep)

FairSpec == Spec /\ Fairness

-----------------------------------------------------------------------------
MetaRecords == [done : DoneStates, tries : Nat, sid : Attempts \cup {NoAttempt}]

TypeOK ==
    /\ renewal \in SUBSET Purchases
    /\ broken \in SUBSET Direct /\ crowded \in SUBSET Direct
    /\ status \in [Direct -> Statuses]
    /\ meta \in [Direct -> MetaRecords]
    /\ order \in [Orders -> {"new", "running", "done", "failed"}]
    /\ balance \in Nat
    /\ charged \in SUBSET Orders /\ refunded \in SUBSET Orders
    /\ services \in [Purchases -> SUBSET (Attempts \cup {1})]
    /\ panel \in [Purchases -> SUBSET (Attempts \cup {1})]
    /\ task \in [Tasks -> [pc : TaskPCs, p : Purchases \cup {NoPurchase},
                           n : Attempts \cup {NoAttempt, 1}, tries : Nat, ok : BOOLEAN]]
    /\ admin \in [pc : {"idle", "change", "reset", "revert", "undo", "mark"},
                  p : Direct \cup {NoPurchase}, target : Statuses, prev : Statuses,
                  sid : Attempts \cup {NoAttempt}]
    /\ thread \in [pc : {"idle", "approve", "look", "write"}, p : Direct \cup {NoPurchase},
                   seen : MetaRecords]
    /\ begun \in [Direct -> 0..MaxAttempts]
    /\ presses \in 0..MaxPresses /\ crashes \in 0..MaxCrashes
    /\ upset \in [Purchases -> SUBSET Causes]

\* A payment is not delivered twice -- not by two tasks, not after a retry, not
\* when it is rejected and approved again -- except after one of the events
\* that upset a delivery: its message to the user raised, the books refused a
\* renewal, a panel's answer was lost, a write of the meta was swallowed, a
\* thread, AdminBot or a claim that raised wrote over the meta, it was
\* un-approved while it was delivered, UserBot or AdminBot stopped in between.
DeliveredOnce ==
    \A p \in Direct : Cardinality(panel[p]) > 1 => upset[p] # {}

\* What nobody is working on and is not approved has nothing on the panel,
\* unless one of those events happened, or the undo reached a node only.
NothingForFree ==
    \A p \in Direct : Untouched(p) /\ status[p] # "approved" /\ upset[p] = {} => panel[p] = {}

\* An order whose money went back has left nothing on the panel, unless the
\* panel's answer was lost; one that has failed kept the money only where the
\* code says it does: the books refused a renewal the panel has, a rollback is
\* not certain, the second look at the service said no, or the refund raised.
OrderSettled ==
    /\ \A o \in refunded : panel[o] = {} \/ "lost" \in upset[o]
    /\ \A o \in Orders : order[o] = "failed" /\ o \in charged \ refunded
           => upset[o] \cap {"store", "stale", "kept"} # {}

\* A payment that is approved is delivered, given up after its tries, or marked
\* as one that cannot be delivered, unless it is un-approved, or leaves the
\* loop's view, or something upset its delivery -- a crash, and a write that
\* was swallowed, leave it in "processing" for good.
GivenUp(p) == meta[p].done = "invalid" \/ (meta[p].done = "err" /\ meta[p].tries >= MaxTries)
Bounded(p) == Claimable(meta[p]) /\ begun[p] = MaxAttempts
EventuallyDelivered ==
    \A p \in Direct : status[p] = "approved"
        ~> \/ meta[p].done = "1" \/ GivenUp(p)
           \/ status[p] # "approved" \/ p \in crowded \/ upset[p] # {} \/ Bounded(p)
=============================================================================
