-------------------------- MODULE UserPurchaseProofs --------------------------
(***************************************************************************)
(* Purchases of the users of UserBot, for any number of card payments and  *)
(* orders, and with any number of retries, buttons and crashes.            *)
(***************************************************************************)
EXTENDS UserPurchase, FiniteSetTheorems, TLAPS

TaskRec == [pc : TaskPCs, p : Purchases \cup {NoPurchase}, n : Attempts \cup {NoAttempt, 1},
            tries : Nat, ok : BOOLEAN]
AdminPCs == {"idle", "change", "reset", "revert", "undo", "mark"}
AdminRec == [pc : AdminPCs, p : Direct \cup {NoPurchase}, target : Statuses, prev : Statuses,
             sid : Attempts \cup {NoAttempt}]
ThreadRec == [pc : {"idle", "approve", "look", "write"}, p : Direct \cup {NoPurchase},
              seen : MetaRecords]

-----------------------------------------------------------------------------
(***************************************************************************)
(* The inductive invariant.  An order runs once, in the Handler.  For a    *)
(* card payment, as long as nothing has upset its delivery: one task at a  *)
(* time delivers it, while the meta says "processing" and the status says  *)
(* "approved"; what is on the panel is that delivery, or the one the meta  *)
(* names; and when the status is taken back after a delivery, AdminBot is  *)
(* at work to undo it.                                                     *)
(***************************************************************************)
TaskOK(t) ==
    /\ task[t].pc = "idle" <=> P(t) = NoPurchase
    /\ task[t].pc = "row" => P(t) \in Direct
    /\ P(t) \in Direct =>
           /\ task[t].pc # "row" => task[t].n \in Attempts
           /\ task[t].pc \notin {"charge", "refund"}
    /\ P(t) \in Orders => t = Handler /\ task[t].n = 1 /\ order[P(t)] = "running"

TasksOK == \A t \in Tasks : TaskOK(t)

\* The thread and AdminBot work on card payments.
AboutOK ==
    /\ thread.pc # "idle" => thread.p \in Direct
    /\ admin.pc # "idle" => admin.p \in Direct

OrderOK(o) ==
    /\ panel[o] \subseteq {1}
    /\ o \notin charged => panel[o] = {} /\ o \notin refunded
    /\ order[o] = "new" => o \notin charged
    /\ o \in refunded => panel[o] = {} \/ "lost" \in upset[o]
    /\ order[o] = "failed" /\ o \in charged \ refunded => upset[o] \cap {"store", "stale", "kept"} # {}

OrdersOK == \A o \in Orders : OrderOK(o)

\* Where an order stands.
HandlerOK ==
    LET o == P(Handler)
        pc == task[Handler].pc
    IN o \in Orders =>
           /\ pc \in {"check", "charge"} => o \notin charged
           /\ pc \in {"panel", "store", "rollback", "refund", "announce"} => o \in charged \ refunded
           /\ pc = "recheck" => o \in charged \ refunded
           /\ pc \in {"recheck", "panel"} => panel[o] = {}
           /\ pc = "refund" => panel[o] = {} \/ "lost" \in upset[o]
           /\ pc = "settle" /\ ~task[Handler].ok /\ o \in charged \ refunded
                => upset[o] \cap {"store", "stale", "kept"} # {}

\* Nothing has upset the delivery of the payment.
Calm(p) == upset[p] = {}

\* What a task delivers: what it has claimed.
D(t) == IF task[t].pc = "row" THEN NoPurchase ELSE P(t)

\* The delivery of a payment by a task.
DeliveryOK(t) ==
    D(t) \in Direct /\ Calm(D(t)) =>
        /\ meta[D(t)].done = "processing"
        /\ status[D(t)] = "approved"
        /\ \A u \in Tasks : D(u) = D(t) => u = t
        /\ panel[D(t)] \subseteq {task[t].n}
        /\ task[t].pc \in {"check", "recheck", "panel"} => panel[D(t)] = {}
        /\ task[t].pc = "settle" /\ ~task[t].ok => panel[D(t)] = {}
        /\ task[t].pc = "announce" \/ (task[t].pc = "settle" /\ task[t].ok)
             => panel[D(t)] \subseteq services[D(t)]

DeliveriesOK == \A t \in Tasks : DeliveryOK(t)

\* A payment no task delivers.
AtRestOK(p) ==
    Calm(p) =>
        /\ meta[p].done = "processing" => WorkedOn(p)
        /\ p \in broken => meta[p].done \notin {"processing", "1"}
        /\ meta[p].done \in {"none", "err", "invalid", "reverted"} => panel[p] = {}
        /\ meta[p].done = "1" => /\ panel[p] \subseteq services[p] \cap {meta[p].sid}
                                 /\ meta[p].sid # NoAttempt
        /\ meta[p].done = "1" /\ status[p] # "approved"
             => admin.p = p /\ admin.pc \in {"revert", "undo", "mark"}

PaymentsAtRestOK == \A p \in Direct : AtRestOK(p)

\* AdminBot takes back what a payment that is no longer approved has delivered.
AdminOK ==
    admin.pc \in {"undo", "mark"} /\ Calm(admin.p) /\ status[admin.p] # "approved" =>
        /\ admin.pc = "undo" /\ meta[admin.p].done = "1" => admin.sid = meta[admin.p].sid
        /\ admin.pc = "mark" => panel[admin.p] = {}

Inv ==
    /\ TasksOK /\ AboutOK
    /\ OrdersOK /\ HandlerOK
    /\ DeliveriesOK /\ PaymentsAtRestOK /\ AdminOK

-----------------------------------------------------------------------------
(* Who writes what.                                                        *)

USE DEF Next, Crowd, ReadRow, InvalidMeta, Claim, ClaimRaises, ClaimOnly, StartOrder, TaskStep, Check, Charge, Recheck, PanelDone, PanelFails,
        Store, StoreFails, Rollback, Refund, RefundRaises, Announce, AnnounceRaises, Settle,
        SettleSwallowed, Crash, SmsMatch, SmsStops,
        ThreadStep, SmsApprove, SmsLook, SmsWrite, AdminPress, AdminStep, AdminChange, AdminReset,
        AdminRevert, AdminUndo, AdminUndoPartly, AdminUndoFails, AdminMark, AdminStops, vars, paymentVars, moneyVars,
        goodsVars, counters, taskOnly, threadOnly, adminOnly, goodsAndMoney, notTheirs

LEMMA TaskWriters ==
    ASSUME [Next]_vars
    PROVE  \/ task' = task
           \/ \E t \in Tasks, p \in Direct : ReadRow(t, p)
           \/ \E o \in Orders : StartOrder(o)
           \/ \E t \in Tasks : TaskStep(t)
           \/ Crash
OBVIOUS

LEMMA StatusWriters ==
    ASSUME [Next]_vars
    PROVE  \/ status' = status
           \/ \E p : \E s \in Statuses : status' = [status EXCEPT ![p] = s]
           \/ status' = [status EXCEPT ![admin.p] = admin.target]
BY DEF Statuses

LEMMA MetaWriters ==
    ASSUME [Next]_vars
    PROVE  \/ meta' = meta
           \/ \E t \in Tasks : InvalidMeta(t) \/ Claim(t) \/ ClaimRaises(t) \/ Settle(t)
           \/ thread.pc = "write" /\ meta' = [meta EXCEPT ![thread.p] = thread.seen]
           \/ AdminReset \/ AdminMark
OBVIOUS

LEMMA OrderWriters ==
    ASSUME [Next]_vars
    PROVE  \/ order' = order
           \/ \E o : \E s \in {"running", "done", "failed"} : order' = [order EXCEPT ![o] = s]
OBVIOUS

LEMMA MoneyWriters ==
    ASSUME [Next]_vars
    PROVE  \/ UNCHANGED moneyVars
           \/ \E t \in Tasks : Charge(t) \/ Refund(t)
OBVIOUS

LEMMA GoodsWriters ==
    ASSUME [Next]_vars
    PROVE  /\ \/ panel' = panel
              \/ \E t \in Tasks : task[t].pc = "panel" /\ InEffect(t)
              \/ \E p, gone : panel' = [panel EXCEPT ![p] = @ \ gone]
           /\ \/ services' = services
              \/ \E t \in Tasks : /\ task[t].pc = "store"
                                 /\ services' = [services EXCEPT ![P(t)] = @ \cup {task[t].n}]
              \/ \E p, gone : services' = [services EXCEPT ![p] = @ \ gone]
BY DEF Step

LEMMA UpsetWriters ==
    ASSUME [Next]_vars
    PROVE  \/ upset' = upset
           \/ \E p : \E cause \in Causes : Upset(p, cause)
           \/ upset' = [p \in Purchases |-> IF WorkedOn(p) THEN upset[p] \cup {"crash"} ELSE upset[p]]
BY DEF Causes

LEMMA AdminWriters ==
    ASSUME [Next]_vars
    PROVE  \/ admin' = admin \/ admin' = NoPress
           \/ \E p \in Direct : \E target \in Statuses : AdminPress(p, target)
           \/ \E pc \in {"reset", "revert", "mark"} : admin' = [admin EXCEPT !.pc = pc]
           \/ AdminRevert
BY DEF AfterChange

LEMMA ThreadWriters ==
    ASSUME [Next]_vars
    PROVE  \/ thread' = thread \/ thread' = NoMessage
           \/ \E p \in Direct : SmsMatch(p)
           \/ thread.pc = "approve" /\ thread' = [thread EXCEPT !.pc = "look"]
           \/ thread.pc = "look" /\ thread' = [thread EXCEPT !.pc = "write", !.seen = meta[thread.p]]
OBVIOUS

LEMMA CrowdWriters ==
    ASSUME [Next]_vars
    PROVE  crowded' = crowded \/ \E p \in Direct : Crowd(p)
OBVIOUS

LEMMA CountWriters ==
    ASSUME [Next]_vars
    PROVE  /\ presses' = presses \/ (presses < MaxPresses /\ presses' = presses + 1)
           /\ crashes' = crashes \/ (crashes < MaxCrashes /\ crashes' = crashes + 1)
           /\ renewal' = renewal /\ broken' = broken
           /\ \/ begun' = begun
              \/ \E p : begun[p] < MaxAttempts /\ begun' = [begun EXCEPT ![p] = @ + 1]
OBVIOUS

HIDE DEF Next, Crowd, ReadRow, InvalidMeta, Claim, ClaimRaises, ClaimOnly, StartOrder, TaskStep, Check, Charge, Recheck, PanelDone, PanelFails,
         Store, StoreFails, Rollback, Refund, RefundRaises, Announce, AnnounceRaises, Settle,
        SettleSwallowed, Crash, SmsMatch, SmsStops,
         ThreadStep, SmsApprove, SmsLook, SmsWrite, AdminPress, AdminStep, AdminChange, AdminReset,
         AdminRevert, AdminUndo, AdminUndoPartly, AdminUndoFails, AdminMark, AdminStops, vars, paymentVars, moneyVars,
         goodsVars, counters, taskOnly, threadOnly, adminOnly, goodsAndMoney, notTheirs

-----------------------------------------------------------------------------
(* The helpers the actions are made of.                                    *)

LEMMA Bounds ==
    /\ MaxAttempts \in Nat /\ MaxTries \in Nat /\ MaxPresses \in Nat /\ MaxCrashes \in Nat
    /\ Funds \in Nat /\ Price \in Nat /\ Price > 0
    /\ Direct \cap Orders = {} /\ Purchases = Direct \cup Orders /\ NoPurchase \notin Purchases
    /\ Loop # Handler /\ Tasks = {Loop, Handler}
BY PurchaseAssumption DEF Purchases, Tasks

LEMMA Idles ==
    /\ Idle \in TaskRec /\ Idle.pc = "idle" /\ Idle.p = NoPurchase
    /\ NoPress \in AdminRec /\ NoPress.pc = "idle" /\ NoPress.p = NoPurchase
    /\ NoMessage \in ThreadRec /\ NoMessage.pc = "idle" /\ NoMessage.p = NoPurchase
    /\ Fresh \in MetaRecords /\ Fresh.done = "none" /\ Fresh.tries = 0 /\ Fresh.sid = NoAttempt
BY Bounds DEF Idle, NoPress, NoMessage, Fresh, TaskRec, AdminRec, ThreadRec, MetaRecords, TaskPCs,
              AdminPCs, Statuses, DoneStates, NoAttempt

LEMMA TaskGoes ==
    ASSUME TypeOK, NEW t \in Tasks, NEW pc \in TaskPCs, Goto(t, pc)
    PROVE  /\ task' \in [Tasks -> TaskRec]
           /\ task'[t].pc = pc
           /\ task'[t].p = P(t) /\ task'[t].n = task[t].n /\ task'[t].tries = task[t].tries
           /\ \A u \in Tasks \ {t} : task'[u] = task[u]
<1>1. task \in [Tasks -> TaskRec] /\ task[t] \in TaskRec
    BY DEF TypeOK, TaskRec
<1>2. [task[t] EXCEPT !.pc = pc] \in TaskRec
    BY <1>1 DEF TaskRec
<1>3. task' = [task EXCEPT ![t] = [task[t] EXCEPT !.pc = pc]]
    BY <1>1 DEF Goto
<1> QED
    BY <1>1, <1>2, <1>3 DEF TaskRec, P

LEMMA TaskReturns ==
    ASSUME TypeOK, NEW t \in Tasks, NEW ok \in BOOLEAN, Return(t, ok)
    PROVE  /\ task' \in [Tasks -> TaskRec]
           /\ task'[t].pc = "settle" /\ task'[t].ok = ok
           /\ task'[t].p = P(t) /\ task'[t].n = task[t].n /\ task'[t].tries = task[t].tries
           /\ \A u \in Tasks \ {t} : task'[u] = task[u]
<1>1. task \in [Tasks -> TaskRec] /\ task[t] \in TaskRec /\ "settle" \in TaskPCs
    BY DEF TypeOK, TaskRec, TaskPCs
<1>2. [task[t] EXCEPT !.pc = "settle", !.ok = ok] \in TaskRec
    BY <1>1 DEF TaskRec
<1>3. task' = [task EXCEPT ![t] = [task[t] EXCEPT !.pc = "settle", !.ok = ok]]
    BY <1>1 DEF Return
<1> QED
    BY <1>1, <1>2, <1>3 DEF TaskRec, P

LEMMA TaskEnds ==
    ASSUME TypeOK, NEW t \in Tasks, task' = [task EXCEPT ![t] = Idle]
    PROVE  /\ task' \in [Tasks -> TaskRec]
           /\ task'[t] = Idle
           /\ \A u \in Tasks \ {t} : task'[u] = task[u]
BY Idles DEF TypeOK, TaskRec

\* Somebody is blamed: what was there is kept, and other purchases are not
\* touched.
LEMMA UpsetGrows ==
    ASSUME TypeOK, NEW p \in Purchases, NEW cause \in Causes, Upset(p, cause)
    PROVE  /\ upset'[p] = upset[p] \cup {cause} /\ cause \in upset'[p]
           /\ \A q \in Purchases \ {p} : upset'[q] = upset[q]
BY DEF Upset, TypeOK

-----------------------------------------------------------------------------
(* What a task's step does, before its last one.                           *)

\* The task goes on at pc, or is about to return ok.
Goes(t, pc) == task'[t].pc = pc
Ends(t, ok) == task'[t].pc = "settle" /\ task'[t].ok = ok

\* The steps of _process_wallet_purchase.
Works(t) ==
    \/ Check(t) \/ Charge(t) \/ Recheck(t) \/ PanelDone(t) \/ PanelFails(t)
    \/ Store(t) \/ StoreFails(t) \/ Rollback(t) \/ Refund(t) \/ RefundRaises(t)
    \/ Announce(t) \/ AnnounceRaises(t)

\* What becomes of a row that is read and not claimed.
Passes(t) == InvalidMeta(t) \/ ClaimRaises(t) \/ (Claim(t) /\ UNCHANGED begun)

\* The raised message ends an order well, and a card payment not.
LEMMA AnnounceReturns ==
    ASSUME NEW t \in Tasks, AnnounceRaises(t)
    PROVE  IF P(t) \in Orders THEN Return(t, TRUE) ELSE Return(t, FALSE)
<1>1. CASE P(t) \in Orders
    <2>1. (P(t) \in Orders) = TRUE
        BY <1>1
    <2> QED
        BY <1>1, <2>1 DEF AnnounceRaises
<1>2. CASE P(t) \notin Orders
    <2>1. (P(t) \in Orders) = FALSE
        BY <1>2
    <2> QED
        BY <1>2, <2>1 DEF AnnounceRaises
<1> QED
    BY <1>1, <1>2

LEMMA TaskStepMoves ==
    ASSUME TypeOK, TasksOK, NEW t \in Tasks, Works(t)
    PROVE  /\ task' \in [Tasks -> TaskRec]
           /\ task'[t].p = P(t) /\ task'[t].n = task[t].n /\ task'[t].tries = task[t].tries
           /\ task[t].pc # "row" /\ task'[t].pc \notin {"idle", "row"} /\ P(t) \in Purchases
           /\ \A u \in Tasks \ {t} : task'[u] = task[u]
           /\ UNCHANGED <<renewal, broken, status, meta, order, admin, thread, begun>>
<1>1. /\ \/ \E pc \in TaskPCs \ {"idle", "row"} : Goto(t, pc)
         \/ \E ok \in BOOLEAN : Return(t, ok)
      /\ UNCHANGED <<renewal, broken, status, meta, order, admin, thread, begun>>
      /\ task[t].pc \notin {"idle", "row"}
    BY AnnounceReturns DEF Works, Check, Charge, Recheck, PanelDone, PanelFails, Store, StoreFails, Rollback,
           Refund, RefundRaises, Announce, AnnounceRaises, taskOnly, paymentVars, counters, TaskPCs, Step
<1>2. P(t) \in Purchases
    BY <1>1 DEF TasksOK, TaskOK, TypeOK, P
<1>3. task'[t].pc \notin {"idle", "row"}
    BY <1>1, TaskGoes, TaskReturns
<1> QED
    BY <1>1, <1>2, <1>3, TaskGoes, TaskReturns

\* The delivery of a card payment.
LEMMA DirectMoves ==
    ASSUME TypeOK, TasksOK, NEW t \in Tasks, Works(t), P(t) \in Direct
    PROVE  LET p == P(t)  pc == task[t].pc  n == task[t].n
           IN /\ UNCHANGED moneyVars
              /\ \A q \in Purchases \ {p} : /\ panel'[q] = panel[q] /\ services'[q] = services[q]
                                            /\ upset'[q] = upset[q]
              /\ \/ upset'[p] # {} /\ task'[t].pc = "settle"
                 \/ /\ upset' = upset
                    /\ \/ /\ pc \in {"check", "recheck"} /\ UNCHANGED goodsVars
                          /\ Goes(t, "recheck") \/ Goes(t, "panel") \/ Ends(t, FALSE)
                       \/ /\ pc = "panel" /\ UNCHANGED services
                          /\ \/ panel'[p] = panel[p] \cup {n} /\ Goes(t, "store")
                             \/ panel'[p] = panel[p] /\ Ends(t, FALSE)
                       \/ /\ pc = "store" /\ UNCHANGED panel
                          /\ \/ services'[p] = services[p] \cup {n} /\ Goes(t, "announce")
                             \/ Goes(t, "rollback")
                       \/ /\ pc = "rollback" /\ UNCHANGED services
                          /\ panel'[p] = panel[p] \ {n} /\ Ends(t, FALSE)
                       \/ pc = "announce" /\ UNCHANGED goodsVars /\ Ends(t, TRUE)
<1> DEFINE p == P(t)
           n == task[t].n
<1>t. /\ p \in Purchases /\ p \notin Orders
      /\ panel \in [Purchases -> SUBSET (Attempts \cup {1})]
      /\ services \in [Purchases -> SUBSET (Attempts \cup {1})]
      /\ upset \in [Purchases -> SUBSET Causes]
    BY Bounds DEF TypeOK
<1>g. \A pc \in TaskPCs : Goto(t, pc) => task'[t].pc = pc
    BY TaskGoes
<1>r. \A ok \in BOOLEAN : Return(t, ok) => Ends(t, ok)
    BY TaskReturns DEF Ends
<1>u. \A cause \in Causes : Upset(p, cause)
          => upset'[p] # {} /\ \A q \in Purchases \ {p} : upset'[q] = upset[q]
    BY <1>t, UpsetGrows
<1>i. InEffect(t) => panel'[p] = panel[p] \cup {n} /\ \A q \in Purchases \ {p} : panel'[q] = panel[q]
    BY <1>t DEF InEffect
<1>c. {"recheck", "panel", "store", "announce", "rollback"} \subseteq TaskPCs
    BY DEF TaskPCs
<1>0. task[t].pc \notin {"charge", "refund"}
    BY DEF TasksOK, TaskOK
<1>1. CASE Check(t)
    BY <1>1, <1>t, <1>g, <1>r, <1>c DEF Check, Step, Goes, goodsVars
<1>2. CASE Recheck(t)
    BY <1>2, <1>t, <1>g, <1>r, <1>c DEF Recheck, Step, Goes, goodsVars
<1>3. CASE PanelDone(t)
    BY <1>3, <1>t, <1>g, <1>i, <1>c DEF PanelDone, Step, Goes
<1>4. CASE PanelFails(t)
    BY <1>4, <1>t, <1>r, <1>i, <1>u DEF PanelFails, Step, Ends, Causes
<1>5. CASE Store(t)
    BY <1>5, <1>t, <1>g, <1>c DEF Store, Step, Goes
<1>6. CASE StoreFails(t)
    BY <1>6, <1>t, <1>g, <1>r, <1>c, <1>u DEF StoreFails, Step, Goes, Ends, goodsVars, Causes
<1>7. CASE Rollback(t)
    BY <1>7, <1>t, <1>r, <1>u DEF Rollback, Step, Ends, Causes
<1>8. CASE Announce(t)
    BY <1>8, <1>r DEF Announce, Step, goodsVars
<1>9. CASE AnnounceRaises(t)
    BY <1>9, <1>t, <1>r, <1>u, AnnounceReturns DEF AnnounceRaises, Step, Ends, goodsVars, Causes
<1> QED
    BY <1>0, <1>1, <1>2, <1>3, <1>4, <1>5, <1>6, <1>7, <1>8, <1>9 DEF Works, Charge, Refund, RefundRaises, Step

\* The run of an order.
LEMMA OrderMoves ==
    ASSUME TypeOK, TasksOK, NEW t \in Tasks, Works(t), P(t) \in Orders
    PROVE  LET o == P(t)  pc == task[t].pc
           IN /\ \A q \in Purchases \ {o} : /\ panel'[q] = panel[q] /\ services'[q] = services[q]
                                            /\ upset'[q] = upset[q]
              /\ upset[o] \subseteq upset'[o]
              /\ \/ /\ pc = "check" /\ UNCHANGED <<moneyVars, panel>>
                    /\ Goes(t, "charge") \/ Ends(t, FALSE)
                 \/ /\ pc = "charge" /\ UNCHANGED <<refunded, panel>>
                    /\ \/ charged' = charged \cup {o} /\ (Goes(t, "recheck") \/ Goes(t, "panel"))
                       \/ UNCHANGED charged /\ Ends(t, FALSE)
                 \/ /\ pc = "recheck" /\ UNCHANGED <<moneyVars, panel>>
                    /\ Goes(t, "panel") \/ (Ends(t, FALSE) /\ "stale" \in upset'[o])
                 \/ /\ pc = "panel" /\ UNCHANGED moneyVars
                    /\ \/ panel'[o] = panel[o] \cup {1} /\ Goes(t, "store")
                       \/ panel'[o] = panel[o] /\ Goes(t, "refund")
                       \/ panel'[o] = panel[o] \cup {1} /\ Goes(t, "refund") /\ "lost" \in upset'[o]
                 \/ /\ pc = "store" /\ UNCHANGED <<moneyVars, panel>>
                    /\ \/ Goes(t, "announce") \/ Goes(t, "rollback")
                       \/ Ends(t, FALSE) /\ "store" \in upset'[o]
                 \/ /\ pc = "rollback" /\ UNCHANGED moneyVars
                    /\ \/ panel'[o] = panel[o] \ {1} /\ Goes(t, "refund")
                       \/ UNCHANGED panel /\ Ends(t, FALSE) /\ "store" \in upset'[o]
                 \/ /\ pc = "refund" /\ UNCHANGED <<charged, panel>>
                    /\ Ends(t, FALSE)
                    /\ refunded' = refunded \cup {o} \/ (UNCHANGED refunded /\ "kept" \in upset'[o])
                 \/ pc = "announce" /\ UNCHANGED <<moneyVars, panel>> /\ Ends(t, TRUE)
<1> DEFINE o == P(t)
<1>t. /\ o \in Purchases /\ task[t].n = 1
      /\ panel \in [Purchases -> SUBSET (Attempts \cup {1})]
      /\ services \in [Purchases -> SUBSET (Attempts \cup {1})]
      /\ upset \in [Purchases -> SUBSET Causes]
    BY Bounds DEF TypeOK, TasksOK, TaskOK
<1>g. \A pc \in TaskPCs : Goto(t, pc) => task'[t].pc = pc
    BY TaskGoes
<1>r. \A ok \in BOOLEAN : Return(t, ok) => Ends(t, ok)
    BY TaskReturns DEF Ends
<1>u. \A cause \in Causes : Upset(o, cause)
          => /\ upset[o] \subseteq upset'[o] /\ cause \in upset'[o]
             /\ \A q \in Purchases \ {o} : upset'[q] = upset[q]
    BY <1>t, UpsetGrows
<1>i. InEffect(t) => panel'[o] = panel[o] \cup {1} /\ \A q \in Purchases \ {o} : panel'[q] = panel[q]
    BY <1>t DEF InEffect
<1>c. {"charge", "recheck", "panel", "store", "announce", "rollback", "refund"} \subseteq TaskPCs
    BY DEF TaskPCs
<1>1. CASE Check(t)
    BY <1>1, <1>t, <1>g, <1>r, <1>c DEF Check, Step, Goes, goodsVars
<1>2. CASE Charge(t)
    BY <1>2, <1>t, <1>g, <1>r, <1>c DEF Charge, Step, Goes, goodsVars
<1>3. CASE Recheck(t)
    BY <1>3, <1>t, <1>g, <1>r, <1>c, <1>u DEF Recheck, Step, Goes, goodsVars, Causes
<1>4. CASE PanelDone(t)
    BY <1>4, <1>t, <1>g, <1>i, <1>c DEF PanelDone, Step, Goes
<1>5. CASE PanelFails(t)
    BY <1>5, <1>t, <1>g, <1>i, <1>c, <1>u DEF PanelFails, Step, Goes, Causes
<1>6. CASE Store(t)
    BY <1>6, <1>t, <1>g, <1>c DEF Store, Step, Goes
<1>7. CASE StoreFails(t)
    BY <1>7, <1>t, <1>g, <1>r, <1>c, <1>u DEF StoreFails, Step, Goes, goodsVars, Causes
<1>8. CASE Rollback(t)
    BY <1>8, <1>t, <1>g, <1>r, <1>c, <1>u DEF Rollback, Step, Goes, Causes
<1>9. CASE Refund(t)
    BY <1>9, <1>t, <1>r DEF Refund, Step, goodsVars
<1>10. CASE Announce(t)
    BY <1>10, <1>t, <1>r DEF Announce, Step, goodsVars
<1>11. CASE AnnounceRaises(t)
    BY <1>11, <1>t, <1>r, <1>u, AnnounceReturns DEF AnnounceRaises, Step, goodsVars, Causes
<1>12. CASE RefundRaises(t)
    BY <1>12, <1>t, <1>r, <1>u DEF RefundRaises, Step, goodsVars, moneyVars, Causes
<1> QED
    BY <1>1, <1>2, <1>3, <1>4, <1>5, <1>6, <1>7, <1>8, <1>9, <1>10, <1>11, <1>12 DEF Works

\* A row is read.
LEMMA ReadMoves ==
    ASSUME TypeOK, NEW t \in Tasks, NEW p \in Direct, ReadRow(t, p)
    PROVE  /\ task[t].pc = "idle"
           /\ task' \in [Tasks -> TaskRec]
           /\ task'[t].p = p /\ task'[t].pc = "row"
           /\ \A u \in Tasks \ {t} : task'[u] = task[u]
           /\ UNCHANGED <<renewal, broken, paymentVars, order, moneyVars, goodsVars, admin, thread, begun,
                          upset>>
<1> DEFINE r == [Idle EXCEPT !.pc = "row", !.p = p, !.tries = Counted(meta[p])]
<1>1. /\ task[t].pc = "idle"
      /\ task' = [task EXCEPT ![t] = r]
      /\ UNCHANGED <<renewal, broken, paymentVars, order, moneyVars, goodsVars, admin, thread, begun, upset>>
    BY DEF ReadRow, Step, notTheirs, goodsAndMoney
<1>2. task \in [Tasks -> TaskRec] /\ meta[p].tries + 1 \in Nat /\ p \in Purchases
    BY Bounds DEF TypeOK, TaskRec, MetaRecords
<1>3. r \in TaskRec /\ r.p = p /\ r.pc = "row"
    BY <1>2, Idles DEF TaskRec, TaskPCs, Counted
<1> HIDE DEF r
<1> QED
    BY <1>1, <1>2, <1>3

\* A delivery begins.
LEMMA ClaimMoves ==
    ASSUME TypeOK, TasksOK, NEW t \in Tasks, Claim(t), begun' # begun
    PROVE  LET p == P(t)
           IN /\ task[t].pc = "row" /\ p \in Direct /\ p \notin broken
              /\ status[p] = "approved" /\ Claimable(meta[p])
              /\ task' \in [Tasks -> TaskRec]
              /\ task'[t].p = p /\ task'[t].pc \in {"check", "panel"} /\ task'[t].n \in Attempts
              /\ \A u \in Tasks \ {t} : task'[u] = task[u]
              /\ meta' \in [Direct -> MetaRecords]
              /\ meta'[p].done = "processing"
              /\ \A q \in Direct \ {p} : meta'[q] = meta[q]
              /\ begun' \in [Direct -> 0..MaxAttempts]
              /\ UNCHANGED <<renewal, broken, status, order, moneyVars, goodsVars, admin, thread, upset>>
<1> DEFINE p == P(t)
           pc == IF p \in renewal THEN "check" ELSE "panel"
           r == [task[t] EXCEPT !.pc = pc, !.n = begun[p] + 1]
<1>1. /\ task[t].pc = "row" /\ p \notin broken
      /\ status[p] = "approved" /\ Claimable(meta[p])
      /\ begun[p] < MaxAttempts
      /\ meta' = [meta EXCEPT ![p].done = "processing"]
      /\ begun' = [begun EXCEPT ![p] = @ + 1]
      /\ task' = [task EXCEPT ![t].pc = pc, ![t].n = begun[p] + 1]
      /\ UNCHANGED <<renewal, broken, status, order, moneyVars, goodsVars, admin, thread, upset>>
    BY DEF Claim, Step, ClaimOnly, notTheirs, goodsAndMoney
<1>2. p \in Direct
    BY <1>1 DEF TasksOK, TaskOK
<1>3. /\ task \in [Tasks -> TaskRec] /\ begun \in [Direct -> 0..MaxAttempts]
      /\ meta[p] \in MetaRecords /\ meta \in [Direct -> MetaRecords]
      /\ begun[p] \in 0..MaxAttempts
    BY <1>2 DEF TypeOK, TaskRec
<1>4. begun[p] + 1 \in Attempts /\ begun[p] + 1 \in 0..MaxAttempts
    BY <1>1, <1>3, Bounds DEF Attempts
<1>5. pc \in {"check", "panel"} /\ pc \in TaskPCs
    BY DEF TaskPCs
<1> HIDE DEF pc
<1>6. r \in TaskRec /\ r.p = p /\ r.pc = pc /\ r.n = begun[p] + 1
    BY <1>3, <1>4, <1>5 DEF TaskRec, P
<1>7. task' = [task EXCEPT ![t] = r]
    BY <1>1, <1>3
<1> HIDE DEF r
<1>8. task' \in [Tasks -> TaskRec] /\ task'[t] = r /\ \A u \in Tasks \ {t} : task'[u] = task[u]
    BY <1>3, <1>6, <1>7
<1>9. begun' \in [Direct -> 0..MaxAttempts]
    BY <1>1, <1>2, <1>3, <1>4
<1>10. /\ meta' \in [Direct -> MetaRecords]
       /\ meta'[p].done = "processing"
       /\ \A q \in Direct \ {p} : meta'[q] = meta[q]
    <2>1. [meta[p] EXCEPT !.done = "processing"] \in MetaRecords
        BY <1>3 DEF MetaRecords, DoneStates
    <2>2. meta' = [meta EXCEPT ![p] = [meta[p] EXCEPT !.done = "processing"]]
        BY <1>1, <1>3
    <2> QED
        BY <1>2, <1>3, <2>1, <2>2 DEF MetaRecords
<1> QED
    BY <1>1, <1>2, <1>4, <1>5, <1>6, <1>8, <1>9, <1>10

\* A row is left: nothing is written, or the payment is marked as failed; that
\* is blamed if it takes the mark of a delivery away, or was swallowed.
LEMMA PassMoves ==
    ASSUME TypeOK, TasksOK, NEW t \in Tasks, Passes(t)
    PROVE  LET p == P(t)
           IN /\ task[t].pc = "row" /\ p \in Direct /\ p \in Purchases
              /\ task' \in [Tasks -> TaskRec] /\ task'[t] = Idle
              /\ \A u \in Tasks \ {t} : task'[u] = task[u]
              /\ meta' \in [Direct -> MetaRecords]
              /\ \A q \in Direct \ {p} : meta'[q] = meta[q]
              /\ \A q \in Purchases \ {p} : upset'[q] = upset[q]
              /\ \/ meta' = meta /\ (upset' = upset \/ upset'[p] # {})
                 \/ upset'[p] # {}
                 \/ /\ upset' = upset /\ meta'[p].done \in {"err", "invalid"}
                    /\ p \in broken \/ meta[p].done \notin {"processing", "1"}
              /\ UNCHANGED <<renewal, broken, status, order, moneyVars, goodsVars, admin, thread, begun>>
<1> DEFINE p == P(t)
           m == [meta[p] EXCEPT !.done = "err", !.tries = task[t].tries]
           i == [meta[p] EXCEPT !.done = "invalid"]
<1>1. /\ task[t].pc = "row" /\ task' = [task EXCEPT ![t] = Idle]
      /\ UNCHANGED <<renewal, broken, status, order, moneyVars, goodsVars, admin, thread, begun>>
    <2>1. CASE Claim(t) /\ UNCHANGED begun
        <3>1. p \in Direct
            BY <2>1 DEF Claim, Step, TasksOK, TaskOK
        <3>2. begun[p] \in Nat /\ begun \in [Direct -> 0..MaxAttempts]
            BY <3>1, Bounds DEF TypeOK
        <3>3. begun # [begun EXCEPT ![p] = @ + 1]
            BY <3>1, <3>2
        <3> QED
            BY <2>1, <3>3 DEF Claim, Step, ClaimOnly, notTheirs, goodsAndMoney
    <2> QED
        BY <2>1 DEF Passes, InvalidMeta, ClaimRaises, Step, ClaimOnly, notTheirs, goodsAndMoney
<1>2. p \in Direct /\ p \in Purchases
    BY <1>1, Bounds DEF TasksOK, TaskOK
<1>3. meta \in [Direct -> MetaRecords] /\ meta[p] \in MetaRecords /\ task[t].tries \in Nat
    BY <1>2 DEF TypeOK
<1>4. \/ meta' = meta /\ (upset' = upset \/ Upset(p, "unwritten"))
      \/ /\ meta' = [meta EXCEPT ![p] = i] /\ upset' = upset /\ p \in broken
      \/ /\ meta' = [meta EXCEPT ![p] = m]
         /\ IF meta[p].done \in {"processing", "1"} THEN Upset(p, "erased") ELSE upset' = upset
    <2>1. CASE InvalidMeta(t)
        BY <1>3, <2>1 DEF InvalidMeta
    <2>2. CASE ClaimRaises(t)
        BY <1>3, <2>2 DEF ClaimRaises
    <2>3. CASE Claim(t) /\ UNCHANGED begun
        <3>1. begun[p] \in Nat /\ begun \in [Direct -> 0..MaxAttempts]
            BY <1>2, Bounds DEF TypeOK
        <3>2. begun # [begun EXCEPT ![p] = @ + 1]
            BY <1>2, <3>1
        <3> QED
            BY <2>3, <3>2 DEF Claim
    <2> QED
        BY <2>1, <2>2, <2>3 DEF Passes
<1>5. m \in MetaRecords /\ m.done = "err" /\ i \in MetaRecords /\ i.done = "invalid"
    BY <1>3 DEF MetaRecords, DoneStates
<1> HIDE DEF m, i
<1>6. /\ meta' \in [Direct -> MetaRecords]
      /\ \A q \in Direct \ {p} : meta'[q] = meta[q]
      /\ meta' = meta \/ meta'[p] = m \/ meta'[p] = i
    BY <1>2, <1>3, <1>4, <1>5
<1>7. /\ \A q \in Purchases \ {p} : upset'[q] = upset[q]
      /\ upset' = upset \/ upset'[p] # {}
    <2>1. \A cause \in Causes : Upset(p, cause)
              => upset'[p] # {} /\ \A q \in Purchases \ {p} : upset'[q] = upset[q]
        BY <1>2, UpsetGrows
    <2> QED
        BY <1>4, <2>1 DEF Causes
<1>8. \/ meta' = meta /\ (upset' = upset \/ upset'[p] # {})
      \/ upset'[p] # {}
      \/ /\ upset' = upset /\ meta'[p].done \in {"err", "invalid"}
         /\ p \in broken \/ meta[p].done \notin {"processing", "1"}
    <2>1. \A cause \in Causes : Upset(p, cause) => upset'[p] # {}
        BY <1>2, UpsetGrows
    <2> QED
        BY <1>2, <1>3, <1>4, <1>5, <2>1 DEF Causes
<1> QED
    BY <1>1, <1>2, <1>6, <1>7, <1>8, TaskEnds

\* An order begins.
LEMMA OrderStarts ==
    ASSUME TypeOK, NEW o \in Orders, StartOrder(o)
    PROVE  /\ order[o] = "new" /\ order' = [order EXCEPT ![o] = "running"]
           /\ task[Handler].pc = "idle"
           /\ task' \in [Tasks -> TaskRec]
           /\ task'[Handler].p = o /\ task'[Handler].pc \in {"check", "charge"}
           /\ task'[Handler].n = 1
           /\ \A u \in Tasks \ {Handler} : task'[u] = task[u]
           /\ UNCHANGED <<renewal, broken, paymentVars, moneyVars, goodsVars, admin, thread, begun, upset>>
<1> DEFINE r == [pc |-> IF o \in renewal THEN "check" ELSE "charge", p |-> o, n |-> 1,
                 tries |-> 0, ok |-> FALSE]
<1>1. /\ order[o] = "new" /\ order' = [order EXCEPT ![o] = "running"]
      /\ task[Handler].pc = "idle"
      /\ task' = [task EXCEPT ![Handler] = r]
      /\ UNCHANGED <<renewal, broken, paymentVars, moneyVars, goodsVars, admin, thread, begun, upset>>
    BY DEF StartOrder, Step, notTheirs
<1>2. o \in Purchases /\ Handler \in Tasks
    BY Bounds
<1>3. r \in TaskRec /\ r.p = o /\ r.pc \in {"check", "charge"} /\ r.n = 1
    BY <1>2 DEF TaskRec, TaskPCs
<1> HIDE DEF r
<1>4. task \in [Tasks -> TaskRec]
    BY DEF TypeOK, TaskRec
<1> QED
    BY <1>1, <1>2, <1>3, <1>4

\* The result of a purchase is written down.
LEMMA SettleMoves ==
    ASSUME TypeOK, TasksOK, NEW t \in Tasks, Settle(t)
    PROVE  LET p == P(t)
           IN /\ task[t].pc = "settle" /\ p \in Purchases
              /\ task' \in [Tasks -> TaskRec] /\ task'[t] = Idle
              /\ \A u \in Tasks \ {t} : task'[u] = task[u]
              /\ UNCHANGED <<renewal, broken, status, moneyVars, goodsVars, admin, thread, begun, upset>>
              /\ p \in Direct =>
                     /\ UNCHANGED order
                     /\ meta' \in [Direct -> MetaRecords]
                     /\ \A q \in Direct \ {p} : meta'[q] = meta[q]
                     /\ \/ task[t].ok /\ meta'[p].done = "1" /\ meta'[p].sid = task[t].n
                        \/ ~task[t].ok /\ meta'[p].done = "err"
              /\ p \in Orders =>
                     /\ UNCHANGED meta
                     /\ order' = [order EXCEPT ![p] = IF task[t].ok THEN "done" ELSE "failed"]
<1> DEFINE p == P(t)
           new == IF task[t].ok THEN [done |-> "1", tries |-> meta[p].tries, sid |-> task[t].n]
                                ELSE [done |-> "err", tries |-> task[t].tries, sid |-> meta[p].sid]
<1>1. /\ task[t].pc = "settle"
      /\ task' = [task EXCEPT ![t] = Idle]
      /\ UNCHANGED <<renewal, broken, status, moneyVars, goodsVars, admin, thread, begun, upset>>
    BY DEF Settle, Step, notTheirs
<1>2. p \in Purchases
    BY <1>1 DEF TasksOK, TaskOK, TypeOK, P
<1>3. ASSUME p \in Direct
      PROVE  /\ UNCHANGED order
             /\ meta' \in [Direct -> MetaRecords]
             /\ \A q \in Direct \ {p} : meta'[q] = meta[q]
             /\ \/ task[t].ok /\ meta'[p].done = "1" /\ meta'[p].sid = task[t].n
                \/ ~task[t].ok /\ meta'[p].done = "err"
    <2>1. meta \in [Direct -> MetaRecords] /\ meta[p] \in MetaRecords
        BY <1>3 DEF TypeOK
    <2>2. task[t].n \in Attempts /\ task[t].tries \in Nat
        BY <1>1, <1>3 DEF TasksOK, TaskOK, TypeOK
    <2>3. new \in MetaRecords
        BY <2>1, <2>2 DEF MetaRecords, DoneStates
    <2>4. \/ task[t].ok /\ new.done = "1" /\ new.sid = task[t].n
          \/ ~task[t].ok /\ new.done = "err"
        OBVIOUS
    <2>5. UNCHANGED order /\ meta' = [meta EXCEPT ![p] = new]
        BY <1>3, <2>1 DEF Settle
    <2> HIDE DEF new
    <2> QED
        BY <1>3, <2>1, <2>3, <2>4, <2>5
<1>4. ASSUME p \in Orders
      PROVE  /\ UNCHANGED meta
             /\ order' = [order EXCEPT ![p] = IF task[t].ok THEN "done" ELSE "failed"]
    BY <1>4, Bounds DEF Settle
<1> QED
    BY <1>1, <1>2, <1>3, <1>4, TaskEnds

\* It is not.
LEMMA SwallowMoves ==
    ASSUME TypeOK, NEW t \in Tasks, SettleSwallowed(t)
    PROVE  /\ task[t].pc = "settle" /\ P(t) \in Direct
           /\ task' \in [Tasks -> TaskRec] /\ task'[t] = Idle
           /\ \A u \in Tasks \ {t} : task'[u] = task[u]
           /\ upset'[P(t)] # {} /\ \A q \in Purchases \ {P(t)} : upset'[q] = upset[q]
           /\ UNCHANGED <<renewal, broken, paymentVars, order, moneyVars, goodsVars, admin, thread, begun>>
<1>1. /\ task[t].pc = "settle" /\ P(t) \in Direct /\ Upset(P(t), "unwritten")
      /\ task' = [task EXCEPT ![t] = Idle]
      /\ UNCHANGED <<renewal, broken, paymentVars, order, moneyVars, goodsVars, admin, thread, begun>>
    BY DEF SettleSwallowed, Step, notTheirs, goodsAndMoney
<1>2. P(t) \in Purchases /\ "unwritten" \in Causes
    BY <1>1, Bounds DEF Causes
<1>3. upset'[P(t)] # {} /\ \A q \in Purchases \ {P(t)} : upset'[q] = upset[q]
    BY <1>1, <1>2, UpsetGrows
<1> QED
    BY <1>1, <1>3, TaskEnds

LEMMA StepKinds ==
    ASSUME NEW t \in Tasks, TaskStep(t)
    PROVE  \/ Works(t) \/ Passes(t) \/ Settle(t) \/ SettleSwallowed(t)
           \/ Claim(t) /\ begun' # begun
BY DEF TaskStep, Works, Passes

\* UserBot dies: what it worked on is upset.
LEMMA CrashMoves ==
    ASSUME TypeOK, Crash
    PROVE  /\ task' \in [Tasks -> TaskRec] /\ \A t \in Tasks : task'[t] = Idle
           /\ thread' = NoMessage
           /\ \A p \in Purchases : /\ upset[p] \subseteq upset'[p]
                                   /\ IF WorkedOn(p) THEN upset'[p] # {} ELSE upset'[p] = upset[p]
           /\ UNCHANGED <<renewal, broken, paymentVars, order, moneyVars, goodsVars, admin, begun>>
BY Idles DEF Crash, TypeOK, goodsAndMoney

-----------------------------------------------------------------------------
(* Type correctness.                                                       *)

LEMMA TypeStep ==
    ASSUME TypeOK, TasksOK, AboutOK, [Next]_vars
    PROVE  TypeOK'
<1>1. task' \in [Tasks -> TaskRec]
    <2>1. CASE task' = task
        BY <2>1 DEF TypeOK, TaskRec
    <2>2. ASSUME NEW t \in Tasks, TaskStep(t) PROVE task' \in [Tasks -> TaskRec]
        BY <2>2, StepKinds, TaskStepMoves, ClaimMoves, PassMoves, SettleMoves, SwallowMoves
    <2> QED
        BY <2>1, <2>2, TaskWriters, ReadMoves, OrderStarts, CrashMoves
<1>2. admin' \in AdminRec
    <2>1. admin \in AdminRec
        BY DEF TypeOK, AdminRec, AdminPCs
    <2>2. ASSUME NEW p \in Direct, NEW target \in Statuses, AdminPress(p, target)
          PROVE  admin' \in AdminRec
        <3>1. status[p] \in Statuses
            BY DEF TypeOK
        <3>2. [NoPress EXCEPT !.pc = "change", !.p = p, !.target = target, !.prev = status[p]] \in AdminRec
            BY <3>1, Idles DEF AdminRec, AdminPCs
        <3> QED
            BY <2>2, <3>2 DEF AdminPress
    <2>3. \A pc \in {"reset", "revert", "mark"} : [admin EXCEPT !.pc = pc] \in AdminRec
        BY <2>1 DEF AdminRec, AdminPCs
    <2>4. CASE AdminRevert
        <3>1. meta[admin.p].sid \in Attempts \cup {NoAttempt}
            BY <2>4 DEF AdminRevert, TypeOK, AboutOK, MetaRecords
        <3>2. \A pc \in {"undo", "mark"} : [admin EXCEPT !.pc = pc, !.sid = meta[admin.p].sid] \in AdminRec
            BY <2>1, <3>1 DEF AdminRec, AdminPCs
        <3> QED
            BY <2>4, <3>2 DEF AdminRevert
    <2> QED
        BY <2>1, <2>2, <2>3, <2>4, AdminWriters, Idles
<1>3. thread' \in ThreadRec
    <2>1. thread \in ThreadRec
        BY DEF TypeOK, ThreadRec
    <2>2. ASSUME NEW p \in Direct, SmsMatch(p) PROVE thread' \in ThreadRec
        <3>1. [NoMessage EXCEPT !.pc = "approve", !.p = p] \in ThreadRec
            BY Idles DEF ThreadRec
        <3> QED
            BY <2>2, <3>1 DEF SmsMatch
    <2>3. [thread EXCEPT !.pc = "look"] \in ThreadRec
        BY <2>1 DEF ThreadRec
    <2>4. CASE thread.pc = "look" /\ thread' = [thread EXCEPT !.pc = "write", !.seen = meta[thread.p]]
        <3>1. meta[thread.p] \in MetaRecords
            BY <2>4 DEF TypeOK, AboutOK
        <3>2. [thread EXCEPT !.pc = "write", !.seen = meta[thread.p]] \in ThreadRec
            BY <2>1, <3>1 DEF ThreadRec
        <3> QED
            BY <2>4, <3>2
    <2> QED
        BY <2>1, <2>2, <2>3, <2>4, ThreadWriters, Idles
<1>4. status' \in [Direct -> Statuses]
    BY StatusWriters DEF TypeOK
<1>5. meta' \in [Direct -> MetaRecords]
    <2>1. meta \in [Direct -> MetaRecords]
        BY DEF TypeOK
    <2>2. ASSUME NEW t \in Tasks, Settle(t) PROVE meta' \in [Direct -> MetaRecords]
        BY <2>1, <2>2, SettleMoves, Bounds
    <2>3. CASE AdminMark
        <3> DEFINE new == [done |-> "reverted", tries |-> meta[admin.p].tries,
                           sid |-> IF admin.p \in renewal THEN meta[admin.p].sid ELSE NoAttempt]
        <3>1. admin.p \in Direct /\ meta[admin.p] \in MetaRecords
            BY <2>3 DEF AdminMark, AboutOK, TypeOK
        <3>2. new \in MetaRecords
            BY <3>1 DEF MetaRecords, DoneStates
        <3>3. meta' = [meta EXCEPT ![admin.p] = new]
            BY <2>1, <2>3, <3>1 DEF AdminMark
        <3> QED
            BY <2>1, <3>2, <3>3
    <2>4. CASE thread.pc = "write" /\ meta' = [meta EXCEPT ![thread.p] = thread.seen]
        BY <2>1, <2>4 DEF TypeOK
    <2>5. CASE AdminReset
        <3> DEFINE new == [Fresh EXCEPT !.sid = IF admin.p \in renewal THEN meta[admin.p].sid ELSE NoAttempt]
        <3>1. admin.p \in Direct /\ meta[admin.p] \in MetaRecords
            BY <2>5 DEF AdminReset, AboutOK, TypeOK
        <3>2. new \in MetaRecords
            BY <3>1, Idles DEF MetaRecords, NoAttempt
        <3>3. meta' = [meta EXCEPT ![admin.p] = new]
            BY <2>5 DEF AdminReset
        <3> QED
            BY <2>1, <3>2, <3>3
    <2>6. ASSUME NEW t \in Tasks, InvalidMeta(t) \/ Claim(t) \/ ClaimRaises(t)
          PROVE  meta' \in [Direct -> MetaRecords]
        BY <2>6, ClaimMoves, PassMoves DEF Passes
    <2> QED
        BY <2>1, <2>2, <2>3, <2>4, <2>5, <2>6, MetaWriters
<1>6. order' \in [Orders -> {"new", "running", "done", "failed"}]
    BY OrderWriters DEF TypeOK
<1>7. balance' \in Nat /\ charged' \in SUBSET Orders /\ refunded' \in SUBSET Orders
    <2>1. ASSUME NEW t \in Tasks, Charge(t) \/ Refund(t)
          PROVE  balance' \in Nat /\ charged' \in SUBSET Orders /\ refunded' \in SUBSET Orders
        <3>1. P(t) \in Orders
            BY <2>1 DEF Charge, Refund, Step, TasksOK, TaskOK, TypeOK, P, Purchases
        <3>2. charged' \in SUBSET Orders /\ refunded' \in SUBSET Orders
            BY <2>1, <3>1 DEF Charge, Refund, TypeOK
        <3>3. balance' = balance \/ balance' = balance + Price
              \/ (balance >= Price /\ balance' = balance - Price)
            BY <2>1 DEF Charge, Refund
        <3>4. balance' \in Nat
            BY <3>3, Bounds DEF TypeOK
        <3> QED
            BY <3>2, <3>4
    <2> QED
        BY <2>1, MoneyWriters DEF moneyVars, TypeOK
<1>8. /\ panel' \in [Purchases -> SUBSET (Attempts \cup {1})]
      /\ services' \in [Purchases -> SUBSET (Attempts \cup {1})]
    <2>1. \A t \in Tasks : task[t].pc # "row" /\ P(t) \in Purchases => task[t].n \in Attempts \cup {1}
        BY DEF TasksOK, TaskOK, Purchases
    <2>2. ASSUME NEW f \in [Purchases -> SUBSET (Attempts \cup {1})], NEW p, NEW gone
          PROVE  [f EXCEPT ![p] = @ \ gone] \in [Purchases -> SUBSET (Attempts \cup {1})]
        OBVIOUS
    <2>3. ASSUME NEW f \in [Purchases -> SUBSET (Attempts \cup {1})], NEW t \in Tasks,
                 task[t].pc # "row"
          PROVE  [f EXCEPT ![P(t)] = @ \cup {task[t].n}] \in [Purchases -> SUBSET (Attempts \cup {1})]
        <3>1. P(t) \in Purchases => task[t].n \in Attempts \cup {1}
            BY <2>1, <2>3
        <3> QED
            BY <3>1
    <2>4. /\ panel \in [Purchases -> SUBSET (Attempts \cup {1})]
          /\ services \in [Purchases -> SUBSET (Attempts \cup {1})]
        BY DEF TypeOK
    <2>5. panel' \in [Purchases -> SUBSET (Attempts \cup {1})]
        BY <2>2, <2>3, <2>4, GoodsWriters DEF InEffect
    <2>6. services' \in [Purchases -> SUBSET (Attempts \cup {1})]
        BY <2>2, <2>3, <2>4, GoodsWriters
    <2> QED
        BY <2>5, <2>6
<1>9. upset' \in [Purchases -> SUBSET Causes]
    BY UpsetWriters DEF TypeOK, Upset, Causes
<1>10. begun' \in [Direct -> 0..MaxAttempts]
    BY CountWriters, Bounds DEF TypeOK
<1>11. presses' \in 0..MaxPresses
    BY CountWriters, Bounds DEF TypeOK
<1>12. crashes' \in 0..MaxCrashes
    BY CountWriters, Bounds DEF TypeOK
<1>13. renewal' \in SUBSET Purchases /\ broken' \in SUBSET Direct
    BY CountWriters DEF TypeOK
<1>14. crowded' \in SUBSET Direct
    BY CrowdWriters DEF Crowd, TypeOK
<1> QED
    BY <1>1, <1>2, <1>3, <1>4, <1>5, <1>6, <1>7, <1>8, <1>9, <1>10, <1>11, <1>12, <1>13, <1>14
    DEF TypeOK, TaskRec, AdminRec, AdminPCs, ThreadRec

-----------------------------------------------------------------------------
(* The steps of the tasks.                                                 *)

\* A step that is not about orders leaves them as they are.
LEMMA OrdersApart ==
    ASSUME OrdersOK, HandlerOK, UNCHANGED <<charged, refunded, order>>,
           \A o \in Orders : panel'[o] = panel[o] /\ upset'[o] = upset[o],
           task'[Handler] = task[Handler] \/ task'[Handler].p \notin Orders
    PROVE  OrdersOK' /\ HandlerOK'
<1>1. OrdersOK'
    BY DEF OrdersOK, OrderOK
<1>2. HandlerOK'
    BY DEF HandlerOK, P
<1> QED
    BY <1>1, <1>2

\* Whom a task works for.
LEMMA WorkedOnIs ==
    ASSUME NEW p \in Purchases
    PROVE  WorkedOn(p) <=> \E t \in Tasks : D(t) = p
BY Bounds DEF WorkedOn, D, P

LEMMA WorkedOnIsNext ==
    ASSUME NEW p \in Purchases
    PROVE  WorkedOn(p)' <=> \E t \in Tasks : D(t)' = p
BY Bounds DEF WorkedOn, D, P

\* A step that is about an order leaves the card payments as they are.
LEMMA PaymentsApart ==
    ASSUME TypeOK, AboutOK, DeliveriesOK, PaymentsAtRestOK, AdminOK,
           UNCHANGED <<broken, status, meta, admin>>,
           \A p \in Direct : panel'[p] = panel[p] /\ services'[p] = services[p] /\ upset'[p] = upset[p],
           \A t \in Tasks : D(t) \in Direct \/ D(t)' \in Direct => task'[t] = task[t]
    PROVE  DeliveriesOK' /\ PaymentsAtRestOK' /\ AdminOK'
<1>1. \A p \in Direct : (Calm(p)' <=> Calm(p)) /\ (WorkedOn(p)' <=> WorkedOn(p))
    <2>1. \A p \in Direct, t \in Tasks : D(t)' = p <=> D(t) = p
        BY DEF D, P
    <2> QED
        BY <2>1, WorkedOnIs, WorkedOnIsNext, Bounds DEF Calm
<1>2. DeliveriesOK'
    <2> SUFFICES ASSUME NEW t \in Tasks, D(t)' \in Direct PROVE DeliveryOK(t)'
        BY DEF DeliveriesOK, DeliveryOK
    <2>1. task'[t] = task[t] /\ D(t)' = D(t) /\ DeliveryOK(t)
        BY DEF D, P, DeliveriesOK
    <2>2. \A u \in Tasks : D(u)' = D(t) => D(u) = D(t)
        BY <2>1 DEF D, P
    <2>3. Calm(D(t))' <=> Calm(D(t))
        BY <1>1, <2>1
    <2> QED
        BY <2>1, <2>2, <2>3 DEF DeliveryOK
<1>3. PaymentsAtRestOK'
    BY <1>1 DEF PaymentsAtRestOK, AtRestOK
<1>4. AdminOK'
    <2>1. admin.pc # "idle" => admin.p \in Direct
        BY DEF AboutOK
    <2> QED
        BY <1>1, <2>1 DEF AdminOK, Calm
<1> QED
    BY <1>2, <1>3, <1>4

LEMMA DirectKeeps ==
    ASSUME TypeOK, Inv, NEW t \in Tasks, Works(t), P(t) \in Direct
    PROVE  Inv'
<1> USE DEF Inv
<1> DEFINE n == task[t].n
<1>0. PICK p \in Direct : p = P(t)
    OBVIOUS
<1>1. /\ task'[t].p = p /\ task'[t].n = n /\ task'[t].tries = task[t].tries
      /\ task[t].pc # "row" /\ task'[t].pc \notin {"idle", "row"} /\ p \in Purchases
      /\ \A u \in Tasks \ {t} : task'[u] = task[u]
      /\ UNCHANGED <<renewal, broken, status, meta, order, admin, thread, begun>>
    BY <1>0, TaskStepMoves
<1>2. /\ UNCHANGED moneyVars
      /\ \A q \in Purchases \ {p} : /\ panel'[q] = panel[q] /\ services'[q] = services[q]
                                    /\ upset'[q] = upset[q]
    BY <1>0, DirectMoves
<1>3. \/ upset'[p] # {} /\ task'[t].pc = "settle"
      \/ /\ upset' = upset
         /\ \/ /\ task[t].pc \in {"check", "recheck"} /\ UNCHANGED goodsVars
               /\ Goes(t, "recheck") \/ Goes(t, "panel") \/ Ends(t, FALSE)
            \/ /\ task[t].pc = "panel" /\ UNCHANGED services
               /\ \/ panel'[p] = panel[p] \cup {n} /\ Goes(t, "store")
                  \/ panel'[p] = panel[p] /\ Ends(t, FALSE)
            \/ /\ task[t].pc = "store" /\ UNCHANGED panel
               /\ \/ services'[p] = services[p] \cup {n} /\ Goes(t, "announce")
                  \/ Goes(t, "rollback")
            \/ /\ task[t].pc = "rollback" /\ UNCHANGED services
               /\ panel'[p] = panel[p] \ {n} /\ Ends(t, FALSE)
            \/ task[t].pc = "announce" /\ UNCHANGED goodsVars /\ Ends(t, TRUE)
    BY <1>0, DirectMoves
<1>4. TaskOK(t)
    BY DEF TasksOK
<1>d. D(t) = p /\ D(t)' = p /\ \A u \in Tasks \ {t} : D(u)' = D(u)
    BY <1>0, <1>1 DEF D, P
<1>5. TasksOK'
    <2>1. TaskOK(t)'
        BY <1>0, <1>1, <1>3, <1>4, Bounds DEF TaskOK, P, Goes, Ends
    <2>2. \A u \in Tasks \ {t} : TaskOK(u)'
        BY <1>1 DEF TasksOK, TaskOK, P
    <2> QED
        BY <2>1, <2>2 DEF TasksOK
<1>6. AboutOK'
    BY <1>1 DEF AboutOK
<1>7. OrdersOK' /\ HandlerOK'
    <2>1. \A o \in Orders : o \in Purchases \ {p}
        BY Bounds
    <2>2. task'[Handler] = task[Handler] \/ task'[Handler].p \notin Orders
        BY <1>1, Bounds
    <2> QED
        BY <1>1, <1>2, <2>1, <2>2, OrdersApart DEF moneyVars
<1>8. \A q \in Direct : (WorkedOn(q)' <=> WorkedOn(q)) /\ (Calm(q)' => Calm(q))
    <2>1. \A u \in Tasks : D(u)' = D(u)
        BY <1>d
    <2>2. Calm(p)' => Calm(p)
        BY <1>3 DEF Calm
    <2>3. Direct \subseteq Purchases
        BY Bounds
    <2> QED
        BY <1>2, <2>1, <2>2, <2>3, WorkedOnIs, WorkedOnIsNext DEF Calm
<1>9. DeliveriesOK'
    <2>1. DeliveryOK(t)'
        <3> SUFFICES ASSUME Calm(p)'
                     PROVE  /\ meta[p].done = "processing" /\ status[p] = "approved"
                            /\ \A u \in Tasks : D(u)' = p => u = t
                            /\ panel'[p] \subseteq {n}
                            /\ task'[t].pc \in {"check", "recheck", "panel"} => panel'[p] = {}
                            /\ task'[t].pc = "settle" /\ ~task'[t].ok => panel'[p] = {}
                            /\ task'[t].pc = "announce" \/ (task'[t].pc = "settle" /\ task'[t].ok)
                                 => panel'[p] \subseteq services'[p]
            BY <1>1, <1>d DEF DeliveryOK
        <3>1. /\ meta[p].done = "processing" /\ status[p] = "approved"
              /\ \A u \in Tasks : D(u) = p => u = t
              /\ panel[p] \subseteq {n}
              /\ task[t].pc \in {"check", "recheck", "panel"} => panel[p] = {}
              /\ task[t].pc = "announce" => panel[p] \subseteq services[p]
            BY <1>8, <1>d DEF DeliveriesOK, DeliveryOK
        <3>2. \A u \in Tasks : D(u)' = p => u = t
            BY <1>d, <3>1
        <3>3. upset'[p] = {}
            BY DEF Calm
        <3> QED
            BY <1>3, <3>1, <3>2, <3>3 DEF Goes, Ends, goodsVars
    <2>2. ASSUME NEW u \in Tasks \ {t}, D(u) \in Direct PROVE DeliveryOK(u)'
        <3>1. D(u)' = D(u) /\ task'[u] = task[u] /\ DeliveryOK(u)
            BY <1>1, <1>d DEF DeliveriesOK
        <3>2. \A v \in Tasks : D(v)' = D(v)
            BY <1>d
        <3>3. Calm(D(u))' => Calm(D(u)) /\ D(u) # p
            BY <1>8, <1>d, <2>2, <3>1 DEF DeliveryOK
        <3>4. D(u) # p => panel'[D(u)] = panel[D(u)] /\ services'[D(u)] = services[D(u)]
            BY <1>2, <2>2, Bounds
        <3> QED
            BY <1>1, <3>1, <3>2, <3>3, <3>4 DEF DeliveryOK
    <2> QED
        BY <1>d, <2>1, <2>2 DEF DeliveriesOK, DeliveryOK
<1>10. PaymentsAtRestOK'
    <2> SUFFICES ASSUME NEW q \in Direct, Calm(q)' PROVE AtRestOK(q)'
        BY DEF PaymentsAtRestOK, AtRestOK
    <2>1. Calm(q) /\ AtRestOK(q)
        BY <1>8 DEF PaymentsAtRestOK
    <2>2. CASE q = p
        <3>1. meta[q].done = "processing"
            BY <1>d, <2>1, <2>2 DEF DeliveriesOK, DeliveryOK
        <3>2. WorkedOn(q)'
            BY <1>d, <2>2, <1>1, WorkedOnIsNext
        <3> QED
            BY <1>1, <2>1, <3>1, <3>2 DEF AtRestOK
    <2>3. CASE q # p
        BY <1>1, <1>2, <1>8, <2>1, <2>3, Bounds DEF AtRestOK
    <2> QED
        BY <2>2, <2>3
<1>11. AdminOK'
    <2>1. admin.pc # "idle" => admin.p \in Direct
        BY DEF AboutOK
    <2>2. Calm(p)' => status[p] = "approved"
        BY <1>8, <1>d DEF DeliveriesOK, DeliveryOK
    <2> QED
        BY <1>1, <1>2, <1>8, <2>1, <2>2, Bounds DEF AdminOK, Calm
<1> QED
    BY <1>5, <1>6, <1>7, <1>9, <1>10, <1>11

LEMMA OrderKeeps ==
    ASSUME TypeOK, Inv, NEW t \in Tasks, Works(t), P(t) \in Orders
    PROVE  Inv'
<1> USE DEF Inv
<1>0. PICK o \in Orders : o = P(t)
    OBVIOUS
<1>1. /\ task'[t].p = o /\ task'[t].n = task[t].n 
      /\ task[t].pc # "row" /\ task'[t].pc \notin {"idle", "row"}
      /\ \A u \in Tasks \ {t} : task'[u] = task[u]
      /\ UNCHANGED <<renewal, broken, status, meta, order, admin, thread, begun>>
    BY <1>0, TaskStepMoves
<1>2. /\ \A q \in Purchases \ {o} : /\ panel'[q] = panel[q] /\ services'[q] = services[q]
                                    /\ upset'[q] = upset[q]
      /\ upset[o] \subseteq upset'[o]
    BY <1>0, OrderMoves
<1>3. \/ /\ task[t].pc = "check" /\ UNCHANGED <<moneyVars, panel>>
         /\ Goes(t, "charge") \/ Ends(t, FALSE)
      \/ /\ task[t].pc = "charge" /\ UNCHANGED <<refunded, panel>>
         /\ \/ charged' = charged \cup {o} /\ (Goes(t, "recheck") \/ Goes(t, "panel"))
            \/ UNCHANGED charged /\ Ends(t, FALSE)
      \/ /\ task[t].pc = "recheck" /\ UNCHANGED <<moneyVars, panel>>
         /\ Goes(t, "panel") \/ (Ends(t, FALSE) /\ "stale" \in upset'[o])
      \/ /\ task[t].pc = "panel" /\ UNCHANGED moneyVars
         /\ \/ panel'[o] = panel[o] \cup {1} /\ Goes(t, "store")
            \/ panel'[o] = panel[o] /\ Goes(t, "refund")
            \/ panel'[o] = panel[o] \cup {1} /\ Goes(t, "refund") /\ "lost" \in upset'[o]
      \/ /\ task[t].pc = "store" /\ UNCHANGED <<moneyVars, panel>>
         /\ \/ Goes(t, "announce") \/ Goes(t, "rollback")
            \/ Ends(t, FALSE) /\ "store" \in upset'[o]
      \/ /\ task[t].pc = "rollback" /\ UNCHANGED moneyVars
         /\ \/ panel'[o] = panel[o] \ {1} /\ Goes(t, "refund")
            \/ UNCHANGED panel /\ Ends(t, FALSE) /\ "store" \in upset'[o]
      \/ /\ task[t].pc = "refund" /\ UNCHANGED <<charged, panel>>
         /\ Ends(t, FALSE)
         /\ refunded' = refunded \cup {o} \/ (UNCHANGED refunded /\ "kept" \in upset'[o])
      \/ task[t].pc = "announce" /\ UNCHANGED <<moneyVars, panel>> /\ Ends(t, TRUE)
    BY <1>0, OrderMoves
<1>4. t = Handler /\ order[o] = "running" /\ task[t].n = 1
    BY <1>0 DEF TasksOK, TaskOK
<1>5. TasksOK'
    <2>1. TaskOK(t)'
        BY <1>0, <1>1, <1>4, Bounds DEF TaskOK, P
    <2>2. \A u \in Tasks \ {t} : TaskOK(u)'
        BY <1>1 DEF TasksOK, TaskOK, P
    <2> QED
        BY <2>1, <2>2 DEF TasksOK
<1>6. AboutOK'
    BY <1>1 DEF AboutOK
<1>7. /\ OrderOK(o)
      /\ task[t].pc \in {"check", "charge"} => o \notin charged
      /\ task[t].pc \in {"recheck", "panel", "store", "rollback", "refund", "announce"} => o \in charged \ refunded
      /\ task[t].pc \in {"recheck", "panel"} => panel[o] = {}
      /\ task[t].pc = "refund" => panel[o] = {} \/ "lost" \in upset[o]
    BY <1>0, <1>4 DEF OrdersOK, HandlerOK
<1>8. OrdersOK'
    <2>1. OrderOK(o)'
        BY <1>1, <1>2, <1>3, <1>4, <1>7 DEF OrderOK, moneyVars
    <2>2. ASSUME NEW q \in Orders \ {o} PROVE OrderOK(q)'
        <3>1. q \in Purchases \ {o}
            BY Bounds
        <3>2. charged' \cup {o} = charged \cup {o} /\ refunded' \cup {o} = refunded \cup {o}
            BY <1>3 DEF moneyVars
        <3>3. (q \in charged' <=> q \in charged) /\ (q \in refunded' <=> q \in refunded)
            BY <3>2
        <3> QED
            BY <1>1, <1>2, <3>1, <3>3 DEF OrdersOK, OrderOK
    <2> QED
        BY <2>1, <2>2 DEF OrdersOK
<1>9. HandlerOK'
    <2> SUFFICES
          /\ task'[t].pc \in {"check", "charge"} => o \notin charged'
          /\ task'[t].pc \in {"recheck", "panel", "store", "rollback", "refund", "announce"}
               => o \in charged' \ refunded'
          /\ task'[t].pc \in {"recheck", "panel"} => panel'[o] = {}
          /\ task'[t].pc = "refund" => panel'[o] = {} \/ "lost" \in upset'[o]
          /\ task'[t].pc = "settle" /\ ~task'[t].ok /\ o \in charged' \ refunded'
               => upset'[o] \cap {"store", "stale", "kept"} # {}
        BY <1>1, <1>4 DEF HandlerOK, P
    <2>1. panel[o] \subseteq {1} /\ (o \notin charged => panel[o] = {} /\ o \notin refunded)
        BY <1>7 DEF OrderOK
    <2> QED
        BY <1>2, <1>3, <1>7, <2>1 DEF moneyVars, Goes, Ends
<1>10. DeliveriesOK' /\ PaymentsAtRestOK' /\ AdminOK'
    <2>1. \A p \in Direct : p \in Purchases \ {o}
        BY Bounds
    <2>2. \A u \in Tasks : D(u) \in Direct \/ D(u)' \in Direct => task'[u] = task[u]
        BY <1>0, <1>1, Bounds DEF D, P
    <2> QED
        BY <1>1, <1>2, <2>1, <2>2, PaymentsApart
<1> QED
    BY <1>5, <1>6, <1>8, <1>9, <1>10

\* A task that reads a row delivers nothing.
LEMMA ReadKeeps ==
    ASSUME TypeOK, Inv, NEW t \in Tasks, NEW p \in Direct, ReadRow(t, p)
    PROVE  Inv'
<1> USE DEF Inv
<1>1. /\ task[t].pc = "idle" /\ task'[t].p = p /\ task'[t].pc = "row"
      /\ \A u \in Tasks \ {t} : task'[u] = task[u]
      /\ UNCHANGED <<renewal, broken, paymentVars, order, moneyVars, goodsVars, admin, thread, begun, upset>>
    BY ReadMoves
<1>2. TasksOK'
    <2>1. TaskOK(t)'
        BY <1>1, Bounds DEF TaskOK, P
    <2>2. \A u \in Tasks \ {t} : TaskOK(u)'
        BY <1>1 DEF TasksOK, TaskOK, P
    <2> QED
        BY <2>1, <2>2 DEF TasksOK
<1>3. AboutOK'
    BY <1>1 DEF AboutOK
<1>4. OrdersOK' /\ HandlerOK'
    <2>1. task'[Handler] = task[Handler] \/ task'[Handler].p \notin Orders
        BY <1>1, Bounds
    <2> QED
        BY <1>1, <2>1, OrdersApart DEF moneyVars, goodsVars
<1>5. DeliveriesOK' /\ PaymentsAtRestOK' /\ AdminOK'
    <2>1. P(t) = NoPurchase
        BY <1>1 DEF TasksOK, TaskOK
    <2>2. D(t) \notin Direct /\ D(t)' \notin Direct
        BY <1>1, <2>1, Bounds DEF D
    <2>3. \A u \in Tasks : D(u) \in Direct \/ D(u)' \in Direct => task'[u] = task[u]
        BY <1>1, <2>2
    <2> QED
        BY <1>1, <2>3, PaymentsApart DEF paymentVars, goodsVars
<1> QED
    BY <1>2, <1>3, <1>4, <1>5

\* Only a payment that no task delivers is claimed, or one that was upset.
LEMMA ClaimKeeps ==
    ASSUME TypeOK, Inv, NEW t \in Tasks, Claim(t), begun' # begun
    PROVE  Inv'
<1> USE DEF Inv
<1>0. PICK p \in Direct : p = P(t)
    BY ClaimMoves
<1>1. /\ task[t].pc = "row" /\ p \notin broken
      /\ status[p] = "approved" /\ Claimable(meta[p])
      /\ task'[t].p = p /\ task'[t].pc \in {"check", "panel"} /\ task'[t].n \in Attempts
      /\ \A u \in Tasks \ {t} : task'[u] = task[u]
      /\ meta'[p].done = "processing"
      /\ \A q \in Direct \ {p} : meta'[q] = meta[q]
      /\ UNCHANGED <<renewal, broken, status, order, moneyVars, goodsVars, admin, thread, upset>>
    BY <1>0, ClaimMoves
<1>2. D(t) = NoPurchase /\ D(t)' = p /\ \A u \in Tasks \ {t} : D(u)' = D(u)
    BY <1>1 DEF D, P
<1>3. TasksOK'
    <2>1. TaskOK(t)'
        BY <1>1, Bounds DEF TaskOK, P
    <2>2. ASSUME NEW u \in Tasks \ {t} PROVE TaskOK(u)'
        BY <1>1 DEF TasksOK, TaskOK, P
    <2> QED
        BY <2>1, <2>2 DEF TasksOK
<1>4. AboutOK'
    BY <1>1 DEF AboutOK
<1>5. OrdersOK' /\ HandlerOK'
    <2>1. task'[Handler] = task[Handler] \/ task'[Handler].p \notin Orders
        BY <1>1, Bounds
    <2> QED
        BY <1>1, <2>1, OrdersApart DEF moneyVars, goodsVars
<1>d. p \in Purchases /\ Direct \subseteq Purchases
    BY Bounds
\* Unless something upset its delivery, nothing of it is in work or in effect.
<1>6. Calm(p) => (\A u \in Tasks : D(u) # p) /\ panel[p] = {}
    <2>1. meta[p].done \in {"none", "reverted", "err"}
        BY <1>1 DEF Claimable
    <2> QED
        BY <2>1 DEF DeliveriesOK, DeliveryOK, PaymentsAtRestOK, AtRestOK
<1>7. \A q : Calm(q)' <=> Calm(q)
    BY <1>1 DEF Calm
<1>8. DeliveriesOK'
    <2>1. DeliveryOK(t)'
        BY <1>1, <1>2, <1>6, <1>7 DEF DeliveryOK, goodsVars
    <2>2. ASSUME NEW u \in Tasks \ {t}, D(u) \in Direct PROVE DeliveryOK(u)'
        <3>1. D(u)' = D(u) /\ task'[u] = task[u] /\ DeliveryOK(u)
            BY <1>1, <1>2 DEF DeliveriesOK
        <3>2. Calm(D(u))' => Calm(D(u)) /\ D(u) # p
            BY <1>6, <1>7, <3>1
        <3>3. \A v \in Tasks : D(v)' = D(u) => D(v) = D(u) \/ D(u) = p
            BY <1>2
        <3> QED
            BY <1>1, <2>2, <3>1, <3>2, <3>3 DEF DeliveryOK, goodsVars
    <2> QED
        BY <1>2, <2>1, <2>2 DEF DeliveriesOK, DeliveryOK
<1>9. PaymentsAtRestOK'
    <2>1. AtRestOK(p)'
        <3>1. WorkedOn(p)'
            BY <1>2, <1>d, WorkedOnIsNext
        <3> QED
            BY <1>1, <3>1 DEF AtRestOK
    <2>2. ASSUME NEW q \in Direct \ {p} PROVE AtRestOK(q)'
        <3>1. WorkedOn(q) => WorkedOn(q)'
            BY <1>2, <1>d, Bounds, WorkedOnIs, WorkedOnIsNext
        <3> QED
            BY <1>1, <1>7, <3>1 DEF PaymentsAtRestOK, AtRestOK, goodsVars
    <2> QED
        BY <2>1, <2>2 DEF PaymentsAtRestOK
<1>10. AdminOK'
    <2>1. admin.pc # "idle" => admin.p \in Direct
        BY DEF AboutOK
    <2> QED
        BY <1>1, <1>7, <2>1 DEF AdminOK, goodsVars
<1> QED
    BY <1>3, <1>4, <1>5, <1>8, <1>9, <1>10

\* A row that is left unclaimed was in nobody's delivery, or is blamed.
LEMMA PassKeeps ==
    ASSUME TypeOK, Inv, NEW t \in Tasks, Passes(t)
    PROVE  Inv'
<1> USE DEF Inv
<1>0. PICK p \in Direct : p = P(t)
    BY PassMoves
<1>1. /\ task[t].pc = "row" /\ p \in Purchases /\ task'[t] = Idle
      /\ \A u \in Tasks \ {t} : task'[u] = task[u]
      /\ \A q \in Direct \ {p} : meta'[q] = meta[q]
      /\ \A q \in Purchases \ {p} : upset'[q] = upset[q]
      /\ \/ meta' = meta /\ (upset' = upset \/ upset'[p] # {})
         \/ upset'[p] # {}
         \/ /\ upset' = upset /\ meta'[p].done \in {"err", "invalid"}
            /\ p \in broken \/ meta[p].done \notin {"processing", "1"}
      /\ UNCHANGED <<renewal, broken, status, order, moneyVars, goodsVars, admin, thread, begun>>
    BY <1>0, PassMoves
<1>2. task'[t].pc = "idle" /\ task'[t].p = NoPurchase /\ D(t) = NoPurchase /\ D(t)' = NoPurchase
    BY <1>1, Idles DEF D, P
<1>3. \A u \in Tasks : D(u)' = D(u)
    BY <1>1, <1>2 DEF D, P
<1>d. Direct \subseteq Purchases /\ NoPurchase \notin Direct /\ \A o \in Orders : o \in Purchases \ {p}
    BY Bounds
<1>4. TasksOK'
    <2>1. TaskOK(t)'
        BY <1>2, Bounds DEF TaskOK, P
    <2>2. \A u \in Tasks \ {t} : TaskOK(u)'
        BY <1>1 DEF TasksOK, TaskOK, P
    <2> QED
        BY <2>1, <2>2 DEF TasksOK
<1>5. AboutOK'
    BY <1>1 DEF AboutOK
<1>6. OrdersOK' /\ HandlerOK'
    <2>1. task'[Handler] = task[Handler] \/ task'[Handler].p \notin Orders
        BY <1>1, <1>2, Bounds
    <2> QED
        BY <1>1, <1>d, <2>1, OrdersApart DEF moneyVars, goodsVars
<1>7. \A q \in Direct : (WorkedOn(q)' <=> WorkedOn(q)) /\ (Calm(q)' => Calm(q))
    BY <1>1, <1>3, <1>d, WorkedOnIs, WorkedOnIsNext DEF Calm
\* What is marked as failed is in no delivery, and has nothing on the panel.
<1>8. Calm(p)' => \/ meta'[p] = meta[p]
                  \/ /\ meta'[p].done \in {"err", "invalid"} /\ panel[p] = {}
                     /\ \A u \in Tasks : D(u) # p
    <2> SUFFICES ASSUME Calm(p)', meta'[p] # meta[p]
                 PROVE  /\ meta'[p].done \in {"err", "invalid"} /\ panel[p] = {}
                        /\ \A u \in Tasks : D(u) # p
        OBVIOUS
    <2>1. Calm(p) /\ AtRestOK(p) /\ meta[p].done \in DoneStates
        BY <1>7 DEF PaymentsAtRestOK, TypeOK, MetaRecords
    <2>2. /\ meta'[p].done \in {"err", "invalid"}
          /\ p \in broken \/ meta[p].done \notin {"processing", "1"}
        BY <1>1 DEF Calm
    <2>3. meta[p].done \notin {"processing", "1"}
        BY <2>1, <2>2 DEF AtRestOK
    <2>4. panel[p] = {}
        BY <2>1, <2>3 DEF AtRestOK, DoneStates
    <2>5. \A u \in Tasks : D(u) # p
        BY <2>1, <2>3 DEF DeliveriesOK, DeliveryOK
    <2> QED
        BY <2>2, <2>4, <2>5
<1>9. DeliveriesOK'
    <2> SUFFICES ASSUME NEW u \in Tasks, D(u) \in Direct, Calm(D(u))' PROVE DeliveryOK(u)'
        BY <1>3 DEF DeliveriesOK, DeliveryOK
    <2>1. u # t /\ D(u)' = D(u) /\ task'[u] = task[u] /\ DeliveryOK(u) /\ Calm(D(u))
        BY <1>1, <1>2, <1>3, <1>7, <1>d DEF DeliveriesOK
    <2>2. \A v \in Tasks : D(v)' = D(v)
        BY <1>3
    <2>3. meta'[D(u)] = meta[D(u)]
        <3>1. CASE D(u) = p
            <4>1. Calm(p)'
                BY <2>1, <3>1 DEF Calm
            <4> QED
                BY <1>8, <3>1, <4>1
        <3> QED
            BY <1>1, <3>1
    <2> QED
        BY <1>1, <2>1, <2>2, <2>3 DEF DeliveryOK, goodsVars
<1>10. PaymentsAtRestOK'
    <2> SUFFICES ASSUME NEW q \in Direct, Calm(q)' PROVE AtRestOK(q)'
        BY DEF PaymentsAtRestOK, AtRestOK
    <2>1. AtRestOK(q) /\ Calm(q) /\ (WorkedOn(q)' <=> WorkedOn(q))
        BY <1>7 DEF PaymentsAtRestOK
    <2>2. CASE meta'[q] = meta[q]
        BY <1>1, <2>1, <2>2 DEF AtRestOK, goodsVars
    <2>3. CASE meta'[q] # meta[q]
        <3>1. q = p /\ meta'[q].done \in {"err", "invalid"} /\ panel[q] = {}
            BY <1>1, <1>8, <2>3
        <3> QED
            BY <1>1, <3>1 DEF AtRestOK, goodsVars
    <2> QED
        BY <2>2, <2>3
<1>11. AdminOK'
    <2>1. admin.pc # "idle" => admin.p \in Direct
        BY DEF AboutOK
    <2>2. \A q \in Direct : Calm(q)' => meta'[q] = meta[q] \/ meta'[q].done # "1"
        BY <1>1, <1>8
    <2> QED
        BY <1>1, <1>7, <2>1, <2>2 DEF AdminOK, goodsVars
<1> QED
    BY <1>4, <1>5, <1>6, <1>9, <1>10, <1>11

LEMMA OrderStartKeeps ==
    ASSUME TypeOK, Inv, NEW o \in Orders, StartOrder(o)
    PROVE  Inv'
<1> USE DEF Inv
<1>1. /\ order[o] = "new" /\ order' = [order EXCEPT ![o] = "running"]
      /\ task[Handler].pc = "idle"
      /\ task'[Handler].p = o /\ task'[Handler].pc \in {"check", "charge"}
      /\ task'[Handler].n = 1
      /\ \A u \in Tasks \ {Handler} : task'[u] = task[u]
      /\ UNCHANGED <<renewal, broken, paymentVars, moneyVars, goodsVars, admin, thread, begun, upset>>
    BY OrderStarts
<1>t. order \in [Orders -> {"new", "running", "done", "failed"}]
    BY DEF TypeOK
<1>2. P(Handler) = NoPurchase /\ Handler \in Tasks
    BY <1>1, Bounds DEF TasksOK, TaskOK
<1>3. TasksOK'
    <2>1. TaskOK(Handler)'
        BY <1>1, <1>t, Bounds DEF TaskOK, P
    <2>2. ASSUME NEW u \in Tasks \ {Handler} PROVE TaskOK(u)'
        BY <1>1 DEF TasksOK, TaskOK, P
    <2> QED
        BY <2>1, <2>2 DEF TasksOK
<1>4. AboutOK'
    BY <1>1 DEF AboutOK, paymentVars
<1>5. OrdersOK'
    BY <1>1, <1>t DEF OrdersOK, OrderOK, moneyVars, goodsVars
<1>6. HandlerOK'
    BY <1>1 DEF HandlerOK, P, OrdersOK, OrderOK, moneyVars, goodsVars
<1>7. DeliveriesOK' /\ PaymentsAtRestOK' /\ AdminOK'
    <2>1. \A u \in Tasks : D(u) \in Direct \/ D(u)' \in Direct => task'[u] = task[u]
        BY <1>1, <1>2, Bounds DEF D, P
    <2> QED
        BY <1>1, <2>1, PaymentsApart DEF paymentVars, goodsVars
<1> QED
    BY <1>3, <1>4, <1>5, <1>6, <1>7

\* The last step of a purchase.
LEMMA SettleKeeps ==
    ASSUME TypeOK, Inv, NEW t \in Tasks, Settle(t)
    PROVE  Inv'
<1> USE DEF Inv
<1>0. PICK p \in Purchases : p = P(t)
    BY SettleMoves
<1>1. /\ task[t].pc = "settle" /\ task'[t] = Idle
      /\ \A u \in Tasks \ {t} : task'[u] = task[u]
      /\ UNCHANGED <<renewal, broken, status, moneyVars, goodsVars, admin, thread, begun, upset>>
    BY SettleMoves
<1>2. p \in Direct =>
          /\ UNCHANGED order
          /\ \A q \in Direct \ {p} : meta'[q] = meta[q]
          /\ \/ task[t].ok /\ meta'[p].done = "1" /\ meta'[p].sid = task[t].n
             \/ ~task[t].ok /\ meta'[p].done = "err"
    BY <1>0, SettleMoves
<1>3. p \in Orders =>
          /\ UNCHANGED meta
          /\ order' = [order EXCEPT ![p] = IF task[t].ok THEN "done" ELSE "failed"]
    BY <1>0, SettleMoves
<1>i. P(t)' = NoPurchase /\ task'[t].pc = "idle" /\ \A u \in Tasks \ {t} : P(u)' = P(u)
    BY <1>1, Idles DEF P
<1>o. /\ order \in [Orders -> {"new", "running", "done", "failed"}]
      /\ \A u \in Tasks \ {t} : P(u) = p => p \in Direct
    <2>1. ASSUME NEW u \in Tasks \ {t}, P(u) = p, p \in Orders PROVE FALSE
        BY <1>0, <2>1 DEF TasksOK, TaskOK
    <2> QED
        BY <2>1, Bounds DEF TypeOK
<1>4. TasksOK'
    <2>1. TaskOK(t)'
        BY <1>i, Bounds DEF TaskOK
    <2>2. ASSUME NEW u \in Tasks \ {t} PROVE TaskOK(u)'
        <3>1. TaskOK(u) /\ P(u)' = P(u) /\ task'[u] = task[u]
            BY <1>1, <1>i DEF TasksOK
        <3>2. P(u) \in Orders => order'[P(u)] = order[P(u)]
            BY <1>2, <1>3, <1>o, Bounds
        <3> QED
            BY <1>1, <3>1, <3>2 DEF TaskOK
    <2> QED
        BY <2>1, <2>2 DEF TasksOK
<1>5. AboutOK'
    BY <1>1 DEF AboutOK
<1>d. /\ D(t) = p /\ D(t)' = NoPurchase /\ \A u \in Tasks \ {t} : D(u)' = D(u)
      /\ NoPurchase \notin Direct /\ NoPurchase \notin Purchases
    BY <1>0, <1>1, <1>i, Bounds DEF D, P
<1>6. OrdersOK' /\ HandlerOK'
    <2>1. CASE p \in Direct
        <3>1. task'[Handler] = task[Handler] \/ task'[Handler].p \notin Orders
            BY <1>1, Idles, Bounds
        <3> QED
            BY <1>1, <1>2, <2>1, <3>1, OrdersApart DEF moneyVars, goodsVars
    <2>2. CASE p \in Orders
        <3>1. t = Handler
            BY <1>0, <2>2 DEF TasksOK, TaskOK
        <3>2. HandlerOK'
            BY <1>i, <3>1, Bounds DEF HandlerOK
        <3>3. OrderOK(p) /\ (~task[t].ok /\ p \in charged \ refunded => upset[p] \cap {"store", "stale", "kept"} # {})
            BY <1>0, <1>1, <2>2, <3>1 DEF OrdersOK, HandlerOK
        <3>4. OrderOK(p)'
            BY <1>1, <1>3, <1>o, <2>2, <3>3 DEF OrderOK, moneyVars, goodsVars
        <3>5. \A q \in Orders \ {p} : OrderOK(q)'
            BY <1>1, <1>3, <1>o, <2>2 DEF OrdersOK, OrderOK, moneyVars, goodsVars
        <3> QED
            BY <3>2, <3>4, <3>5 DEF OrdersOK
    <2> QED
        BY <2>1, <2>2, Bounds
<1>7. CASE p \in Orders
    <2>1. \A u \in Tasks : D(u) \in Direct \/ D(u)' \in Direct => task'[u] = task[u]
        BY <1>1, <1>7, <1>d, Bounds
    <2>2. DeliveriesOK' /\ PaymentsAtRestOK' /\ AdminOK'
        BY <1>1, <1>3, <1>7, <2>1, PaymentsApart DEF goodsVars
    <2> QED
        BY <1>4, <1>5, <1>6, <2>2
<1>8. CASE p \in Direct
    <2>1. \A q : Calm(q)' <=> Calm(q)
        BY <1>1 DEF Calm
    <2>2. Calm(p) => /\ status[p] = "approved" /\ panel[p] \subseteq {task[t].n}
                     /\ meta[p].done = "processing"
                     /\ \A u \in Tasks : D(u) = p => u = t
                     /\ ~task[t].ok => panel[p] = {}
                     /\ task[t].ok => panel[p] \subseteq services[p]
        BY <1>1, <1>8, <1>d DEF DeliveriesOK, DeliveryOK
    <2>3. DeliveriesOK'
        <3> SUFFICES ASSUME NEW u \in Tasks \ {t}, D(u) \in Direct, Calm(D(u)) PROVE DeliveryOK(u)'
            BY <1>d, <2>1 DEF DeliveriesOK, DeliveryOK
        <3>1. D(u)' = D(u) /\ task'[u] = task[u] /\ DeliveryOK(u) /\ D(u) # p
            BY <1>1, <1>d, <2>2 DEF DeliveriesOK
        <3>2. \A v \in Tasks : D(v)' = D(u) => D(v) = D(u)
            BY <1>d
        <3> QED
            BY <1>1, <1>2, <1>8, <2>1, <3>1, <3>2 DEF DeliveryOK, goodsVars
    <2>4. PaymentsAtRestOK'
        <3>1. AtRestOK(p)'
            <4>1. task[t].n # NoAttempt
                BY <1>0, <1>1, <1>8 DEF TasksOK, TaskOK, Attempts, NoAttempt
            <4>2. Calm(p) => p \notin broken
                BY <1>8, <2>2 DEF PaymentsAtRestOK, AtRestOK
            <4> QED
                BY <1>1, <1>2, <1>8, <2>1, <2>2, <4>1, <4>2 DEF AtRestOK, goodsVars
        <3>2. ASSUME NEW q \in Direct \ {p} PROVE AtRestOK(q)'
            <4>1. WorkedOn(q) => WorkedOn(q)'
                BY <1>d, Bounds, WorkedOnIs, WorkedOnIsNext
            <4> QED
                BY <1>1, <1>2, <1>8, <2>1, <4>1 DEF PaymentsAtRestOK, AtRestOK, goodsVars
        <3> QED
            BY <3>1, <3>2 DEF PaymentsAtRestOK
    <2>5. AdminOK'
        <3>1. admin.pc # "idle" => admin.p \in Direct
            BY DEF AboutOK
        <3> QED
            BY <1>1, <1>2, <1>8, <2>1, <2>2, <3>1 DEF AdminOK, goodsVars
    <2> QED
        BY <1>4, <1>5, <1>6, <2>3, <2>4, <2>5
<1> QED
    BY <1>7, <1>8, Bounds

\* The mark that was not written is blamed.
LEMMA SwallowKeeps ==
    ASSUME TypeOK, Inv, NEW t \in Tasks, SettleSwallowed(t)
    PROVE  Inv'
<1> USE DEF Inv
<1>0. PICK p \in Direct : p = P(t)
    BY SwallowMoves
<1>1. /\ task[t].pc = "settle" /\ task'[t] = Idle
      /\ \A u \in Tasks \ {t} : task'[u] = task[u]
      /\ upset'[p] # {} /\ \A q \in Purchases \ {p} : upset'[q] = upset[q]
      /\ UNCHANGED <<renewal, broken, paymentVars, order, moneyVars, goodsVars, admin, thread, begun>>
    BY <1>0, SwallowMoves
<1>2. task'[t].pc = "idle" /\ task'[t].p = NoPurchase
    BY <1>1, Idles
<1>d. /\ D(t) = p /\ D(t)' = NoPurchase /\ \A u \in Tasks \ {t} : D(u)' = D(u)
      /\ NoPurchase \notin Direct /\ Direct \subseteq Purchases /\ p \in Purchases
      /\ \A o \in Orders : o \in Purchases \ {p}
    BY <1>0, <1>1, <1>2, Bounds DEF D, P
<1>3. TasksOK'
    <2>1. TaskOK(t)'
        BY <1>2, Bounds DEF TaskOK, P
    <2>2. \A u \in Tasks \ {t} : TaskOK(u)'
        BY <1>1 DEF TasksOK, TaskOK, P
    <2> QED
        BY <2>1, <2>2 DEF TasksOK
<1>4. AboutOK'
    BY <1>1 DEF AboutOK
<1>5. OrdersOK' /\ HandlerOK'
    <2>1. task'[Handler] = task[Handler] \/ task'[Handler].p \notin Orders
        BY <1>1, <1>2, Bounds
    <2> QED
        BY <1>1, <1>d, <2>1, OrdersApart DEF moneyVars, goodsVars
<1>6. \A q \in Direct : Calm(q)' => Calm(q) /\ q # p
    BY <1>1, <1>d DEF Calm
<1>7. DeliveriesOK'
    <2> SUFFICES ASSUME NEW u \in Tasks \ {t}, D(u) \in Direct, Calm(D(u))' PROVE DeliveryOK(u)'
        BY <1>d DEF DeliveriesOK, DeliveryOK
    <2>1. D(u)' = D(u) /\ task'[u] = task[u] /\ DeliveryOK(u) /\ Calm(D(u))
        BY <1>1, <1>6, <1>d DEF DeliveriesOK
    <2>2. \A v \in Tasks : D(v)' = D(u) => D(v) = D(u)
        BY <1>d
    <2> QED
        BY <1>1, <2>1, <2>2 DEF DeliveryOK, paymentVars, goodsVars
<1>8. PaymentsAtRestOK'
    <2> SUFFICES ASSUME NEW q \in Direct, Calm(q)' PROVE AtRestOK(q)'
        BY DEF PaymentsAtRestOK, AtRestOK
    <2>1. WorkedOn(q) => WorkedOn(q)'
        BY <1>6, <1>d, WorkedOnIs, WorkedOnIsNext
    <2> QED
        BY <1>1, <1>6, <2>1 DEF PaymentsAtRestOK, AtRestOK, paymentVars, goodsVars
<1>9. AdminOK'
    <2>1. admin.pc # "idle" => admin.p \in Direct
        BY DEF AboutOK
    <2> QED
        BY <1>1, <1>6, <2>1 DEF AdminOK, paymentVars, goodsVars
<1> QED
    BY <1>3, <1>4, <1>5, <1>7, <1>8, <1>9

LEMMA CrashKeeps ==
    ASSUME TypeOK, Inv, Crash
    PROVE  Inv'
<1> USE DEF Inv
<1>1. /\ \A t \in Tasks : task'[t] = Idle
      /\ thread' = NoMessage
      /\ \A p \in Purchases : /\ upset[p] \subseteq upset'[p]
                              /\ IF WorkedOn(p) THEN upset'[p] # {} ELSE upset'[p] = upset[p]
      /\ UNCHANGED <<renewal, broken, paymentVars, order, moneyVars, goodsVars, admin, begun>>
    BY CrashMoves
<1>2. \A t \in Tasks : P(t)' = NoPurchase /\ D(t)' = NoPurchase /\ task'[t].pc = "idle"
    BY <1>1, Idles DEF D, P
<1>3. TasksOK'
    BY <1>2, Bounds DEF TasksOK, TaskOK
<1>4. AboutOK'
    BY <1>1, Idles DEF AboutOK, paymentVars
<1>5. OrdersOK'
    BY <1>1, Bounds DEF OrdersOK, OrderOK, moneyVars, goodsVars
<1>6. HandlerOK'
    BY <1>2, Bounds DEF HandlerOK
<1>7. DeliveriesOK'
    BY <1>2, Bounds DEF DeliveriesOK, DeliveryOK
<1>8. \A p \in Direct : Calm(p)' => Calm(p) /\ ~WorkedOn(p)
    BY <1>1, Bounds DEF Calm
<1>9. PaymentsAtRestOK'
    BY <1>1, <1>8 DEF PaymentsAtRestOK, AtRestOK, paymentVars, goodsVars
<1>10. AdminOK'
    <2>1. admin.pc # "idle" => admin.p \in Direct
        BY DEF AboutOK
    <2>2. admin' = admin /\ status' = status /\ meta' = meta /\ panel' = panel
        BY <1>1 DEF paymentVars, goodsVars
    <2> QED
        BY <1>8, <2>1, <2>2 DEF AdminOK, Calm
<1> QED
    BY <1>3, <1>4, <1>5, <1>6, <1>7, <1>9, <1>10

-----------------------------------------------------------------------------
(* The steps of the thread and of AdminBot.                                *)

\* They touch neither a task nor an order.
LEMMA OutsideKeeps ==
    ASSUME TypeOK, Inv, UNCHANGED <<task, order, charged, refunded, begun>>,
           \A o \in Orders : panel'[o] = panel[o] /\ upset'[o] = upset[o]
    PROVE  TasksOK' /\ OrdersOK' /\ HandlerOK'
<1>1. TasksOK'
    BY DEF Inv, TasksOK, TaskOK, P
<1> QED
    BY <1>1, OrdersApart DEF Inv

\* What a payment's delivery is judged by.
LEMMA DeliveryKept ==
    ASSUME DeliveriesOK, UNCHANGED task, NEW p \in Direct,
           Calm(p)' => Calm(p),
           Calm(p)' /\ WorkedOn(p) =>
               /\ status[p] = "approved" => status'[p] = "approved"
               /\ meta[p].done = "processing" => meta'[p].done = "processing"
               /\ panel'[p] \subseteq panel[p]
               /\ panel[p] \subseteq services[p] => panel'[p] \subseteq services'[p],
           NEW t \in Tasks, D(t) = p
    PROVE  DeliveryOK(t)'
<1>1. DeliveryOK(t) /\ \A u \in Tasks : D(u)' = D(u) /\ task'[u] = task[u]
    BY DEF DeliveriesOK, D, P
<1>2. WorkedOn(p)
    BY WorkedOnIs, Bounds
<1>3. Calm(D(t))' <=> Calm(p)'
    BY <1>1
<1> QED
    BY <1>1, <1>2, <1>3 DEF DeliveryOK

\* Nothing but the thread's own state changes.
LEMMA ThreadOnlyKeeps ==
    ASSUME TypeOK, Inv, UNCHANGED <<renewal, broken, paymentVars, order, moneyVars, goodsVars, task, admin, begun, upset>>
    PROVE  TasksOK' /\ OrdersOK' /\ HandlerOK' /\ DeliveriesOK' /\ PaymentsAtRestOK' /\ AdminOK'
<1> USE DEF Inv, paymentVars, moneyVars, goodsVars
<1>1. TasksOK' /\ OrdersOK' /\ HandlerOK'
    BY OutsideKeeps
<1>2. DeliveriesOK' /\ PaymentsAtRestOK' /\ AdminOK'
    BY PaymentsApart
<1> QED
    BY <1>1, <1>2

LEMMA ThreadKeeps ==
    ASSUME TypeOK, Inv, (\E p \in Direct : SmsMatch(p)) \/ ThreadStep
    PROVE  Inv'
<1> USE DEF Inv
<1>t. /\ thread \in ThreadRec
      /\ status \in [Direct -> Statuses] /\ meta \in [Direct -> MetaRecords]
      /\ upset \in [Purchases -> SUBSET Causes]
    BY DEF TypeOK, ThreadRec
<1>1. ASSUME NEW p \in Direct, SmsMatch(p) PROVE Inv'
    <2>1. UNCHANGED <<renewal, broken, paymentVars, order, moneyVars, goodsVars, task, admin, begun, upset>>
        BY <1>1 DEF SmsMatch, threadOnly, counters, goodsAndMoney
    <2>2. thread'.pc = "approve" /\ thread'.p = p
        BY <1>1, Idles DEF SmsMatch, ThreadRec
    <2>3. AboutOK'
        BY <2>1, <2>2 DEF AboutOK, paymentVars
    <2> QED
        BY <2>1, <2>3, ThreadOnlyKeeps
<1>2. CASE SmsLook
    <2>1. UNCHANGED <<renewal, broken, paymentVars, order, moneyVars, goodsVars, task, admin, begun, upset>>
        BY <1>2 DEF SmsLook, threadOnly, counters, goodsAndMoney
    <2>2. thread.p \in Direct
        BY <1>2 DEF SmsLook, AboutOK
    <2>3. thread'.pc = "write" /\ thread'.p = thread.p /\ thread'.seen = meta[thread.p]
        BY <1>2, <1>t DEF SmsLook, ThreadRec
    <2>4. AboutOK'
        BY <2>1, <2>2, <2>3 DEF AboutOK, paymentVars
    <2> QED
        BY <2>1, <2>4, ThreadOnlyKeeps
<1>3. CASE SmsApprove
    <2>1. /\ UNCHANGED <<renewal, broken, meta, order, moneyVars, goodsVars, task, admin, begun, upset>>
          /\ thread.pc = "approve" /\ status' = [status EXCEPT ![thread.p] = "approved"]
        BY <1>3 DEF SmsApprove, threadOnly, counters, goodsAndMoney
    <2>2. thread'.pc = "look" /\ thread'.p = thread.p /\ thread.p \in Direct
        BY <1>3, <1>t DEF SmsApprove, ThreadRec, AboutOK
    <2>3. AboutOK'
        BY <2>1, <2>2 DEF AboutOK
    <2>4. TasksOK' /\ OrdersOK' /\ HandlerOK'
        BY <2>1, OutsideKeeps DEF moneyVars, goodsVars
    <2>5. \A q \in Direct : status'[q] = status[q] \/ status'[q] = "approved"
        BY <1>t, <2>1, <2>2
    <2>6. \A q : (Calm(q)' <=> Calm(q)) /\ (WorkedOn(q)' <=> WorkedOn(q))
        BY <2>1 DEF Calm, WorkedOn
    <2>7. DeliveriesOK'
        <3> SUFFICES ASSUME NEW t \in Tasks, D(t) \in Direct PROVE DeliveryOK(t)'
            BY <2>1 DEF DeliveriesOK, DeliveryOK, D, P
        <3>1. PICK q \in Direct : q = D(t)
            OBVIOUS
        <3> QED
            BY <2>1, <2>5, <2>6, <3>1, DeliveryKept DEF goodsVars
    <2>8. PaymentsAtRestOK'
        BY <2>1, <2>5, <2>6 DEF PaymentsAtRestOK, AtRestOK, goodsVars
    <2>9. AdminOK'
        <3>1. admin.pc # "idle" => admin.p \in Direct
            BY DEF AboutOK
        <3> QED
            BY <2>1, <2>5, <2>6, <3>1 DEF AdminOK, goodsVars
    <2> QED
        BY <2>3, <2>4, <2>7, <2>8, <2>9
\* The thread writes back what it has read: what was written between is lost,
\* and noticed.
<1>4. CASE SmsWrite
    <2>1. /\ UNCHANGED <<renewal, broken, status, order, moneyVars, goodsVars, task, admin, begun>>
          /\ thread.pc = "write" /\ meta' = [meta EXCEPT ![thread.p] = thread.seen]
          /\ thread' = NoMessage
        BY <1>4 DEF SmsWrite, threadOnly, counters, goodsAndMoney
    <2>2. thread.p \in Direct
        BY <2>1 DEF AboutOK
    <2>3. /\ \A q \in Direct \ {thread.p} : meta'[q] = meta[q]
          /\ meta'[thread.p] = thread.seen
          /\ \A q \in Purchases \ {thread.p} : upset'[q] = upset[q]
          /\ \/ upset'[thread.p] # {}
             \/ meta'[thread.p] = meta[thread.p] /\ upset'[thread.p] = upset[thread.p]
        <3>1. CASE meta[thread.p] = thread.seen
            BY <1>4, <1>t, <2>1, <2>2, <3>1, Bounds DEF SmsWrite
        <3>2. CASE meta[thread.p] # thread.seen
            <4>1. Upset(thread.p, "erased")
                BY <1>4, <3>2 DEF SmsWrite
            <4>2. thread.p \in Purchases /\ "erased" \in Causes
                BY <2>2, Bounds DEF Causes
            <4>3. upset'[thread.p] # {} /\ \A q \in Purchases \ {thread.p} : upset'[q] = upset[q]
                BY <4>1, <4>2, UpsetGrows
            <4> QED
                BY <1>t, <2>1, <2>2, <4>3
        <3> QED
            BY <3>1, <3>2
    <2>4. AboutOK'
        BY <2>1, <2>2, <2>3, Idles DEF AboutOK
    <2>5. TasksOK' /\ OrdersOK' /\ HandlerOK'
        <3>1. \A o \in Orders : o \in Purchases \ {thread.p}
            BY <2>2, Bounds
        <3> QED
            BY <2>1, <2>3, <3>1, OutsideKeeps DEF moneyVars, goodsVars
    <2>6. \A q \in Direct : Calm(q)' => Calm(q) /\ meta'[q] = meta[q]
        BY <2>3, Bounds DEF Calm
    <2>7. \A q : WorkedOn(q)' <=> WorkedOn(q)
        BY <2>1 DEF WorkedOn
    <2>8. DeliveriesOK'
        <3> SUFFICES ASSUME NEW t \in Tasks, D(t) \in Direct PROVE DeliveryOK(t)'
            BY <2>1 DEF DeliveriesOK, DeliveryOK, D, P
        <3>1. PICK q \in Direct : q = D(t)
            OBVIOUS
        <3> QED
            BY <2>1, <2>6, <3>1, DeliveryKept DEF goodsVars
    <2>9. PaymentsAtRestOK'
        BY <2>1, <2>6, <2>7 DEF PaymentsAtRestOK, AtRestOK, goodsVars
    <2>10. AdminOK'
        <3>1. admin.pc # "idle" => admin.p \in Direct
            BY DEF AboutOK
        <3> QED
            BY <2>1, <2>6, <3>1 DEF AdminOK, goodsVars
    <2> QED
        BY <2>4, <2>5, <2>8, <2>9, <2>10
<1>5. CASE SmsStops
    <2>1. /\ UNCHANGED <<renewal, broken, paymentVars, order, moneyVars, goodsVars, task, admin, begun, upset>>
          /\ thread' = NoMessage
        BY <1>5 DEF SmsStops, threadOnly, counters, goodsAndMoney
    <2>2. AboutOK'
        BY <2>1, Idles DEF AboutOK
    <2> QED
        BY <2>1, <2>2, ThreadOnlyKeeps
<1> QED
    BY <1>1, <1>2, <1>3, <1>4, <1>5 DEF ThreadStep

\* What every step of AdminBot leaves as it is, but for the payment it is
\* about.
LEMMA AdminMoves ==
    ASSUME TypeOK, AboutOK, AdminStep
    PROVE  /\ admin.pc # "idle" /\ admin.p \in Direct /\ admin.p \in Purchases
           /\ UNCHANGED <<renewal, broken, order, moneyVars, task, thread, begun>>
           /\ admin' = NoPress \/ (admin'.p = admin.p /\ admin'.pc # "idle")
           /\ \A q \in Purchases \ {admin.p} :
                  /\ panel'[q] = panel[q] /\ services'[q] = services[q] /\ upset'[q] = upset[q]
           /\ \A q \in Direct \ {admin.p} : status'[q] = status[q] /\ meta'[q] = meta[q]
           /\ upset'[admin.p] = upset[admin.p] \/ upset'[admin.p] # {}
<1>1. admin.pc # "idle" /\ UNCHANGED <<renewal, broken, order, moneyVars, task, thread, begun>>
    BY DEF AdminStep, AdminChange, AdminReset, AdminRevert, AdminUndo, AdminUndoPartly,
           AdminUndoFails, AdminStops, AdminMark,
           adminOnly
<1>2. admin.p \in Direct /\ admin.p \in Purchases
    BY <1>1, Bounds DEF AboutOK
<1>3. \/ admin' = NoPress
      \/ \E pc \in {"reset", "revert", "undo", "mark"} :
             \/ admin' = [admin EXCEPT !.pc = pc]
             \/ admin' = [admin EXCEPT !.pc = pc, !.sid = meta[admin.p].sid]
    BY DEF AdminStep, AdminChange, AdminReset, AdminRevert, AdminUndo, AdminUndoPartly,
           AdminUndoFails, AdminStops, AdminMark,
           AfterChange
<1>4. admin' = NoPress \/ (admin'.p = admin.p /\ admin'.pc # "idle")
    <2>1. admin \in AdminRec
        BY DEF TypeOK, AdminRec, AdminPCs
    <2> QED
        BY <1>3, <2>1 DEF AdminRec, AdminPCs
<1>5. upset' = upset \/ \E cause \in {"erased", "partial", "stopped"} : Upset(admin.p, cause)
    BY DEF AdminStep, AdminChange, AdminReset, AdminRevert, AdminUndo, AdminUndoPartly,
           AdminUndoFails, AdminStops, AdminMark
<1>6. /\ \A q \in Purchases \ {admin.p} : upset'[q] = upset[q]
      /\ upset'[admin.p] = upset[admin.p] \/ upset'[admin.p] # {}
    BY <1>2, <1>5, UpsetGrows DEF Causes
<1>7. \/ UNCHANGED goodsVars
      \/ \E gone : /\ panel' = panel \/ panel' = [panel EXCEPT ![admin.p] = @ \ gone]
                   /\ services' = [services EXCEPT ![admin.p] = @ \ gone]
    BY DEF AdminStep, AdminChange, AdminReset, AdminRevert, AdminUndo, AdminUndoPartly,
           AdminUndoFails, AdminStops, AdminMark
<1>8. \A q \in Purchases \ {admin.p} : panel'[q] = panel[q] /\ services'[q] = services[q]
    BY <1>2, <1>7 DEF TypeOK, goodsVars
<1>9. \/ UNCHANGED <<status, meta>>
      \/ UNCHANGED meta /\ \E s : status' = [status EXCEPT ![admin.p] = s]
      \/ UNCHANGED status /\ \E m : meta' = [meta EXCEPT ![admin.p] = m]
    BY DEF AdminStep, AdminChange, AdminReset, AdminRevert, AdminUndo, AdminUndoPartly,
           AdminUndoFails, AdminStops, AdminMark,
           paymentVars
<1>10. \A q \in Direct \ {admin.p} : status'[q] = status[q] /\ meta'[q] = meta[q]
    BY <1>2, <1>9 DEF TypeOK
<1> QED
    BY <1>1, <1>2, <1>4, <1>6, <1>8, <1>10

\* So it is enough to look at that payment.
LEMMA AdminApart ==
    ASSUME TypeOK, Inv, AdminStep, NEW p \in Direct, p = admin.p,
           Calm(p)' /\ WorkedOn(p) =>
               /\ status'[p] = status[p] \/ status'[p] = "approved"
               /\ meta'[p].done = meta[p].done
               /\ panel'[p] \subseteq panel[p]
               /\ panel[p] \subseteq services[p] => panel'[p] \subseteq services'[p],
           AtRestOK(p)',
           AdminOK'
    PROVE  Inv'
<1> USE DEF Inv
<1>1. /\ admin.pc # "idle"
      /\ UNCHANGED <<renewal, broken, order, moneyVars, task, thread, begun>>
      /\ admin' = NoPress \/ (admin'.p = p /\ admin'.pc # "idle")
      /\ \A q \in Purchases \ {p} :
             /\ panel'[q] = panel[q] /\ services'[q] = services[q] /\ upset'[q] = upset[q]
      /\ \A q \in Direct \ {p} : status'[q] = status[q] /\ meta'[q] = meta[q]
      /\ upset'[p] = upset[p] \/ upset'[p] # {}
    BY AdminMoves
<1>2. \A q \in Direct : Calm(q)' => Calm(q)
    BY <1>1, Bounds DEF Calm
<1>3. TasksOK' /\ OrdersOK' /\ HandlerOK'
    <2>1. \A o \in Orders : o \in Purchases \ {p}
        BY Bounds
    <2> QED
        BY <1>1, <2>1, OutsideKeeps DEF moneyVars
<1>4. AboutOK'
    BY <1>1, Idles DEF AboutOK
<1>5. DeliveriesOK'
    <2> SUFFICES ASSUME NEW t \in Tasks, D(t) \in Direct PROVE DeliveryOK(t)'
        BY <1>1 DEF DeliveriesOK, DeliveryOK, D, P
    <2>1. CASE D(t) = p
        <3>1. WorkedOn(p)
            BY <2>1, WorkedOnIs, Bounds
        <3> QED
            BY <1>1, <1>2, <2>1, <3>1, DeliveryKept
    <2>2. CASE D(t) # p
        <3>1. PICK q \in Direct : q = D(t)
            OBVIOUS
        <3>2. q \in Purchases \ {p}
            BY <2>2, <3>1, Bounds
        <3> QED
            BY <1>1, <1>2, <2>2, <3>1, <3>2, DeliveryKept
    <2> QED
        BY <2>1, <2>2
<1>6. PaymentsAtRestOK'
    <2>1. ASSUME NEW q \in Direct \ {p} PROVE AtRestOK(q)'
        <3>1. AtRestOK(q) /\ q \in Purchases \ {p}
            BY Bounds DEF PaymentsAtRestOK
        <3>2. WorkedOn(q)' <=> WorkedOn(q)
            BY <1>1 DEF WorkedOn
        <3> QED
            BY <1>1, <1>2, <3>1, <3>2 DEF AtRestOK
    <2> QED
        BY <2>1 DEF PaymentsAtRestOK
<1> QED
    BY <1>3, <1>4, <1>5, <1>6

LEMMA PressKeeps ==
    ASSUME TypeOK, Inv, NEW p \in Direct, NEW target \in Statuses, AdminPress(p, target)
    PROVE  Inv'
<1> USE DEF Inv
<1>1. /\ admin.pc = "idle"
      /\ admin' = [NoPress EXCEPT !.pc = "change", !.p = p, !.target = target, !.prev = status[p]]
      /\ UNCHANGED <<renewal, broken, status, meta, order, moneyVars, goodsVars, task, thread, begun, upset>>
    BY DEF AdminPress, adminOnly, paymentVars
<1>2. admin'.pc = "change" /\ admin'.p = p
    BY <1>1, Idles DEF AdminRec
<1>3. TasksOK' /\ OrdersOK' /\ HandlerOK'
    BY <1>1, OutsideKeeps DEF moneyVars, goodsVars
<1>4. AboutOK'
    BY <1>1, <1>2 DEF AboutOK
<1>5. \A q : (Calm(q)' <=> Calm(q)) /\ (WorkedOn(q)' <=> WorkedOn(q))
    BY <1>1 DEF Calm, WorkedOn
<1>6. DeliveriesOK'
    <2> SUFFICES ASSUME NEW t \in Tasks, D(t) \in Direct PROVE DeliveryOK(t)'
        BY <1>1 DEF DeliveriesOK, DeliveryOK, D, P
    <2>1. PICK q \in Direct : q = D(t)
        OBVIOUS
    <2> QED
        BY <1>1, <1>5, <2>1, DeliveryKept DEF goodsVars
<1>7. PaymentsAtRestOK'
    BY <1>1, <1>5 DEF PaymentsAtRestOK, AtRestOK, goodsVars
<1>8. AdminOK'
    BY <1>2 DEF AdminOK
<1> QED
    BY <1>3, <1>4, <1>6, <1>7, <1>8

LEMMA WorkedSays ==
    ASSUME Inv, NEW p \in Direct, Calm(p), WorkedOn(p)
    PROVE  meta[p].done = "processing" /\ status[p] = "approved"
<1>1. PICK t \in Tasks : D(t) = p
    BY WorkedOnIs, Bounds
<1> QED
    BY <1>1 DEF Inv, DeliveriesOK, DeliveryOK

\* What is delivered and not approved, AdminBot undoes.
LEMMA AdminChangeKeeps ==
    ASSUME TypeOK, Inv, AdminChange
    PROVE  Inv'
<1>0. AdminStep
    BY DEF AdminStep
<1>1. PICK p \in Direct : p = admin.p
    BY <1>0, AdminMoves DEF Inv
<1>t. /\ admin \in AdminRec /\ status \in [Direct -> Statuses] /\ meta \in [Direct -> MetaRecords]
      /\ p \in Purchases
    BY <1>1, Bounds DEF TypeOK, AdminRec, AdminPCs
<1>2. /\ admin.pc = "change" /\ status' = [status EXCEPT ![p] = admin.target]
      /\ UNCHANGED <<renewal, broken, meta, goodsVars, task>>
      /\ \/ admin' = NoPress /\ AfterChange(admin.prev, admin.target) = "idle"
         \/ admin' = [admin EXCEPT !.pc = AfterChange(admin.prev, admin.target)]
    BY <1>1 DEF AdminChange, adminOnly
<1>3. admin'.pc = AfterChange(admin.prev, admin.target) /\ (admin'.pc # "idle" => admin'.p = p)
    BY <1>1, <1>2, <1>t, Idles DEF AdminRec, AdminPCs, AfterChange
<1>4. AdminOK'
    <2>1. admin'.pc \in {"idle", "reset", "revert"}
        BY <1>3 DEF AfterChange
    <2> QED
        BY <2>1 DEF AdminOK
<1>6. CASE admin.target = "approved"
    <2>1. status'[p] = "approved" /\ upset' = upset
        BY <1>1, <1>2, <1>6, <1>t DEF AdminChange
    <2>2. AtRestOK(p)'
        BY <1>2, <2>1 DEF Inv, PaymentsAtRestOK, AtRestOK, Calm, WorkedOn, goodsVars
    <2> QED
        BY <1>0, <1>1, <1>2, <1>4, <2>1, <2>2, AdminApart DEF goodsVars
<1>7. CASE admin.target # "approved"
    <2>1. Calm(p)' => Calm(p) /\ ~WorkedOn(p) /\ (status[p] = "approved" => admin.prev = "approved")
        <3>1. CASE Upset(p, "erased")
            BY <3>1, <1>t, UpsetGrows DEF Causes, Calm
        <3>2. CASE ~Upset(p, "erased")
            BY <1>1, <1>7, <3>2 DEF AdminChange, Calm
        <3> QED
            BY <3>1, <3>2
    <2>2. AtRestOK(p)'
        <3> SUFFICES ASSUME Calm(p)' PROVE AtRestOK(p)'
            BY DEF AtRestOK
        <3>1. Calm(p) /\ ~WorkedOn(p) /\ AtRestOK(p) /\ meta[p].done # "processing"
            BY <2>1 DEF Inv, PaymentsAtRestOK, AtRestOK
        <3>2. meta[p].done = "1" => admin'.pc = "revert" /\ admin'.p = p
            BY <1>2, <1>3, <1>7, <2>1, <3>1 DEF AtRestOK, AfterChange
        <3> QED
            BY <1>2, <3>1, <3>2 DEF AtRestOK, goodsVars
    <2> QED
        BY <1>0, <1>1, <1>4, <2>1, <2>2, AdminApart
<1> QED
    BY <1>6, <1>7

LEMMA AdminResetKeeps ==
    ASSUME TypeOK, Inv, AdminReset
    PROVE  Inv'
<1>0. AdminStep
    BY DEF AdminStep
<1>1. PICK p \in Direct : p = admin.p
    BY <1>0, AdminMoves DEF Inv
<1>t. meta \in [Direct -> MetaRecords] /\ p \in Purchases
    BY <1>1, Bounds DEF TypeOK
<1>2. /\ meta'[p].done = "none" /\ admin' = NoPress
      /\ UNCHANGED <<renewal, broken, status, goodsVars, task>>
      /\ IF meta[p].done \in {"processing", "1"} THEN Upset(p, "erased") ELSE UNCHANGED upset
    BY <1>1, <1>t, Idles DEF AdminReset, adminOnly, Fresh
<1>3. meta[p].done \in DoneStates
    BY <1>t DEF MetaRecords
<1>4. AdminOK'
    BY <1>2, Idles DEF AdminOK
<1>5. Calm(p)' => Calm(p) /\ ~WorkedOn(p) /\ panel[p] = {}
    <2>1. Calm(p)' => Calm(p) /\ meta[p].done \notin {"processing", "1"}
        BY <1>2, <1>t, UpsetGrows DEF Causes, Calm
    <2>2. Calm(p)' => ~WorkedOn(p)
        BY <2>1, WorkedSays
    <2> QED
        BY <1>3, <2>1, <2>2 DEF Inv, PaymentsAtRestOK, AtRestOK, DoneStates
<1>6. AtRestOK(p)'
    BY <1>2, <1>5 DEF AtRestOK, goodsVars
<1> QED
    BY <1>0, <1>1, <1>3, <1>4, <1>5, <1>6, AdminApart

LEMMA AdminRevertKeeps ==
    ASSUME TypeOK, Inv, AdminRevert
    PROVE  Inv'
<1>0. AdminStep
    BY DEF AdminStep
<1>1. PICK p \in Direct : p = admin.p
    BY <1>0, AdminMoves DEF Inv
<1>t. admin \in AdminRec /\ meta \in [Direct -> MetaRecords] /\ panel \in [Purchases -> SUBSET (Attempts \cup {1})]
    BY DEF TypeOK, AdminRec, AdminPCs
<1> DEFINE sid == meta[p].sid
           found == sid # NoAttempt /\ (p \in renewal \/ sid \in services[p])
<1>2. /\ admin.pc = "revert" /\ UNCHANGED <<renewal, broken, status, meta, goodsVars, task, upset>>
      /\ admin' = [admin EXCEPT !.pc = IF found THEN "undo" ELSE "mark", !.sid = sid]
    BY <1>1 DEF AdminRevert, adminOnly, paymentVars
<1>3. /\ admin'.p = p /\ admin'.pc \in {"undo", "mark"}
      /\ admin'.pc = "undo" => admin'.sid = meta[p].sid
      /\ admin'.pc = "mark" => ~found
    BY <1>1, <1>2, <1>t DEF AdminRec
<1>4. Calm(p)' <=> Calm(p)
    BY <1>2 DEF Calm
<1>5. Calm(p) /\ status[p] # "approved" /\ ~found => panel[p] = {}
    <2> SUFFICES ASSUME Calm(p), status[p] # "approved", ~found PROVE panel[p] = {}
        OBVIOUS
    <2>1. AtRestOK(p) /\ meta[p].done \in DoneStates
        BY <1>t DEF Inv, PaymentsAtRestOK, MetaRecords
    <2>2. CASE meta[p].done = "processing"
        BY <2>1, <2>2, WorkedSays DEF AtRestOK
    <2>3. CASE meta[p].done = "1"
        BY <2>1, <2>3 DEF AtRestOK
    <2> QED
        BY <2>1, <2>2, <2>3 DEF AtRestOK, DoneStates
<1>6. AdminOK'
    <2>1. admin'.pc = "mark" /\ Calm(p)' /\ status'[p] # "approved" => panel'[p] = {}
        BY <1>2, <1>3, <1>4, <1>5 DEF goodsVars
    <2>2. Calm(admin.p)' <=> Calm(p)'
        BY <1>3 DEF Calm
    <2> QED
        BY <1>2, <1>3, <2>1, <2>2 DEF AdminOK
<1>7. AtRestOK(p)'
    BY <1>2, <1>3, <1>4 DEF Inv, PaymentsAtRestOK, AtRestOK, WorkedOn, goodsVars
<1> QED
    BY <1>0, <1>1, <1>2, <1>6, <1>7, AdminApart DEF goodsVars

LEMMA AdminUndoKeeps ==
    ASSUME TypeOK, Inv, AdminUndo
    PROVE  Inv'
<1>0. AdminStep
    BY DEF AdminStep
<1>1. PICK p \in Direct : p = admin.p
    BY <1>0, AdminMoves DEF Inv
<1>t. /\ admin \in AdminRec /\ meta \in [Direct -> MetaRecords]
      /\ panel \in [Purchases -> SUBSET (Attempts \cup {1})]
      /\ services \in [Purchases -> SUBSET (Attempts \cup {1})]
      /\ p \in Purchases
    BY <1>1, Bounds DEF TypeOK, AdminRec, AdminPCs
<1> DEFINE gone == IF p \in renewal THEN Attempts ELSE {admin.sid}
<1>2. /\ admin.pc = "undo" /\ UNCHANGED <<renewal, broken, status, meta, task, upset>>
      /\ panel' = [panel EXCEPT ![p] = @ \ gone]
      /\ services' = [services EXCEPT ![p] = @ \ gone]
      /\ admin' = [admin EXCEPT !.pc = "mark"]
    BY <1>1 DEF AdminUndo, adminOnly, paymentVars
<1>3. admin'.p = p /\ admin'.pc = "mark"
    BY <1>1, <1>2, <1>t DEF AdminRec, AdminPCs
<1>4. panel'[p] = panel[p] \ gone /\ services'[p] = services[p] \ gone
    BY <1>2, <1>t
<1>5. Calm(p)' <=> Calm(p)
    BY <1>2 DEF Calm
<1>6. Calm(p) /\ status[p] # "approved" => panel[p] \ gone = {}
    <2> SUFFICES ASSUME Calm(p), status[p] # "approved" PROVE panel[p] \ gone = {}
        OBVIOUS
    <2>1. AtRestOK(p) /\ meta[p].done \in DoneStates /\ meta[p].sid \in Attempts \cup {NoAttempt}
        BY <1>t DEF Inv, PaymentsAtRestOK, MetaRecords
    <2>2. CASE meta[p].done = "processing"
        BY <2>1, <2>2, WorkedSays DEF AtRestOK
    <2>3. CASE meta[p].done = "1"
        <3>1. admin.sid = meta[p].sid
            BY <1>1, <1>2, <2>3 DEF Inv, AdminOK
        <3>2. panel[p] \subseteq {meta[p].sid} /\ meta[p].sid \in Attempts
            BY <2>1, <2>3 DEF AtRestOK
        <3> QED
            BY <3>1, <3>2
    <2> QED
        BY <2>1, <2>2, <2>3 DEF AtRestOK, DoneStates
<1>7. AdminOK'
    <2>1. Calm(admin.p)' <=> Calm(p)'
        BY <1>3 DEF Calm
    <2> QED
        BY <1>2, <1>3, <1>4, <1>5, <1>6, <2>1 DEF AdminOK
<1>8. AtRestOK(p)'
    <2> HIDE DEF gone
    <2>1. (WorkedOn(p)' <=> WorkedOn(p)) /\ AtRestOK(p)
        BY <1>2 DEF WorkedOn, Inv, PaymentsAtRestOK
    <2> QED
        BY <1>2, <1>3, <1>4, <1>5, <2>1 DEF AtRestOK
<1>10. /\ panel'[p] \subseteq panel[p]
       /\ panel[p] \subseteq services[p] => panel'[p] \subseteq services'[p]
    BY <1>4
<1> QED
    BY <1>0, <1>1, <1>2, <1>7, <1>8, <1>10, AdminApart

LEMMA AdminUndoFailsKeeps ==
    ASSUME TypeOK, Inv, AdminUndoFails
    PROVE  Inv'
<1>0. AdminStep
    BY DEF AdminStep
<1>1. PICK p \in Direct : p = admin.p
    BY <1>0, AdminMoves DEF Inv
<1>2. /\ UNCHANGED <<renewal, broken, meta, goodsVars, task, upset>> /\ admin' = NoPress
      /\ status'[p] = "approved"
    BY <1>1 DEF AdminUndoFails, adminOnly, TypeOK
<1>3. AdminOK'
    BY <1>2, Idles DEF AdminOK
<1>4. AtRestOK(p)'
    BY <1>2 DEF Inv, PaymentsAtRestOK, AtRestOK, Calm, WorkedOn, goodsVars
<1> QED
    BY <1>0, <1>1, <1>2, <1>3, <1>4, AdminApart DEF goodsVars

LEMMA AdminMarkKeeps ==
    ASSUME TypeOK, Inv, AdminMark
    PROVE  Inv'
<1>0. AdminStep
    BY DEF AdminStep
<1>1. PICK p \in Direct : p = admin.p
    BY <1>0, AdminMoves DEF Inv
<1>t. meta \in [Direct -> MetaRecords] /\ p \in Purchases
    BY <1>1, Bounds DEF TypeOK
<1>2. /\ admin.pc = "mark" /\ UNCHANGED <<renewal, broken, status, goodsVars, task>> /\ admin' = NoPress
      /\ IF WorkedOn(p) \/ status[p] = "approved" THEN Upset(p, "erased") ELSE UNCHANGED upset
    BY <1>1 DEF AdminMark, adminOnly
<1>3. meta'[p].done = "reverted"
    BY <1>1, <1>t DEF AdminMark
<1>4. AdminOK'
    BY <1>2, Idles DEF AdminOK
<1>5. Calm(p)' => Calm(p) /\ ~WorkedOn(p) /\ status[p] # "approved"
    BY <1>2, <1>t, UpsetGrows DEF Causes, Calm
<1>6. AtRestOK(p)'
    <2>1. Calm(p)' => panel[p] = {}
        BY <1>1, <1>2, <1>5 DEF Inv, AdminOK
    <2> QED
        BY <1>2, <1>3, <2>1 DEF AtRestOK, goodsVars
<1> QED
    BY <1>0, <1>1, <1>4, <1>5, <1>6, AdminApart

\* An undo that reached a node only, and a button that is not seen through, are
\* blamed.
LEMMA AdminUndoPartlyKeeps ==
    ASSUME TypeOK, Inv, AdminUndoPartly
    PROVE  Inv'
<1>0. AdminStep
    BY DEF AdminStep
<1>1. PICK p \in Direct : p = admin.p
    BY <1>0, AdminMoves DEF Inv
<1>2. p \in Purchases /\ admin \in AdminRec
    BY <1>1, Bounds DEF TypeOK, AdminRec, AdminPCs
<1>3. /\ Upset(p, "partial") /\ admin' = [admin EXCEPT !.pc = "mark"]
    BY <1>1 DEF AdminUndoPartly
<1>4. ~Calm(p)' /\ admin'.p = p
    BY <1>1, <1>2, <1>3, UpsetGrows DEF Calm, Causes, AdminRec
<1>5. AdminOK'
    <2>1. Calm(admin.p)' <=> Calm(p)'
        BY <1>4 DEF Calm
    <2> QED
        BY <1>4, <2>1 DEF AdminOK
<1>6. AtRestOK(p)'
    BY <1>4 DEF AtRestOK
<1> QED
    BY <1>0, <1>1, <1>4, <1>5, <1>6, AdminApart

LEMMA AdminStopsKeeps ==
    ASSUME TypeOK, Inv, AdminStops
    PROVE  Inv'
<1>0. AdminStep
    BY DEF AdminStep
<1>1. PICK p \in Direct : p = admin.p
    BY <1>0, AdminMoves DEF Inv
<1>2. p \in Purchases
    BY Bounds
<1>3. /\ admin' = NoPress /\ UNCHANGED <<renewal, broken, status, meta, goodsVars, task>>
      /\ IF admin.pc \in {"revert", "undo", "mark"} THEN Upset(p, "stopped") ELSE UNCHANGED upset
    BY <1>1 DEF AdminStops, adminOnly, paymentVars
<1>4. Calm(p)' => Calm(p) /\ admin.pc \notin {"revert", "undo", "mark"}
    BY <1>2, <1>3, UpsetGrows DEF Calm, Causes
<1>5. AdminOK'
    BY <1>3, Idles DEF AdminOK
<1>6. AtRestOK(p)'
    <2>1. WorkedOn(p)' <=> WorkedOn(p)
        BY <1>3 DEF WorkedOn
    <2> QED
        BY <1>1, <1>3, <1>4, <2>1 DEF Inv, PaymentsAtRestOK, AtRestOK, goodsVars
<1> QED
    BY <1>0, <1>1, <1>3, <1>5, <1>6, AdminApart DEF goodsVars

-----------------------------------------------------------------------------
LEMMA InitInv == Init => TypeOK /\ Inv
<1> SUFFICES ASSUME Init PROVE TypeOK /\ Inv
    OBVIOUS
<1>1. TypeOK
    <2>1. task \in [Tasks -> TaskRec] /\ admin \in AdminRec /\ thread \in ThreadRec
        BY Idles DEF Init
    <2>2. /\ status \in [Direct -> Statuses] /\ meta \in [Direct -> MetaRecords]
          /\ order \in [Orders -> {"new", "running", "done", "failed"}]
        BY Idles DEF Init, Statuses
    <2>3. /\ balance \in Nat /\ begun \in [Direct -> 0..MaxAttempts]
          /\ presses \in 0..MaxPresses /\ crashes \in 0..MaxCrashes
        BY Bounds DEF Init
    <2>4. /\ renewal \in SUBSET Purchases /\ broken \in SUBSET Direct /\ crowded \in SUBSET Direct
          /\ charged \in SUBSET Orders /\ refunded \in SUBSET Orders
          /\ services \in [Purchases -> SUBSET (Attempts \cup {1})]
          /\ panel \in [Purchases -> SUBSET (Attempts \cup {1})]
          /\ upset \in [Purchases -> SUBSET Causes]
        BY DEF Init
    <2> QED
        BY <2>1, <2>2, <2>3, <2>4 DEF TypeOK, TaskRec, AdminRec, AdminPCs, ThreadRec
<1>2. \A t \in Tasks : task[t].pc = "idle" /\ P(t) = NoPurchase /\ D(t) = NoPurchase
    BY Idles DEF Init, D, P
<1>3. TasksOK /\ HandlerOK /\ DeliveriesOK
    BY <1>2, Bounds DEF TasksOK, TaskOK, HandlerOK, DeliveriesOK, DeliveryOK
<1>4. AboutOK
    BY Idles, Bounds DEF Init, AboutOK
<1>5. OrdersOK
    BY Bounds DEF Init, OrdersOK, OrderOK
<1>6. PaymentsAtRestOK /\ AdminOK
    BY Idles, Bounds DEF Init, PaymentsAtRestOK, AtRestOK, AdminOK
<1> QED
    BY <1>1, <1>3, <1>4, <1>5, <1>6 DEF Inv

LEMMA StepInv == TypeOK /\ Inv /\ [Next]_vars => TypeOK' /\ Inv'
<1> SUFFICES ASSUME TypeOK, Inv, [Next]_vars PROVE TypeOK' /\ Inv'
    OBVIOUS
<1>1. TypeOK'
    BY TypeStep DEF Inv
<1>2. ASSUME NEW t \in Tasks, TaskStep(t) PROVE Inv'
    <2>1. CASE Works(t)
        <3>1. P(t) \in Direct \/ P(t) \in Orders
            BY <2>1, TaskStepMoves, Bounds DEF Inv
        <3> QED
            BY <2>1, <3>1, DirectKeeps, OrderKeeps
    <2> QED
        BY <1>2, <2>1, StepKinds, SettleKeeps, SwallowKeeps, PassKeeps, ClaimKeeps
<1>3. CASE AdminStep
    BY <1>1, <1>3, AdminChangeKeeps, AdminResetKeeps, AdminRevertKeeps, AdminUndoKeeps,
       AdminUndoFailsKeeps, AdminMarkKeeps, AdminUndoPartlyKeeps, AdminStopsKeeps DEF AdminStep
<1>4. CASE UNCHANGED vars \/ \E p \in Direct : Crowd(p)
    <2>1. /\ UNCHANGED <<renewal, broken, paymentVars, order, moneyVars, goodsVars, task, admin, begun, upset>>
          /\ UNCHANGED thread
        BY <1>4 DEF vars, counters, Crowd, notTheirs, goodsAndMoney
    <2>2. AboutOK'
        BY <2>1 DEF Inv, AboutOK, paymentVars
    <2> QED
        BY <1>1, <2>1, <2>2, ThreadOnlyKeeps DEF Inv
<1>5. CASE (\E p \in Direct : SmsMatch(p)) \/ ThreadStep
    BY <1>1, <1>5, ThreadKeeps
<1>6. \/ \E p \in Direct : Crowd(p)
      \/ \E t \in Tasks, p \in Direct : ReadRow(t, p)
      \/ \E o \in Orders : StartOrder(o)
      \/ \E t \in Tasks : TaskStep(t)
      \/ (\E p \in Direct : SmsMatch(p)) \/ ThreadStep
      \/ \E p \in Direct : \E target \in Statuses : AdminPress(p, target)
      \/ AdminStep
      \/ Crash
      \/ UNCHANGED vars
    BY DEF Next
<1> QED
    BY <1>1, <1>2, <1>3, <1>4, <1>5, <1>6, ReadKeeps, OrderStartKeeps, PressKeeps, CrashKeeps

LEMMA Invariant == Spec => [](TypeOK /\ Inv)
BY InitInv, StepInv, PTL DEF Spec

-----------------------------------------------------------------------------
\* Every variable has its declared shape, for any number of payments and orders:
\* in particular the wallet is never overdrawn by the guarded debit.
THEOREM UserTypeCorrect == Spec => []TypeOK
BY Invariant, PTL

LEMMA AtMostOne ==
    ASSUME NEW S, NEW x, S \subseteq {x}
    PROVE  ~(Cardinality(S) > 1)
<1>1. S = {} \/ S = {x}
    OBVIOUS
<1>2. Cardinality(S) = 0 \/ Cardinality(S) = 1
    BY <1>1, FS_EmptySet, FS_Singleton
<1> QED
    BY <1>2

LEMMA CalmIsOnce ==
    ASSUME TypeOK, Inv, NEW p \in Direct, Calm(p)
    PROVE  ~(Cardinality(panel[p]) > 1)
<1>1. AtRestOK(p) /\ meta[p].done \in DoneStates
    BY DEF TypeOK, MetaRecords, Inv, PaymentsAtRestOK
<1>2. CASE meta[p].done = "processing"
    <2>1. PICK t \in Tasks : D(t) = p
        BY <1>1, <1>2, WorkedOnIs, Bounds DEF AtRestOK
    <2>2. panel[p] \subseteq {task[t].n}
        BY <2>1 DEF Inv, DeliveriesOK, DeliveryOK
    <2> QED
        BY <2>2, AtMostOne
<1>3. CASE meta[p].done = "1"
    <2>1. panel[p] \subseteq {meta[p].sid}
        BY <1>1, <1>3 DEF AtRestOK
    <2> QED
        BY <2>1, AtMostOne
<1>4. CASE meta[p].done \in {"none", "err", "invalid", "reverted"}
    <2>1. panel[p] \subseteq {NoAttempt}
        BY <1>1, <1>4 DEF AtRestOK
    <2> QED
        BY <2>1, AtMostOne
<1> QED
    BY <1>1, <1>2, <1>3, <1>4 DEF DoneStates

\* However the two tasks, the thread and AdminBot overlap, a card payment whose
\* delivery nothing has upset has one delivery on the panel at most.
THEOREM UserDeliveredOnce == Spec => []DeliveredOnce
<1>1. TypeOK /\ Inv => DeliveredOnce
    BY CalmIsOnce DEF DeliveredOnce, Calm
<1> QED
    BY <1>1, Invariant, PTL

\* A payment that is not approved, and that neither task, thread nor AdminBot is
\* working on, has nothing on the panel, unless something upset its delivery.
THEOREM UserNothingForFree == Spec => []NothingForFree
<1>1. TypeOK /\ Inv => NothingForFree
    <2> SUFFICES ASSUME TypeOK, Inv, NEW p \in Direct, Untouched(p), status[p] # "approved", Calm(p)
                 PROVE  panel[p] = {}
        BY DEF NothingForFree, Calm
    <2>1. AtRestOK(p) /\ meta[p].done \in DoneStates
        BY DEF TypeOK, MetaRecords, Inv, PaymentsAtRestOK
    <2>2. meta[p].done \notin {"processing", "1"}
        BY <2>1 DEF AtRestOK, Untouched, WorkedOn
    <2> QED
        BY <2>1, <2>2 DEF AtRestOK, DoneStates
<1> QED
    BY <1>1, Invariant, PTL

\* An order that got its money back has left nothing on the panel, and one that
\* failed without a refund is one of those the code does not refund.
THEOREM UserOrderSettled == Spec => []OrderSettled
<1>1. TypeOK /\ Inv => OrderSettled
    BY DEF OrderSettled, TypeOK, Inv, OrdersOK, OrderOK
<1> QED
    BY <1>1, Invariant, PTL
=============================================================================
