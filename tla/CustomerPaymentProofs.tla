------------------------ MODULE CustomerPaymentProofs ------------------------
(***************************************************************************)
(* The customer payment saga for any number of payments, attempts,         *)
(* services and crashes, with or without database errors, rewritten        *)
(* receipts and rejects of payments in processing.                         *)
(***************************************************************************)
EXTENDS CustomerPayment, AgentWalletProofs

TaskRec == [pc : TaskPCs, p : Payments \cup {NoPayment}, k : OptAttempts]
UsedRec == [keys : 0..MaxAttempts, messages : 0..MaxMessages, receipts : 0..MaxReceipts]

RowsOK ==
    /\ status \in [Payments -> Statuses]
    /\ claim \in [Payments -> OptAttempts]
    /\ orderDone \in [Payments -> BOOLEAN]

ServicesOK ==
    /\ created \subseteq Attempts
    /\ lastKey \in [Services -> OptAttempts]
    /\ panel \subseteq Attempts /\ lost \subseteq panel
    /\ renewed \in [Attempts -> Nat]

ProcessOK ==
    /\ bot \in {"down", "recover", "up"}
    /\ task \in [Tasks -> TaskRec]
    /\ rows \in [left : SUBSET Payments, owed : Payments \cup {NoPayment}]

CustomerOK ==
    /\ queued \in [Payments -> BOOLEAN]
    /\ receipt \in [Payments -> {"none", "notified", "answered"}]
    /\ used \in [Payments -> UsedRec]

\* The type invariant, store by store.
LEMMA TypeParts ==
    TypeOK <=> /\ WalletTypeOK /\ RowsOK /\ ServicesOK /\ ProcessOK /\ CustomerOK
               /\ crashes \in 0..MaxCrashes
BY DEF TypeOK, RowsOK, ServicesOK, ProcessOK, CustomerOK, TaskRec, UsedRec

-----------------------------------------------------------------------------
(***************************************************************************)
(* The inductive invariant.  A task that has gone past a point of the saga *)
(* has behind it what that point stands for: its own attempt at a payment  *)
(* with an order, then the debit, then the panel, then the books.  All of  *)
(* these are kept for good, so the other processes cannot take them away.  *)
(***************************************************************************)
OwnPCs == TaskPCs \ {"idle", "report"}
PaidPCs == {"notify", "fulfil", "panel", "store", "enable", "deliver", "finish", "refund"}
BookedPCs == {"enable", "deliver", "finish"}

Carried(k) == k \in panel /\ (k \in created \/ renewed[k] > 0)

TaskOK(r) ==
    /\ r.pc = "report" => r.p \in Payments
    /\ r.pc \in OwnPCs => r.p \in Buys \cup Renews /\ r.k \in AttemptsOf(r.p)
    /\ r.pc \in PaidPCs => Debited(r.k)
    /\ r.pc = "store" => r.k \in panel
    /\ r.pc \in BookedPCs => Carried(r.k)

TasksOK == \A t \in Tasks : TaskOK(task[t])

\* A key in a payment's row is the payment's own, and a claim has one.
ClaimsOK ==
    \A p \in Payments :
        /\ claim[p] # NoKey => claim[p] \in AttemptsOf(p)
        /\ status[p] = "processing" => claim[p] # NoKey

\* What the books show has been carried out.
BooksOK ==
    /\ created \subseteq panel
    /\ \A s \in Services :
           lastKey[s] # NoKey => lastKey[s] \in panel /\ renewed[lastKey[s]] > 0

Saga == TypeOK /\ TasksOK /\ ClaimsOK /\ BooksOK /\ PaidBefore /\ ApprovedIsDelivered

\* Facts about the money and the services that no step undoes.
Grows ==
    /\ \A x \in Keys : HasTx(x) => HasTx(x)'
    /\ panel \subseteq panel' /\ created \subseteq created'
    /\ \A k \in Attempts : renewed[k] <= renewed'[k]
    /\ ServicesOK /\ ServicesOK'

-----------------------------------------------------------------------------
(* The helpers the actions are made of.                                    *)

LEMMA AttemptKeys ==
    ASSUME NEW k \in Attempts
    PROVE  DebitKey(k) \in Keys /\ RefundKey(k) \in Keys
BY PaymentAssumption

LEMMA DebitIsTx ==
    ASSUME NEW k \in Attempts
    PROVE  Debit(k) \in Tx /\ Debit(k).amount \in Nat \ {0} /\ Debit(k).key = DebitKey(k)
BY AttemptKeys, PaymentAssumption DEF Debit, Entry, Tx, TxTypes

LEMMA RefundIsTx ==
    ASSUME NEW k \in Attempts
    PROVE  /\ Refund(k) \in Tx /\ Refund(k).amount \in Nat \ {0} /\ Refund(k).key = RefundKey(k)
           /\ Refund(k).type = "refund"
BY AttemptKeys, PaymentAssumption DEF Refund, Entry, Tx, TxTypes

\* The purchase of SpendElsewhere.
OtherPurchase == Entry(Agent, Price, "purchase", NoKey)

LEMMA OtherPurchaseIsTx ==
    /\ OtherPurchase \in Tx /\ OtherPurchase.amount \in Nat \ {0} /\ OtherPurchase.key = NoKey
    /\ OtherPurchase.agent = Agent /\ OtherPurchase.amount = Price
BY PaymentAssumption DEF OtherPurchase, Entry, Tx, TxTypes

\* A task that moves on keeps its payment and attempt, unless it is done.
LEMMA GotoTask ==
    ASSUME task \in [Tasks -> TaskRec], NEW t \in Tasks, NEW pc \in TaskPCs, Goto(t, pc)
    PROVE  /\ task' \in [Tasks -> TaskRec]
           /\ task'[t].pc = pc
           /\ pc # "idle" => task'[t].p = task[t].p /\ task'[t].k = task[t].k
           /\ \A u \in Tasks \ {t} : task'[u] = task[u]
<1>1. Idle \in TaskRec /\ Idle.pc = "idle"
    BY DEF Idle, TaskRec, TaskPCs, OptAttempts
<1>2. task[t] \in TaskRec
    OBVIOUS
<1>3. [task[t] EXCEPT !.pc = pc] \in TaskRec
    BY <1>2 DEF TaskRec
<1>4. task' = [task EXCEPT ![t] = IF pc = "idle" THEN Idle ELSE [task[t] EXCEPT !.pc = pc]]
    BY <1>2 DEF Goto
<1> QED
    BY <1>1, <1>2, <1>3, <1>4 DEF TaskRec

\* What stands behind a task is kept for good.
LEMMA TaskOKForGood ==
    ASSUME Grows, NEW r \in TaskRec, TaskOK(r)
    PROVE  TaskOK(r)'
<1>1. CASE r.pc \notin OwnPCs
    BY <1>1 DEF TaskOK, OwnPCs, PaidPCs, BookedPCs, TaskPCs
<1>2. CASE r.pc \in OwnPCs
    <2>1. r.p \in Buys \cup Renews /\ r.k \in AttemptsOf(r.p) /\ r.k \in Attempts
        BY <1>2 DEF TaskOK, AttemptsOf
    <2>2. Debited(r.k) => Debited(r.k)'
        BY <2>1, AttemptKeys DEF Grows, Debited
    <2>3. Carried(r.k) => Carried(r.k)'
        BY <2>1 DEF Grows, Carried, ServicesOK
    <2> QED
        BY <1>2, <2>1, <2>2, <2>3 DEF TaskOK, Grows, OwnPCs
<1> QED
    BY <1>1, <1>2


-----------------------------------------------------------------------------
(* Who writes what.                                                        *)

USE DEF Next, TaskStep, QueueStep, PressStep, CustomerStep, RecoveryStep, MarkProcessed, DropQueued,
        SkipQueued, StartApproval, ApproveNoOrder, Reject, Reopen, SendReceipt, RewriteReceipt,
        Enqueue, ClaimPayment, DeductWallet, DeductRefused, DeductRaises, Release, Notify,
        StartDelivery, PanelDone, PanelFails, StoreService, StoreRenewal, StoreRefused, StoreRaises,
        Activate, DeliverRaises, RefundWallet, RefundRaises, GiveBack, FinishApproved, Recheck,
        ApproveOrder, Abandon, Restart, RecoverOrder, RecoverDone, RecoverRow, Crash, SpendElsewhere,
        agentPress, customerStep, ledgerStep, vars

\* Money moves in three places.
LEMMA WalletWriters ==
    ASSUME [Next]_vars
    PROVE  \/ UNCHANGED walletVars
           \/ SpendElsewhere
           \/ \E t \in Tasks : DeductWallet(t) \/ RefundWallet(t)
OBVIOUS

\* Services are written in four places, on the panel or in the books.
LEMMA ServiceWriters ==
    ASSUME [Next]_vars
    PROVE  \/ UNCHANGED serviceVars
           \/ \E t \in Tasks : PanelDone(t) \/ PanelFails(t) \/ StoreService(t) \/ StoreRenewal(t)
OBVIOUS

\* The status and the key of a payment are written by these statements.
LEMMA StatusWriters ==
    ASSUME [Next]_vars
    PROVE  \/ UNCHANGED <<status, claim>>
           \/ \E t \in Tasks : ClaimPayment(t) \/ Release(t) \/ GiveBack(t) \/ FinishApproved(t)
           \/ \E t \in Tasks, p \in Payments : ApproveNoOrder(t, p)
           \/ \E p \in Payments : RecoverRow(p) \/ Reject(p) \/ Reopen(p)
                                  \/ SendReceipt(p) \/ RewriteReceipt(p)
BY DEF Tasks, paymentVars

\* The order of a payment is marked, unmarked, or unmarked by one task only.
LEMMA OrderWriters ==
    ASSUME [Next]_vars
    PROVE  \/ orderDone' = orderDone
           \/ \E p : \E b \in BOOLEAN : orderDone' = [orderDone EXCEPT ![p] = b]
           \/ \E p : \E b \in BOOLEAN : orderDone' = [orderDone EXCEPT ![p] = @ /\ b]
BY DEF paymentVars, PutBack

\* Who moves a task.
LEMMA TaskWriters ==
    ASSUME [Next]_vars
    PROVE  \/ task' = task
           \/ \E t \in Tasks : TaskStep(t)
           \/ \E t \in Tasks, p \in Payments : StartApproval(t, p) \/ ApproveNoOrder(t, p)
           \/ MarkProcessed \/ RecoverDone \/ Crash
BY DEF processVars, Tasks

\* The process and the rows a recovery has left.
LEMMA ProcessWriters ==
    ASSUME [Next]_vars
    PROVE  /\ bot' = bot \/ bot' \in {"down", "recover", "up"}
           /\ crashes' = crashes \/ (crashes < MaxCrashes /\ crashes' = crashes + 1)
           /\ \/ rows' = rows \/ rows' = NoRows \/ rows' = [NoRows EXCEPT !.left = Processing]
              \/ rows' = [rows EXCEPT !.owed = NoPayment]
              \/ \E p \in Payments, q \in Payments \cup {NoPayment} :
                     rows' = [left |-> rows.left \ {p}, owed |-> q]
BY DEF processVars

\* Receipts, messages and the counts behind the bounds.
LEMMA CustomerWriters ==
    ASSUME [Next]_vars
    PROVE  /\ queued' = queued \/ \E p : \E b \in BOOLEAN : queued' = [queued EXCEPT ![p] = b]
           /\ \/ receipt' = receipt
              \/ \E p : \E s \in {"none", "notified", "answered"} :
                     receipt' = [receipt EXCEPT ![p] = s]
           /\ \/ used' = used
              \/ \E p \in Payments :
                     \/ /\ used[p].keys < MaxAttempts
                        /\ used' = [used EXCEPT ![p].keys = @ + 1]
                     \/ /\ used[p].messages < MaxMessages
                        /\ used' = [used EXCEPT ![p].messages = @ + 1]
                     \/ /\ used[p].receipts < MaxReceipts
                        /\ used' = [used EXCEPT ![p].receipts = @ + 1]
BY DEF customerVars, Dequeue

\* CustomerBot alone opens and closes a receipt.
LEMMA ReceiptWriters ==
    ASSUME [Next]_vars
    PROVE  receipt' = receipt \/ \E p \in Payments : SendReceipt(p) \/ RewriteReceipt(p)
BY DEF customerVars

HIDE DEF Next, TaskStep, QueueStep, PressStep, CustomerStep, RecoveryStep, MarkProcessed, DropQueued,
         SkipQueued, StartApproval, ApproveNoOrder, Reject, Reopen, SendReceipt, RewriteReceipt,
         Enqueue, ClaimPayment, DeductWallet, DeductRefused, DeductRaises, Release, Notify,
         StartDelivery, PanelDone, PanelFails, StoreService, StoreRenewal, StoreRefused, StoreRaises,
         Activate, DeliverRaises, RefundWallet, RefundRaises, GiveBack, FinishApproved, Recheck,
         ApproveOrder, Abandon, Restart, RecoverOrder, RecoverDone, RecoverRow, Crash, SpendElsewhere,
         agentPress, customerStep, ledgerStep, vars

-----------------------------------------------------------------------------
(* The wallet.                                                             *)

\* A posting under a key of this saga: a refund follows its debit.
SagaEntry(entry) ==
    \/ entry.key = NoKey
    \/ \E k \in Attempts : entry.key = DebitKey(k)
    \/ \E k \in Attempts : entry.key = RefundKey(k) /\ Debited(k)

\* Whoever moves money, the tables change only by postings that are covered,
\* and whose key is new.
LEMMA MoneySteps ==
    ASSUME Saga, [Next]_vars
    PROVE  UNCHANGED walletVars \/ \E entry : Allowed(entry) /\ SagaEntry(entry) /\ Post(entry)
<1>1. CASE SpendElsewhere
    <2>1. Allowed(OtherPurchase) /\ SagaEntry(OtherPurchase)
        BY <1>1, OtherPurchaseIsTx DEF SpendElsewhere, Deduct, Allowed, SagaEntry, Covered
    <2> QED
        BY <1>1, <2>1 DEF SpendElsewhere, Deduct, OtherPurchase
<1>2. ASSUME NEW t \in Tasks, DeductWallet(t) \/ RefundWallet(t)
      PROVE  UNCHANGED walletVars \/ \E entry : Allowed(entry) /\ SagaEntry(entry) /\ Post(entry)
    <2>1. TaskOK(task[t]) /\ task[t].pc \in {"deduct", "refund"}
        BY <1>2 DEF Saga, TasksOK, DeductWallet, RefundWallet, Step, At
    <2>2. PICK k \in Attempts : k = task[t].k
        BY <2>1 DEF TaskOK, OwnPCs, TaskPCs, AttemptsOf
    <2>3. CASE DeductWallet(t)
        <3>1. CASE Postable(Debit(k)) /\ Post(Debit(k))
            BY <3>1, DebitIsTx DEF Postable, Allowed, SagaEntry
        <3> QED
            BY <2>2, <2>3, <3>1 DEF DeductWallet, OnceOk
    <2>4. CASE RefundWallet(t)
        <3>1. Debited(k)
            BY <2>1, <2>2, <2>4 DEF TaskOK, PaidPCs, RefundWallet, Step, At
        <3>2. CASE Postable(Refund(k)) /\ Post(Refund(k))
            BY <3>1, <3>2, RefundIsTx DEF Postable, Allowed, SagaEntry
        <3> QED
            BY <2>2, <2>4, <3>2 DEF RefundWallet, OnceOk
    <2> QED
        BY <1>2, <2>3, <2>4
<1> QED
    BY <1>1, <1>2, WalletWriters

\* After any step the ledger has its shape, has lost nothing, and holds no
\* refund without its debit.
LEMMA WalletStaysTyped ==
    ASSUME Saga, [Next]_vars
    PROVE  /\ WalletTypeOK'
           /\ \A x : HasTx(x) => HasTx(x)'
           /\ \A k \in Attempts : Refunded(k)' => Refunded(k) \/ Debited(k)
<1>0. WalletTypeOK
    BY TypeParts DEF Saga
<1>1. CASE UNCHANGED walletVars
    BY <1>0, <1>1 DEF WalletTypeOK, walletVars, HasTx, Refunded
<1>2. CASE \E entry : Allowed(entry) /\ SagaEntry(entry) /\ Post(entry)
    <2>1. PICK entry : Allowed(entry) /\ SagaEntry(entry) /\ Post(entry)
        BY <1>2
    <2>2. entry \in Tx
        BY <2>1 DEF Allowed
    <2>3. WalletTypeOK'
        BY <1>0, <2>1, <2>2, PostKeepsType
    <2>4. \A x : HasTx(x)' <=> HasTx(x) \/ x = entry.key
        BY <1>0, <2>1, <2>2, PostHasTx
    <2>5. ASSUME NEW k \in Attempts, Refunded(k)', ~Refunded(k)
          PROVE  Debited(k)
        <3>1. RefundKey(k) = entry.key
            BY <2>4, <2>5 DEF Refunded
        <3>2. RefundKey(k) # NoKey
            BY AttemptKeys, WalletAssumption
        <3>3. \A l \in Attempts : RefundKey(k) # DebitKey(l)
            BY DEF RefundKey, DebitKey
        <3>4. PICK l \in Attempts : RefundKey(k) = RefundKey(l) /\ Debited(l)
            BY <2>1, <3>1, <3>2, <3>3 DEF SagaEntry
        <3>5. k = l
            BY <3>4 DEF RefundKey
        <3> QED
            BY <3>4, <3>5
    <2> QED
        BY <2>3, <2>4, <2>5
<1> QED
    BY <1>1, <1>2, MoneySteps

-----------------------------------------------------------------------------
(* The services.                                                           *)

\* What a task that writes about a service has behind it.
LEMMA TaskBehind ==
    ASSUME Saga, NEW t \in Tasks, task[t].pc \in PaidPCs
    PROVE  /\ task[t].k \in Attempts /\ task[t].k[1] = task[t].p
           /\ task[t].p \in Buys \cup Renews
           /\ Debited(task[t].k)
BY DEF Saga, TasksOK, TaskOK, PaidPCs, OwnPCs, TaskPCs, AttemptsOf

\* A step of the services: the panel is served before the books are written,
\* both under an attempt that was debited, and neither forgets.
LEMMA ServiceSteps ==
    ASSUME Saga, [Next]_vars
    PROVE  /\ ServicesOK' /\ BooksOK'
           /\ panel \subseteq panel' /\ created \subseteq created'
           /\ \A k \in Attempts : renewed[k] <= renewed'[k]
           /\ \A k \in Attempts :
                  (k \in panel' \/ k \in created' \/ renewed'[k] > 0) => Debited(k)
<1>0. ServicesOK /\ BooksOK /\ PaidBefore
    BY TypeParts DEF Saga
<1>1. CASE UNCHANGED serviceVars
    BY <1>0, <1>1 DEF ServicesOK, BooksOK, PaidBefore, serviceVars
<1>2. ASSUME NEW t \in Tasks, PanelDone(t) \/ PanelFails(t)
      PROVE  \/ UNCHANGED serviceVars
             \/ \E k \in Attempts : /\ panel' = panel \cup {k} /\ Debited(k)
                                    /\ lost' = lost \/ lost' = lost \cup {k}
                                    /\ UNCHANGED <<created, lastKey, renewed>>
    <2>1. task[t].pc \in PaidPCs
        BY <1>2 DEF PanelDone, PanelFails, Step, At, PaidPCs
    <2> QED
        BY <1>2, <2>1, TaskBehind DEF PanelDone, PanelFails, serviceVars
<1>3. ASSUME NEW t \in Tasks, StoreService(t)
      PROVE  /\ created' = created \cup {task[t].k} /\ task[t].k \in panel
             /\ UNCHANGED <<lastKey, panel, lost, renewed>>
    BY <1>3 DEF StoreService, Step, At, Saga, TasksOK, TaskOK
<1>4. ASSUME NEW t \in Tasks, StoreRenewal(t)
      PROVE  \E s \in Services, k \in panel :
                 /\ lastKey' = [lastKey EXCEPT ![s] = k]
                 /\ renewed' = [renewed EXCEPT ![k] = IF lastKey[s] = k THEN @ ELSE @ + 1]
                 /\ UNCHANGED <<created, panel, lost>>
    <2>1. RenewOf[task[t].p] \in Services /\ task[t].k \in panel
        BY <1>4, PaymentAssumption DEF StoreRenewal, Step, At, Saga, TasksOK, TaskOK
    <2> QED
        BY <1>4, <2>1 DEF StoreRenewal
<1>5. CASE \E t \in Tasks : PanelDone(t) \/ PanelFails(t)
    <2>1. CASE \E k \in Attempts : /\ panel' = panel \cup {k} /\ Debited(k)
                                   /\ lost' = lost \/ lost' = lost \cup {k}
                                   /\ UNCHANGED <<created, lastKey, renewed>>
        BY <1>0, <2>1 DEF ServicesOK, BooksOK, PaidBefore
    <2> QED
        BY <1>1, <1>2, <1>5, <2>1
<1>6. CASE \E t \in Tasks : StoreService(t)
    <2>1. PICK k \in panel : created' = created \cup {k} /\ UNCHANGED <<lastKey, panel, lost, renewed>>
        BY <1>3, <1>6
    <2> QED
        BY <1>0, <2>1 DEF ServicesOK, BooksOK, PaidBefore
<1>7. CASE \E t \in Tasks : StoreRenewal(t)
    <2>1. PICK s \in Services, k \in panel :
                 /\ lastKey' = [lastKey EXCEPT ![s] = k]
                 /\ renewed' = [renewed EXCEPT ![k] = IF lastKey[s] = k THEN @ ELSE @ + 1]
                 /\ UNCHANGED <<created, panel, lost>>
        BY <1>4, <1>7
    <2>2. k \in Attempts /\ Debited(k) /\ k # NoKey
        BY <1>0, <2>1, PaymentAssumption DEF ServicesOK, PaidBefore
    <2>3. renewed' \in [Attempts -> Nat] /\ lastKey' \in [Services -> OptAttempts]
        BY <1>0, <2>1, <2>2 DEF ServicesOK, OptAttempts
    <2>4. renewed'[k] > 0 /\ \A l \in Attempts : renewed[l] <= renewed'[l]
        BY <1>0, <2>1, <2>2 DEF ServicesOK, BooksOK
    <2>5. \A l \in Attempts : renewed'[l] > 0 => renewed[l] > 0 \/ l = k
        BY <1>0, <2>1, <2>2 DEF ServicesOK
    <2>6. BooksOK'
        BY <1>0, <2>1, <2>2, <2>3, <2>4 DEF ServicesOK, BooksOK, OptAttempts
    <2> QED
        BY <1>0, <2>1, <2>2, <2>3, <2>4, <2>5, <2>6 DEF ServicesOK, PaidBefore
<1> QED
    BY <1>1, <1>5, <1>6, <1>7, ServiceWriters

\* What stands behind a task stays, whoever takes the next step.
LEMMA StepGrows ==
    ASSUME Saga, [Next]_vars
    PROVE  Grows
BY WalletStaysTyped, ServiceSteps, TypeParts DEF Grows, Saga

\* Nothing is delivered or refunded without its debit, after any step.
LEMMA StaysPaid ==
    ASSUME Saga, [Next]_vars
    PROVE  PaidBefore'
<1>1. \A k \in Attempts : Debited(k) => Debited(k)'
    BY WalletStaysTyped DEF Debited
<1>2. \A k \in Attempts : Refunded(k)' => Debited(k)
    BY WalletStaysTyped DEF Saga, PaidBefore
<1> QED
    BY <1>1, <1>2, ServiceSteps DEF PaidBefore

-----------------------------------------------------------------------------
(* The tasks.                                                              *)

\* Tasks that do not move keep what stands behind them.
LEMMA OtherTasksStay ==
    ASSUME Saga, Grows, NEW t \in Tasks, TaskOK(task[t])',
           \A u \in Tasks \ {t} : task'[u] = task[u]
    PROVE  TasksOK'
<1>1. SUFFICES ASSUME NEW u \in Tasks \ {t} PROVE TaskOK(task[u])'
    BY DEF TasksOK
<1>2. PICK r \in TaskRec : r = task[u]
    BY TypeParts DEF Saga, ProcessOK
<1>3. TaskOK(r)
    BY <1>2 DEF Saga, TasksOK
<1>4. TaskOK(r)'
    BY <1>3, TaskOKForGood
<1>5. r = task'[u]
    BY <1>2
<1> QED
    BY <1>4, <1>5 DEF TaskOK

\* The same when no task moves at all.
LEMMA NoTaskMoves ==
    ASSUME Saga, Grows, task' = task
    PROVE  TasksOK'
<1>1. SUFFICES ASSUME NEW u \in Tasks PROVE TaskOK(task[u])'
    BY DEF TasksOK
<1>2. PICK r \in TaskRec : r = task[u]
    BY TypeParts DEF Saga, ProcessOK
<1>3. TaskOK(r)'
    BY <1>2, TaskOKForGood DEF Saga, TasksOK
<1> QED
    BY <1>2, <1>3 DEF TaskOK

\* A move that promises no more than the place it leaves.
LEMMA TaskMoves ==
    ASSUME Saga, Grows, NEW t \in Tasks, NEW pc \in TaskPCs, Goto(t, pc),
           pc # "idle" => task[t].pc \in OwnPCs,
           pc \in PaidPCs => task[t].pc \in PaidPCs,
           pc \in BookedPCs => task[t].pc \in BookedPCs,
           pc # "store"
    PROVE  TasksOK'
<1>1. PICK r \in TaskRec : r = task[t]
    BY TypeParts DEF Saga, ProcessOK
<1>2. TaskOK(r) /\ TaskOK(r)'
    BY <1>1, TaskOKForGood DEF Saga, TasksOK
<1>3. /\ task'[t].pc = pc
      /\ pc # "idle" => task'[t].p = r.p /\ task'[t].k = r.k
      /\ \A u \in Tasks \ {t} : task'[u] = task[u]
    BY <1>1, GotoTask, TypeParts DEF Saga, ProcessOK
<1>4. CASE pc = "idle"
    <2>1. TaskOK(task[t])'
        BY <1>3, <1>4 DEF TaskOK, OwnPCs, PaidPCs, BookedPCs
    <2> QED
        BY <1>3, <2>1, OtherTasksStay
<1>5. CASE pc # "idle"
    <2>1. r.p \in Buys \cup Renews /\ r.k \in AttemptsOf(r.p) /\ r.p \in Payments
        BY <1>1, <1>2, <1>5, PaymentAssumption DEF TaskOK
    <2>2. pc \in PaidPCs => Debited(r.k)'
        BY <1>1, <1>2 DEF TaskOK
    <2>3. pc \in BookedPCs => Carried(r.k)'
        BY <1>1, <1>2 DEF TaskOK
    <2>4. Debited(task[t].k)' <=> Debited(r.k)'
        BY <1>3, <1>5 DEF Debited, HasTx
    <2>5. Carried(task[t].k)' <=> Carried(r.k)'
        BY <1>3, <1>5 DEF Carried
    <2>6. TaskOK(task[t])'
        BY <1>3, <1>5, <2>1, <2>2, <2>3, <2>4, <2>5 DEF TaskOK
    <2> QED
        BY <1>3, <2>6, OtherTasksStay
<1> QED
    BY <1>4, <1>5

\* The moves that promise more: after the debit, ...
LEMMA DeductPromises ==
    ASSUME Saga, Grows, NEW t \in Tasks, DeductWallet(t)
    PROVE  TasksOK'
<1>1. PICK r \in TaskRec : r = task[t]
    BY TypeParts DEF Saga, ProcessOK
<1>2. r.pc = "deduct" /\ r.p \in Buys \cup Renews /\ r.k \in AttemptsOf(r.p) /\ r.k \in Attempts
    BY <1>1 DEF DeductWallet, Step, At, Saga, TasksOK, TaskOK, OwnPCs, TaskPCs, AttemptsOf
<1>3. OnceOk(Debit(r.k))
    BY <1>1 DEF DeductWallet
<1>4. Debited(r.k)'
    BY <1>2, <1>3, DebitIsTx, OnceOkHasTx, TypeParts DEF Saga, Debited
<1>5. /\ task'[t].pc \in {"notify", "fulfil"} /\ task'[t].p = r.p /\ task'[t].k = r.k
      /\ \A u \in Tasks \ {t} : task'[u] = task[u]
    BY <1>1, GotoTask, TypeParts DEF DeductWallet, TaskPCs, Saga, ProcessOK
<1>6. Debited(task[t].k)'
    BY <1>4, <1>5 DEF Debited, HasTx
<1>7. TaskOK(task[t])'
    BY <1>2, <1>5, <1>6 DEF TaskOK, BookedPCs
<1> QED
    BY <1>5, <1>7, OtherTasksStay

\* The local proof of delivery is one: the panel and the books have it.
LEMMA DeliveredIsCarried ==
    ASSUME Saga, NEW p \in Payments, NEW k \in Attempts, Delivered(p, k)
    PROVE  Carried(k)
<1>1. k # NoKey
    BY PaymentAssumption
<1>2. p \in Renews => RenewOf[p] \in Services
    BY PaymentAssumption
<1> QED
    BY <1>1, <1>2 DEF Delivered, Carried, Saga, BooksOK

\* ... after the books were found to show the delivery already, ...
LEMMA StartDeliveryPromises ==
    ASSUME Saga, Grows, NEW t \in Tasks, StartDelivery(t)
    PROVE  TasksOK'
<1>1. task[t].pc = "fulfil"
    BY DEF StartDelivery, Step, At
<1>2. /\ task[t].k \in Attempts /\ task[t].k \in AttemptsOf(task[t].p)
      /\ task[t].p \in Buys \cup Renews /\ task[t].p \in Payments /\ Debited(task[t].k)
    BY <1>1, PaymentAssumption DEF Saga, TasksOK, TaskOK, PaidPCs, OwnPCs, TaskPCs, AttemptsOf
<1>3. CASE Delivered(task[t].p, task[t].k)
    <2>1. Goto(t, "finish") /\ Carried(task[t].k)
        BY <1>2, <1>3, DeliveredIsCarried DEF StartDelivery
    <2>2. /\ task'[t].pc = "finish" /\ task'[t].p = task[t].p /\ task'[t].k = task[t].k
          /\ \A u \in Tasks \ {t} : task'[u] = task[u]
        BY <2>1, GotoTask, TypeParts DEF TaskPCs, Saga, ProcessOK
    <2>3. Debited(task[t].k)'
        BY <1>2, <2>2, AttemptKeys DEF Debited, Grows, HasTx
    <2>4. Carried(task[t].k)'
        BY <1>2, <2>1, <2>2 DEF Carried, Grows, ServicesOK
    <2>5. TaskOK(task[t])'
        BY <1>2, <2>2, <2>3, <2>4 DEF TaskOK
    <2> QED
        BY <2>2, <2>5, OtherTasksStay
<1>4. CASE ~Delivered(task[t].p, task[t].k)
    BY <1>1, <1>4, TaskMoves DEF StartDelivery, PaidPCs, BookedPCs, OwnPCs, TaskPCs
<1> QED
    BY <1>3, <1>4

\* ... after the panel has carried out the order, ...
LEMMA PanelPromises ==
    ASSUME Saga, Grows, NEW t \in Tasks, PanelDone(t)
    PROVE  TasksOK'
<1>1. task[t].pc = "panel"
    BY DEF PanelDone, Step, At
<1>2. /\ task[t].k \in Attempts /\ task[t].k \in AttemptsOf(task[t].p)
      /\ task[t].p \in Buys \cup Renews /\ Debited(task[t].k)
    BY <1>1 DEF Saga, TasksOK, TaskOK, PaidPCs, OwnPCs, TaskPCs, AttemptsOf
<1>3. /\ task'[t].pc = "store" /\ task'[t].p = task[t].p /\ task'[t].k = task[t].k
      /\ \A u \in Tasks \ {t} : task'[u] = task[u]
    BY GotoTask, TypeParts DEF PanelDone, TaskPCs, Saga, ProcessOK
<1>4. Debited(task[t].k)'
    BY <1>2, <1>3, AttemptKeys DEF Debited, Grows, HasTx
<1>5. TaskOK(task[t])'
    BY <1>2, <1>3, <1>4 DEF TaskOK, BookedPCs, PanelDone
<1> QED
    BY <1>3, <1>5, OtherTasksStay

\* ... and after the books have been written.
LEMMA StorePromises ==
    ASSUME Saga, Grows, NEW t \in Tasks, StoreService(t) \/ StoreRenewal(t)
    PROVE  TasksOK'
<1>1. task[t].pc = "store"
    BY DEF StoreService, StoreRenewal, Step, At
<1>2. /\ task[t].k \in Attempts /\ task[t].k \in AttemptsOf(task[t].p)
      /\ task[t].p \in Buys \cup Renews /\ Debited(task[t].k) /\ task[t].k \in panel
    BY <1>1 DEF Saga, TasksOK, TaskOK, PaidPCs, OwnPCs, TaskPCs, AttemptsOf
<1>3. /\ task'[t].pc \in {"deliver", "enable"} /\ task'[t].p = task[t].p /\ task'[t].k = task[t].k
      /\ \A u \in Tasks \ {t} : task'[u] = task[u]
    BY GotoTask, TypeParts DEF StoreService, StoreRenewal, TaskPCs, Saga, ProcessOK
<1>4. Debited(task[t].k)'
    BY <1>2, <1>3, AttemptKeys DEF Debited, Grows, HasTx
<1>5. task[t].k \in created' \/ renewed'[task[t].k] > 0
    <2>1. CASE StoreService(t)
        BY <2>1 DEF StoreService
    <2>2. CASE StoreRenewal(t)
        <3>1. RenewOf[task[t].p] \in Services /\ task[t].k # NoKey
            BY <1>2, <2>2, PaymentAssumption DEF StoreRenewal
        <3>2. lastKey[RenewOf[task[t].p]] = task[t].k => renewed[task[t].k] > 0
            BY <3>1 DEF Saga, BooksOK
        <3> QED
            BY <1>2, <2>2, <3>2 DEF StoreRenewal, Grows, ServicesOK
    <2> QED
        BY <2>1, <2>2
<1>6. Carried(task[t].k)'
    BY <1>2, <1>3, <1>5 DEF Carried, Grows
<1>7. TaskOK(task[t])'
    BY <1>2, <1>3, <1>4, <1>6 DEF TaskOK
<1> QED
    BY <1>3, <1>7, OtherTasksStay

\* An approval starts under a key of its own payment.
LEMMA StartPromises ==
    ASSUME Saga, Grows, NEW t \in Tasks, NEW p \in Payments,
           StartApproval(t, p) \/ ApproveNoOrder(t, p)
    PROVE  TasksOK' /\ task' \in [Tasks -> TaskRec]
<1>1. PICK r \in TaskRec : /\ task' = [task EXCEPT ![t] = r]
                           /\ r.pc = "idle" \/ (r.pc = "report" /\ r.p \in Payments)
                              \/ (r.pc = "claim" /\ r.p \in Buys \cup Renews /\ r.k \in AttemptsOf(r.p))
    <2>1. CASE StartApproval(t, p)
        <3>1. claim[p] # NoKey => claim[p] \in AttemptsOf(p)
            BY DEF Saga, ClaimsOK
        <3>2. used[p].keys < MaxAttempts => <<p, used[p].keys + 1>> \in AttemptsOf(p)
            BY TypeParts, PaymentAssumption DEF Saga, CustomerOK, UsedRec, AttemptsOf, Attempts
        <3>3. \A k \in AttemptsOf(p) : [pc |-> "claim", p |-> p, k |-> k] \in TaskRec
            BY DEF AttemptsOf, TaskRec, TaskPCs, OptAttempts
        <3> QED
            BY <2>1, <3>1, <3>2, <3>3 DEF StartApproval
    <2>2. CASE ApproveNoOrder(t, p)
        <3> DEFINE reporting == [pc |-> "report", p |-> p, k |-> NoKey]
        <3>1. task' = [task EXCEPT ![t] = reporting] \/ task' = [task EXCEPT ![t] = Idle]
            BY <2>2 DEF ApproveNoOrder
        <3>2. reporting \in TaskRec /\ Idle \in TaskRec /\ Idle.pc = "idle"
            BY DEF Idle, TaskRec, TaskPCs, OptAttempts
        <3> QED
            BY <3>1, <3>2
    <2> QED
        BY <2>1, <2>2
<1>2. task' \in [Tasks -> TaskRec] /\ task'[t] = r /\ \A u \in Tasks \ {t} : task'[u] = task[u]
    BY <1>1, TypeParts DEF Saga, ProcessOK
<1>3. TaskOK(task[t])'
    BY <1>1, <1>2 DEF TaskOK, PaidPCs, BookedPCs, OwnPCs
<1> QED
    BY <1>2, <1>3, OtherTasksStay

\* The recovery wakes the task that waits for it, and no other.
LEMMA RecoverDonePromises ==
    ASSUME Saga, Grows, RecoverDone
    PROVE  TasksOK' /\ task' \in [Tasks -> TaskRec]
<1>1. task \in [Tasks -> TaskRec]
    BY TypeParts DEF Saga, ProcessOK
<1>2. ASSUME NEW u \in Tasks PROVE TaskOK(task[u])' /\ task'[u] \in TaskRec
    <2>1. PICK r \in TaskRec : r = task[u]
        BY <1>1
    <2>2. TaskOK(r) /\ TaskOK(r)'
        BY <2>1, TaskOKForGood DEF Saga, TasksOK
    <2>3. CASE r.pc = "recover"
        <3>1. task'[u] = [r EXCEPT !.pc = "recheck"]
            BY <1>1, <2>1, <2>3 DEF RecoverDone, At
        <3>2. task'[u] \in TaskRec /\ task'[u].pc = "recheck"
              /\ task'[u].p = r.p /\ task'[u].k = r.k
            BY <3>1 DEF TaskRec, TaskPCs
        <3> QED
            BY <2>2, <2>3, <3>2 DEF TaskOK, OwnPCs, PaidPCs, BookedPCs, TaskPCs
    <2>4. CASE r.pc # "recover"
        <3>1. task'[u] = r
            BY <1>1, <2>1, <2>4 DEF RecoverDone, At
        <3> QED
            BY <2>2, <3>1 DEF TaskOK
    <2> QED
        BY <2>3, <2>4
<1>3. task' = [u \in Tasks |-> task'[u]]
    BY DEF RecoverDone
<1> QED
    BY <1>2, <1>3 DEF TasksOK

\* Whatever a task does, it moves, and every other move promises no more.
LEMMA TaskStepPromises ==
    ASSUME Saga, Grows, NEW t \in Tasks, TaskStep(t)
    PROVE  TasksOK' /\ task' \in [Tasks -> TaskRec]
<1>1. CASE \/ DeductWallet(t) \/ StartDelivery(t) \/ PanelDone(t)
           \/ StoreService(t) \/ StoreRenewal(t)
    <2>1. \/ Goto(t, "notify") \/ Goto(t, "fulfil") \/ Goto(t, "finish") \/ Goto(t, "panel")
          \/ Goto(t, "store") \/ Goto(t, "deliver") \/ Goto(t, "enable")
        BY <1>1 DEF DeductWallet, StartDelivery, PanelDone, StoreService, StoreRenewal
    <2>2. task' \in [Tasks -> TaskRec]
        BY <2>1, GotoTask, TypeParts DEF Saga, ProcessOK, TaskPCs
    <2> QED
        BY <1>1, <2>2, DeductPromises, StartDeliveryPromises, PanelPromises, StorePromises
<1>2. CASE ClaimPayment(t) \/ DeductRefused(t) \/ DeductRaises(t) \/ Release(t)
    <2>1. task[t].pc \in OwnPCs
        BY <1>2 DEF ClaimPayment, DeductRefused, DeductRaises, Release, Step, At, OwnPCs, TaskPCs
    <2>2. Goto(t, "deduct") \/ Goto(t, "release") \/ Goto(t, "idle")
        BY <1>2 DEF ClaimPayment, DeductRefused, DeductRaises, Release
    <2> QED
        BY <2>1, <2>2, GotoTask, TaskMoves, TypeParts DEF PaidPCs, BookedPCs, TaskPCs, Saga, ProcessOK
<1>3. CASE Notify(t) \/ PanelFails(t) \/ StoreRefused(t) \/ StoreRaises(t) \/ DeliverRaises(t)
    <2>1. task[t].pc \in OwnPCs \cap PaidPCs
        BY <1>3 DEF Notify, PanelFails, StoreRefused, StoreRaises, DeliverRaises, Step, At,
                    OwnPCs, PaidPCs, TaskPCs
    <2>2. Goto(t, "fulfil") \/ Goto(t, "refund") \/ Goto(t, "idle")
        BY <1>3 DEF Notify, PanelFails, StoreRefused, StoreRaises, DeliverRaises
    <2> QED
        BY <2>1, <2>2, GotoTask, TaskMoves, TypeParts DEF BookedPCs, TaskPCs, Saga, ProcessOK
<1>4. CASE Activate(t)
    <2>1. task[t].pc \in OwnPCs \cap PaidPCs \cap BookedPCs
        BY <1>4 DEF Activate, Step, At, OwnPCs, PaidPCs, BookedPCs, TaskPCs
    <2>2. Goto(t, "deliver") \/ Goto(t, "refund")
        BY <1>4 DEF Activate
    <2> QED
        BY <2>1, <2>2, GotoTask, TaskMoves, TypeParts DEF TaskPCs, Saga, ProcessOK
<1>5. CASE RefundWallet(t) \/ RefundRaises(t) \/ GiveBack(t) \/ FinishApproved(t) \/ Recheck(t)
           \/ ApproveOrder(t) \/ Abandon(t)
    <2>1. task[t].pc \in OwnPCs
        BY <1>5 DEF RefundWallet, RefundRaises, GiveBack, FinishApproved, Recheck, Abandon,
                    ApproveOrder, Step, At, OwnPCs, TaskPCs
    <2>2. \/ Goto(t, "giveBack") \/ Goto(t, "idle") \/ Goto(t, "order") \/ Goto(t, "recover")
          \/ Goto(t, "report")
        BY <1>5 DEF RefundWallet, RefundRaises, GiveBack, FinishApproved, Recheck, Abandon,
                    ApproveOrder
    <2> QED
        BY <2>1, <2>2, GotoTask, TaskMoves, TypeParts DEF PaidPCs, BookedPCs, TaskPCs, Saga, ProcessOK
<1> QED
    BY <1>1, <1>2, <1>3, <1>4, <1>5 DEF TaskStep

\* After any step, every task has behind it what its place stands for.
LEMMA TasksStay ==
    ASSUME Saga, [Next]_vars
    PROVE  TasksOK' /\ task' \in [Tasks -> TaskRec]
<1>1. Grows /\ task \in [Tasks -> TaskRec]
    BY StepGrows, TypeParts DEF Saga, ProcessOK
<1>2. CASE task' = task
    BY <1>1, <1>2, NoTaskMoves
<1>3. CASE \E t \in Tasks : TaskStep(t)
    BY <1>1, <1>3, TaskStepPromises
<1>4. CASE \E t \in Tasks, p \in Payments : StartApproval(t, p) \/ ApproveNoOrder(t, p)
    BY <1>1, <1>4, StartPromises
<1>5. CASE MarkProcessed
    <2>1. Worker \in Tasks /\ Goto(Worker, "idle")
        BY <1>5 DEF MarkProcessed, Tasks
    <2> QED
        BY <1>1, <2>1, GotoTask, TaskMoves DEF TaskPCs, PaidPCs, BookedPCs
<1>6. CASE RecoverDone
    BY <1>1, <1>6, RecoverDonePromises
<1>7. CASE Crash
    BY <1>7 DEF Crash, TasksOK, TaskOK, Idle, TaskRec, TaskPCs, OptAttempts, OwnPCs, PaidPCs, BookedPCs
<1> QED
    BY <1>2, <1>3, <1>4, <1>5, <1>6, <1>7, TaskWriters

-----------------------------------------------------------------------------
(* The payments.                                                           *)

\* Finishing a row gives it a known status and no key, or leaves it alone.
LEMMA FinishKeepsRows ==
    ASSUME status \in [Payments -> Statuses], claim \in [Payments -> OptAttempts],
           NEW p \in Payments, NEW k, NEW final \in Statuses, Finish(p, k, final)
    PROVE  /\ status' \in [Payments -> Statuses] /\ claim' \in [Payments -> OptAttempts]
           /\ status'[p] = final \/ status'[p] = status[p]
           /\ \A q \in Payments \ {p} : status'[q] = status[q] /\ claim'[q] = claim[q]
           /\ (claim' = claim /\ status' = status) \/ (claim'[p] = NoKey /\ status'[p] = final)
BY DEF Finish, SetStatus, OptAttempts

\* A step writes one payment: its key is removed, kept, or becomes its own,
\* and an approval of an order has been carried out.
LEMMA PaymentSteps ==
    ASSUME Saga, [Next]_vars
    PROVE  /\ status' \in [Payments -> Statuses] /\ claim' \in [Payments -> OptAttempts]
           /\ ClaimsOK'
           /\ \A p \in Buys \cup Renews :
                  status'[p] = "approved" =>
                      status[p] = "approved" \/ \E k \in AttemptsOf(p) : Carried(k)
<1>0. /\ status \in [Payments -> Statuses] /\ claim \in [Payments -> OptAttempts]
      /\ ClaimsOK
    BY TypeParts DEF Saga, RowsOK
<1>1. CASE UNCHANGED <<status, claim>>
    BY <1>0, <1>1 DEF ClaimsOK
<1>2. ASSUME NEW t \in Tasks, ClaimPayment(t)
      PROVE  \/ UNCHANGED <<status, claim>>
             \/ \E p \in Payments, k \in Attempts :
                    /\ k \in AttemptsOf(p)
                    /\ status' = [status EXCEPT ![p] = "processing"]
                    /\ claim' = [claim EXCEPT ![p] = k]
    <2>1. task[t].p \in Payments /\ task[t].k \in AttemptsOf(task[t].p) /\ task[t].k \in Attempts
        BY <1>2, PaymentAssumption
        DEF ClaimPayment, Step, At, Saga, TasksOK, TaskOK, OwnPCs, TaskPCs, AttemptsOf
    <2> QED
        BY <1>2, <2>1 DEF ClaimPayment, Claim, SetStatus
<1>3. ASSUME NEW t \in Tasks, Release(t) \/ GiveBack(t)
      PROVE  \E p \in Payments : \E k : Finish(p, k, "pending")
    <2>1. task[t].p \in Payments
        BY <1>3, PaymentAssumption
        DEF Release, GiveBack, Step, At, Saga, TasksOK, TaskOK, OwnPCs, TaskPCs
    <2> QED
        BY <1>3, <2>1 DEF Release, GiveBack
<1>4. ASSUME NEW t \in Tasks, FinishApproved(t)
      PROVE  \E p \in Payments : \E k : Finish(p, k, "approved") /\ k \in AttemptsOf(p) /\ Carried(k)
    <2>1. task[t].p \in Payments /\ task[t].k \in AttemptsOf(task[t].p) /\ Carried(task[t].k)
        BY <1>4, PaymentAssumption
        DEF FinishApproved, Step, At, Saga, TasksOK, TaskOK, OwnPCs, BookedPCs, TaskPCs
    <2> QED
        BY <1>4, <2>1 DEF FinishApproved
<1>5. ASSUME NEW p \in Payments, RecoverRow(p)
      PROVE  \/ UNCHANGED <<status, claim>>
             \/ \E k : Finish(p, k, "pending")
             \/ \E k \in AttemptsOf(p) : Finish(p, k, "approved") /\ Carried(k)
    <2>1. CASE status[p] = "processing" /\ Owing(claim[p]) /\ Delivered(p, claim[p])
        <3>1. claim[p] \in AttemptsOf(p) /\ claim[p] \in Attempts
            BY <1>0, <2>1 DEF ClaimsOK, AttemptsOf
        <3>2. Carried(claim[p])
            BY <2>1, <3>1, DeliveredIsCarried
        <3>3. Finish(p, claim[p], "approved")
            BY <1>5, <2>1 DEF RecoverRow, Owing
        <3> QED
            BY <3>1, <3>2, <3>3
    <2>2. CASE ~(status[p] = "processing" /\ Owing(claim[p]) /\ Delivered(p, claim[p]))
        BY <1>5, <2>2 DEF RecoverRow, Owing
    <2> QED
        BY <2>1, <2>2
<1>6. CASE \E p \in Payments, k \in Attempts :
                /\ k \in AttemptsOf(p)
                /\ status' = [status EXCEPT ![p] = "processing"]
                /\ claim' = [claim EXCEPT ![p] = k]
    <2>1. PICK p \in Payments, k \in Attempts :
                /\ k \in AttemptsOf(p)
                /\ status' = [status EXCEPT ![p] = "processing"]
                /\ claim' = [claim EXCEPT ![p] = k]
        BY <1>6
    <2>2. k # NoKey
        BY PaymentAssumption
    <2>3. \A q \in Payments : status'[q] = "approved" => status[q] = "approved"
        BY <1>0, <2>1
    <2>4. ClaimsOK'
        BY <1>0, <2>1, <2>2 DEF ClaimsOK
    <2> QED
        BY <1>0, <2>1, <2>3, <2>4, PaymentAssumption DEF Statuses, OptAttempts
<1>7. CASE \E p \in Payments : \E k : Finish(p, k, "pending")
    <2>1. PICK p \in Payments : \E k : Finish(p, k, "pending")
        BY <1>7
    <2>2. "pending" \in Statuses
        BY DEF Statuses
    <2> QED
        BY <1>0, <2>1, <2>2, FinishKeepsRows, PaymentAssumption DEF ClaimsOK
<1>8. CASE \E p \in Payments : \E k : Finish(p, k, "approved") /\ k \in AttemptsOf(p) /\ Carried(k)
    <2>1. PICK p \in Payments : \E k : Finish(p, k, "approved") /\ k \in AttemptsOf(p) /\ Carried(k)
        BY <1>8
    <2>2. "approved" \in Statuses
        BY DEF Statuses
    <2> QED
        BY <1>0, <2>1, <2>2, FinishKeepsRows, PaymentAssumption DEF ClaimsOK
<1>9. CASE \E t \in Tasks, p \in Payments : ApproveNoOrder(t, p)
    <2>1. PICK p \in Payments : /\ p \notin Buys \cup Renews
                                /\ status' = [status EXCEPT ![p] = "approved"]
                                /\ claim' = claim
        BY <1>9 DEF ApproveNoOrder, SetStatus
    <2> QED
        BY <1>0, <2>1 DEF ClaimsOK, Statuses
<1>10. CASE \E p \in Payments : Reject(p) \/ Reopen(p) \/ SendReceipt(p) \/ RewriteReceipt(p)
    <2>1. PICK p \in Payments, s \in {"rejected", "pending"} :
                /\ status' = [status EXCEPT ![p] = s] /\ claim' = claim
        BY <1>10 DEF Reject, Reopen, SendReceipt, RewriteReceipt, SetStatus, agentPress, customerStep
    <2> QED
        BY <1>0, <2>1, PaymentAssumption DEF ClaimsOK, Statuses
<1> QED
    BY <1>1, <1>2, <1>3, <1>4, <1>5, <1>6, <1>7, <1>8, <1>9, <1>10, StatusWriters

\* What an approved payment shows stays carried out.
LEMMA StaysDelivered ==
    ASSUME Saga, [Next]_vars
    PROVE  ApprovedIsDelivered'
<1>1. \A k \in Attempts : Carried(k) => Carried(k)'
    BY StepGrows DEF Grows, Carried, ServicesOK
<1>2. ASSUME NEW p \in Buys \cup Renews, status'[p] = "approved"
      PROVE  \E k \in AttemptsOf(p) : Carried(k)
    BY <1>2, PaymentSteps DEF Saga, ApprovedIsDelivered, Carried
<1> QED
    BY <1>1, <1>2 DEF ApprovedIsDelivered, Carried, AttemptsOf

-----------------------------------------------------------------------------
(* The rest of the state.                                                  *)

\* What no property above speaks of keeps its shape, the bounds included.
LEMMA PartsStayTyped ==
    ASSUME Saga, [Next]_vars
    PROVE  /\ orderDone' \in [Payments -> BOOLEAN]
           /\ bot' \in {"down", "recover", "up"}
           /\ rows' \in [left : SUBSET Payments, owed : Payments \cup {NoPayment}]
           /\ crashes' \in 0..MaxCrashes
           /\ CustomerOK'
<1>0. RowsOK /\ ProcessOK /\ CustomerOK /\ crashes \in 0..MaxCrashes
    BY TypeParts DEF Saga
<1>1. orderDone' \in [Payments -> BOOLEAN]
    BY <1>0, OrderWriters DEF RowsOK
<1>2. bot' \in {"down", "recover", "up"}
    BY <1>0, ProcessWriters DEF ProcessOK
<1>3. rows' \in [left : SUBSET Payments, owed : Payments \cup {NoPayment}]
    BY <1>0, ProcessWriters DEF ProcessOK, NoRows, Processing
<1>4. crashes' \in 0..MaxCrashes
    BY <1>0, ProcessWriters, PaymentAssumption
<1>5. queued' \in [Payments -> BOOLEAN]
    BY <1>0, CustomerWriters DEF CustomerOK
<1>6. receipt' \in [Payments -> {"none", "notified", "answered"}]
    BY <1>0, CustomerWriters DEF CustomerOK
<1>7. used' \in [Payments -> UsedRec]
    <2>1. used \in [Payments -> UsedRec]
        BY <1>0 DEF CustomerOK
    <2>2. MaxAttempts \in Nat /\ MaxMessages \in Nat /\ MaxReceipts \in Nat
        BY PaymentAssumption
    <2>3. CASE used' = used
        BY <2>1, <2>3
    <2>4. ASSUME NEW p \in Payments, used[p].keys < MaxAttempts,
                 used' = [used EXCEPT ![p].keys = @ + 1]
          PROVE  used' \in [Payments -> UsedRec]
        BY <2>1, <2>2, <2>4 DEF UsedRec
    <2>5. ASSUME NEW p \in Payments, used[p].messages < MaxMessages,
                 used' = [used EXCEPT ![p].messages = @ + 1]
          PROVE  used' \in [Payments -> UsedRec]
        BY <2>1, <2>2, <2>5 DEF UsedRec
    <2>6. ASSUME NEW p \in Payments, used[p].receipts < MaxReceipts,
                 used' = [used EXCEPT ![p].receipts = @ + 1]
          PROVE  used' \in [Payments -> UsedRec]
        BY <2>1, <2>2, <2>6 DEF UsedRec
    <2> QED
        BY <2>3, <2>4, <2>5, <2>6, CustomerWriters
<1> QED
    BY <1>1, <1>2, <1>3, <1>4, <1>5, <1>6, <1>7 DEF CustomerOK

-----------------------------------------------------------------------------
(* The theorems.                                                           *)

\* The saga starts with an empty table, no service and an open wallet.
LEMMA SagaStarts ==
    ASSUME Init
    PROVE  Saga
<1>1. WalletTypeOK
    <2>1. Entry(Agent, Funds, "charge", NoKey) \in Tx
        BY PaymentAssumption DEF Entry, Tx, TxTypes
    <2>2. balance \in [Agents -> Int]
        BY PaymentAssumption DEF Init
    <2> QED
        BY <2>1, <2>2 DEF Init, WalletTypeOK
<1>2. TypeOK
    <2>1. Idle \in TaskRec /\ NoRows \in [left : SUBSET Payments, owed : Payments \cup {NoPayment}]
        BY DEF Idle, NoRows, TaskRec, TaskPCs, OptAttempts
    <2>2. RowsOK /\ ServicesOK
        BY DEF Init, RowsOK, ServicesOK, Statuses, OptAttempts
    <2>3. ProcessOK
        BY <2>1 DEF Init, ProcessOK
    <2>4. CustomerOK /\ crashes \in 0..MaxCrashes
        BY PaymentAssumption DEF Init, CustomerOK, UsedRec
    <2> QED
        BY <1>1, <2>2, <2>3, <2>4, TypeParts
<1>3. TasksOK
    BY DEF Init, TasksOK, TaskOK, Idle, OwnPCs, PaidPCs, BookedPCs
<1>4. ClaimsOK /\ BooksOK /\ ApprovedIsDelivered
    BY PaymentAssumption DEF Init, ClaimsOK, BooksOK, ApprovedIsDelivered
<1>5. PaidBefore
    <2>1. \A x \in Keys : ~HasTx(x)
        BY WalletAssumption DEF Init, HasTx, Entry
    <2> QED
        BY <2>1, AttemptKeys DEF Init, PaidBefore, Refunded
<1> QED
    BY <1>2, <1>3, <1>4, <1>5 DEF Saga

\* No step of a task, the recovery, another process or a crash breaks it.
LEMMA SagaContinues ==
    ASSUME Saga, [Next]_vars
    PROVE  Saga'
<1>1. TypeOK'
    <2>1. RowsOK' /\ ProcessOK'
        BY PaymentSteps, PartsStayTyped, TasksStay DEF RowsOK, ProcessOK
    <2> QED
        BY <2>1, WalletStaysTyped, ServiceSteps, PartsStayTyped
        DEF TypeOK, RowsOK, ServicesOK, ProcessOK, CustomerOK, TaskRec, UsedRec
<1> QED
    BY <1>1, TasksStay, PaymentSteps, ServiceSteps, StaysPaid, StaysDelivered DEF Saga

\* The inductive invariant holds in every reachable state.
THEOREM SagaHolds == Spec => []Saga
BY SagaStarts, SagaContinues, PTL DEF Spec

\* Every reachable state of the saga has its declared shape.
THEOREM PaymentTypeCorrect == Spec => []TypeOK
<1>1. Saga => TypeOK
    BY DEF Saga
<1> QED
    BY <1>1, SagaHolds, PTL

\* No crash, error, retry or recovery delivers or refunds what was not paid.
THEOREM PaymentPaidBefore == Spec => []PaidBefore
<1>1. Saga => PaidBefore
    BY DEF Saga
<1> QED
    BY <1>1, SagaHolds, PTL

\* A payment that any task or recovery has approved has been carried out on
\* the panel and is in the books.
THEOREM PaymentApprovedIsDelivered == Spec => []ApprovedIsDelivered
<1>1. Saga => ApprovedIsDelivered
    BY DEF Saga
<1> QED
    BY <1>1, SagaHolds, PTL

\* The saga and whatever else the representative buys never overdraw a wallet.
THEOREM PaymentNoOverdraft == Spec => []NoOverdraft
<1>1. Init => NoOverdraft
    <2>1. Init => balance \in [Agents -> Nat]
        BY PaymentAssumption DEF Init
    <2> QED
        BY <2>1 DEF NoOverdraft
<1>2. Saga /\ NoOverdraft /\ [Next]_vars => NoOverdraft'
    <2>1. SUFFICES ASSUME Saga, NoOverdraft, [Next]_vars PROVE NoOverdraft'
        OBVIOUS
    <2>2. CASE UNCHANGED walletVars
        BY <2>1, <2>2 DEF NoOverdraft, walletVars
    <2>3. CASE \E entry : Allowed(entry) /\ SagaEntry(entry) /\ Post(entry)
        BY <2>1, <2>3, PostKeepsCover, TypeParts DEF Allowed, Saga
    <2> QED
        BY <2>1, <2>2, <2>3, MoneySteps
<1> QED
    BY <1>1, <1>2, SagaHolds, PTL DEF Spec

(***************************************************************************)
(* Where no receipt is written late, nothing changes an approved payment:  *)
(* no reject, no refund of another task, no recovery.                      *)
(***************************************************************************)
NoReceiptOpen == \A p \in Payments : receipt[p] = "none"

LEMMA ReceiptsStayClosed ==
    ASSUME ~LateReceipts, NoReceiptOpen, Saga, [Next]_vars
    PROVE  NoReceiptOpen'
<1>1. receipt \in [Payments -> {"none", "notified", "answered"}]
    BY TypeParts DEF Saga, CustomerOK
<1>2. \/ receipt' = receipt
      \/ \E p \in Payments : SendReceipt(p) \/ RewriteReceipt(p)
    BY ReceiptWriters
<1> QED
    BY <1>1, <1>2 DEF NoReceiptOpen, SendReceipt, RewriteReceipt

LEMMA ApprovedStays ==
    ASSUME ~LateReceipts, NoReceiptOpen, Saga, [Next]_vars, NEW q \in Payments,
           status[q] = "approved"
    PROVE  status'[q] = "approved"
<1>1. status \in [Payments -> Statuses]
    BY TypeParts DEF Saga, RowsOK
<1>2. ASSUME NEW p, NEW k, NEW final, Finish(p, k, final)
      PROVE  status'[q] = "approved"
    BY <1>1, <1>2 DEF Finish, Finishable, SetStatus
<1>3. CASE \E t \in Tasks : ClaimPayment(t) \/ Release(t) \/ GiveBack(t) \/ FinishApproved(t)
    BY <1>1, <1>2, <1>3 DEF ClaimPayment, Claim, SetStatus, Release, GiveBack, FinishApproved
<1>4. CASE \E t \in Tasks, p \in Payments : ApproveNoOrder(t, p)
    BY <1>1, <1>4 DEF ApproveNoOrder, SetStatus
<1>5. CASE \E p \in Payments : RecoverRow(p)
    BY <1>2, <1>5 DEF RecoverRow
<1>6. CASE \E p \in Payments : Reject(p) \/ Reopen(p) \/ SendReceipt(p) \/ RewriteReceipt(p)
    BY <1>1, <1>6 DEF Reject, Reopen, SendReceipt, RewriteReceipt, SetStatus, NoReceiptOpen
<1> QED
    BY <1>3, <1>4, <1>5, <1>6, StatusWriters

\* An approved payment is final when receipts come before the approval.
THEOREM PaymentApprovedIsFinal ==
    ASSUME ~LateReceipts
    PROVE  Spec => ApprovedIsFinal
<1>1. Init => NoReceiptOpen
    BY DEF Init, NoReceiptOpen
<1>2. NoReceiptOpen /\ Saga /\ [Next]_vars => NoReceiptOpen'
    BY ReceiptsStayClosed
<1>3. NoReceiptOpen /\ Saga /\ [Next]_vars
          => [\A p \in Payments : status[p] = "approved" => status'[p] = "approved"]_vars
    BY ApprovedStays
<1> QED
    BY <1>1, <1>2, <1>3, SagaHolds, PTL DEF Spec, ApprovedIsFinal

-----------------------------------------------------------------------------
(***************************************************************************)
(* Where the database does not fail, a payment in processing is not        *)
(* rejected and receipts come before the approval, more can be said: a     *)
(* payment in processing belongs to one attempt, and what the panel is     *)
(* known to have done for it is still paid.  The invariant has three       *)
(* parts.                                                                  *)
(*                                                                         *)
(* A task.  From the claim to the end of the approval it holds the         *)
(* payment: the row is in processing under the task's key.  What the       *)
(* attempt has done so far is known at each point, so that the wallet is   *)
(* refunded only where the panel has done nothing or its answer was lost.  *)
(***************************************************************************)
HeldPCs == {"deduct", "release", "notify", "fulfil", "panel", "store", "enable", "deliver",
            "refund", "giveBack"}

Holds(p, k) == status[p] = "processing" /\ claim[p] = k
Counted(k) == k[2] <= used[k[1]].keys
Unused(k) == Counted(k) /\ ~Debited(k)

CalmTask(r) ==
    /\ r.pc \notin {"finish", "recover", "recheck"}
    /\ r.pc = "claim" => Holds(r.p, r.k) \/ (status[r.p] # "processing" /\ Unused(r.k))
    /\ r.pc \in HeldPCs => Holds(r.p, r.k)
    /\ r.pc \in {"deduct", "release"} => Unused(r.k)
    /\ r.pc \in {"notify", "fulfil", "panel"} => ~Refunded(r.k)
    /\ r.pc \in {"notify", "fulfil", "panel"} => r.k \notin panel
    /\ r.pc = "refund" => r.k \notin panel \ lost
    /\ r.pc = "store" => renewed[r.k] = 0 /\ r.k \notin lost
    /\ r.pc = "giveBack" => Refunded(r.k)

CalmTasks == \A t \in Tasks : CalmTask(task[t])

\* Two tasks do not hold the same payment.
Apart ==
    \A t, u \in Tasks :
        (task[t].pc \in HeldPCs /\ task[u].pc \in HeldPCs /\ task[t].p = task[u].p) => t = u

\* An attempt that the panel is known to have carried out is still paid, and
\* nothing else is in the books; one that is paid
\* has the payment, in processing or approved, to itself.
CalmBooks ==
    /\ \A k \in panel \ lost : Owing(k)
    /\ \A k \in Attempts : renewed[k] <= 1 /\ (InBooks(k) => k \in panel \ lost)
    /\ \A k \in Attempts : Owing(k) => Holds(k[1], k) \/ status[k[1]] = "approved"
    /\ \A k, l \in Attempts : (Owing(k) /\ Owing(l) /\ k[1] = l[1]) => k = l
    /\ \A k \in Attempts : Debited(k) => Counted(k)

\* Only a payment in processing has a key; a bot that is not up has no task.
CalmRows ==
    /\ \A p \in Payments : claim[p] # NoKey => status[p] = "processing"
    /\ bot # "up" => \A t \in Tasks : task[t] = Idle
    /\ NoReceiptOpen

Calm == CalmTasks /\ Apart /\ CalmBooks /\ CalmRows
Quietly == ~Faults /\ ~RejectClaimed /\ ~LateReceipts

-----------------------------------------------------------------------------
(* What a calm step does to the books.                                     *)

USE DEF Next, TaskStep, QueueStep, PressStep, CustomerStep, RecoveryStep, MarkProcessed, DropQueued,
        SkipQueued, StartApproval, ApproveNoOrder, Reject, Reopen, SendReceipt, RewriteReceipt,
        Enqueue, ClaimPayment, DeductWallet, DeductRefused, DeductRaises, Release, Notify,
        StartDelivery, PanelDone, PanelFails, StoreService, StoreRenewal, StoreRefused, StoreRaises,
        Activate, DeliverRaises, RefundWallet, RefundRaises, GiveBack, FinishApproved, Recheck,
        ApproveOrder, Abandon, Restart, RecoverOrder, RecoverDone, RecoverRow, Crash, SpendElsewhere,
        agentPress, customerStep, ledgerStep, vars

\* The steps that write about a payment, on whichever side, and the tables
\* each of them leaves alone.
ActsOn(t) ==
    \/ (DeductWallet(t) \/ RefundWallet(t)) /\ UNCHANGED <<status, claim, serviceVars>>
    \/ (PanelDone(t) \/ PanelFails(t) \/ StoreService(t) \/ StoreRenewal(t))
       /\ UNCHANGED <<walletVars, status, claim>>
    \/ (ClaimPayment(t) \/ Release(t) \/ GiveBack(t) \/ FinishApproved(t))
       /\ UNCHANGED <<walletVars, serviceVars>>

WritesRow(p) ==
    /\ \/ (\E t \in Tasks : ApproveNoOrder(t, p)) \/ RecoverRow(p)
       \/ Reject(p) \/ Reopen(p) \/ SendReceipt(p) \/ RewriteReceipt(p)
    /\ UNCHANGED <<walletVars, serviceVars>>

LEMMA WalletStep ==
    ASSUME NEW t \in Tasks, DeductWallet(t) \/ RefundWallet(t)
    PROVE  UNCHANGED <<status, claim, serviceVars>>
BY DEF paymentVars

LEMMA ServiceStep ==
    ASSUME NEW t \in Tasks, PanelDone(t) \/ PanelFails(t) \/ StoreService(t) \/ StoreRenewal(t)
    PROVE  UNCHANGED <<walletVars, status, claim>>
BY DEF paymentVars

LEMMA RowStep ==
    ASSUME NEW t \in Tasks, ClaimPayment(t) \/ Release(t) \/ GiveBack(t) \/ FinishApproved(t)
    PROVE  UNCHANGED <<walletVars, serviceVars>>
OBVIOUS

LEMMA OtherTaskStep ==
    ASSUME NEW t \in Tasks,
           \/ DeductRefused(t) \/ DeductRaises(t) \/ Notify(t) \/ StartDelivery(t)
           \/ StoreRefused(t) \/ StoreRaises(t) \/ Activate(t) \/ DeliverRaises(t)
           \/ RefundRaises(t) \/ Recheck(t) \/ ApproveOrder(t) \/ Abandon(t)
    PROVE  UNCHANGED <<walletVars, status, claim, serviceVars>>
BY DEF paymentVars

LEMMA RowWrite ==
    ASSUME NEW p \in Payments,
           \/ (\E t \in Tasks : ApproveNoOrder(t, p)) \/ RecoverRow(p)
           \/ Reject(p) \/ Reopen(p) \/ SendReceipt(p) \/ RewriteReceipt(p)
    PROVE  UNCHANGED <<walletVars, serviceVars>>
OBVIOUS

LEMMA OtherStep ==
    ASSUME \/ \E p \in Payments : \/ \E t \in Tasks : StartApproval(t, p)
                                  \/ SkipQueued(p) \/ DropQueued(p) \/ Enqueue(p)
           \/ MarkProcessed \/ Restart \/ RecoverOrder \/ RecoverDone \/ Crash \/ UNCHANGED vars
    PROVE  UNCHANGED <<walletVars, status, claim, serviceVars>>
BY DEF paymentVars

LEMMA SpendStep ==
    ASSUME SpendElsewhere
    PROVE  UNCHANGED <<status, claim, serviceVars>>
BY DEF paymentVars

\* Keys are counted by the start of an approval alone.
LEMMA KeyWriters ==
    ASSUME [Next]_vars
    PROVE  \/ used' = used
           \/ \E p \in Payments :
                  \/ used' = [used EXCEPT ![p].keys = @ + 1]
                  \/ used' = [used EXCEPT ![p].messages = @ + 1]
                  \/ used' = [used EXCEPT ![p].receipts = @ + 1]
BY DEF customerVars

\* Nothing raises.
LEMMA NoneRaises ==
    ASSUME Quietly, NEW t \in Tasks
    PROVE  /\ ~DeductRaises(t) /\ ~StoreRaises(t) /\ ~DeliverRaises(t)
           /\ ~RefundRaises(t) /\ ~Abandon(t)
BY DEF Quietly

\* The bot comes up, and stays so, but for a crash.
LEMMA BotWriters ==
    ASSUME [Next]_vars
    PROVE  \/ bot' = bot
           \/ bot' = "up"
           \/ bot = "down" /\ bot' = "recover" /\ task' = task
           \/ bot' = "down" /\ task' = [t \in Tasks |-> Idle]
BY DEF processVars

\* While the bot is not up nothing but the recovery and a crash concerns a task.
LEMMA DownMoves ==
    ASSUME [Next]_vars, bot # "up"
    PROVE  task' = task \/ RecoverDone \/ Crash
BY DEF Step, Runs, processVars, Tasks

HIDE DEF Next, TaskStep, QueueStep, PressStep, CustomerStep, RecoveryStep, MarkProcessed, DropQueued,
         SkipQueued, StartApproval, ApproveNoOrder, Reject, Reopen, SendReceipt, RewriteReceipt,
         Enqueue, ClaimPayment, DeductWallet, DeductRefused, DeductRaises, Release, Notify,
         StartDelivery, PanelDone, PanelFails, StoreService, StoreRenewal, StoreRefused, StoreRaises,
         Activate, DeliverRaises, RefundWallet, RefundRaises, GiveBack, FinishApproved, Recheck,
         ApproveOrder, Abandon, Restart, RecoverOrder, RecoverDone, RecoverRow, Crash, SpendElsewhere,
         agentPress, customerStep, ledgerStep, vars

\* Who writes a book: a task about its own payment, or a button, a receipt or
\* the recovery about a row.
LEMMA BookWriters ==
    ASSUME [Next]_vars
    PROVE  \/ UNCHANGED <<walletVars, status, claim, serviceVars>>
           \/ SpendElsewhere /\ UNCHANGED <<status, claim, serviceVars>>
           \/ \E t \in Tasks : ActsOn(t)
           \/ \E p \in Payments : WritesRow(p)
<1>1. ASSUME NEW t \in Tasks, TaskStep(t)
      PROVE  UNCHANGED <<walletVars, status, claim, serviceVars>> \/ ActsOn(t)
    BY <1>1, WalletStep, ServiceStep, RowStep, OtherTaskStep DEF TaskStep, ActsOn
<1>2. ASSUME NEW p \in Payments, QueueStep(p) \/ DropQueued(p) \/ PressStep(p) \/ CustomerStep(p)
      PROVE  UNCHANGED <<walletVars, status, claim, serviceVars>> \/ WritesRow(p)
    BY <1>2, OtherStep, RowWrite DEF WritesRow, Tasks, QueueStep, PressStep, CustomerStep
<1>3. ASSUME RecoveryStep
      PROVE  \/ UNCHANGED <<walletVars, status, claim, serviceVars>>
             \/ \E p \in Payments : WritesRow(p)
    BY <1>3, OtherStep, RowWrite DEF WritesRow, RecoveryStep
<1> QED
    BY <1>1, <1>2, <1>3, OtherStep, SpendStep DEF Next

\* A task in the saga knows its payment and its attempt.
LEMMA SagaTask ==
    ASSUME Saga, NEW t \in Tasks, task[t].pc \in HeldPCs \cup {"claim"}
    PROVE  /\ task[t].k \in Attempts /\ task[t].k[1] = task[t].p /\ task[t].k # NoKey
           /\ task[t].p \in Payments /\ task[t].p \in Buys \cup Renews
<1>1. TaskOK(task[t]) /\ task[t].pc \in OwnPCs
    BY DEF Saga, TasksOK, HeldPCs, OwnPCs, TaskPCs
<1> QED
    BY <1>1, PaymentAssumption DEF TaskOK, AttemptsOf

LEMMA CountsGrow ==
    ASSUME Saga, [Next]_vars, NEW k \in Attempts, Counted(k)
    PROVE  Counted(k)'
<1>1. used \in [Payments -> UsedRec]
    BY TypeParts DEF Saga, CustomerOK
<1>2. k[1] \in Payments /\ k[2] \in Nat
    BY PaymentAssumption DEF Attempts
<1>3. used[k[1]].keys \in Nat
    BY <1>1, <1>2, PaymentAssumption DEF UsedRec
<1>4. used'[k[1]].keys = used[k[1]].keys \/ used'[k[1]].keys = used[k[1]].keys + 1
    BY <1>1, <1>2, KeyWriters DEF UsedRec
<1> QED
    BY <1>2, <1>3, <1>4 DEF Counted

\* The debit of an attempt that has none, under its own key.
LEMMA DeductBooks ==
    ASSUME Saga, CalmTasks, NEW t \in Tasks, DeductWallet(t)
    PROVE  \A l \in Attempts : /\ Debited(l)' <=> Debited(l) \/ l = task[t].k
                               /\ Refunded(l)' <=> Refunded(l)
<1>1. task[t].pc = "deduct"
    BY DEF DeductWallet, Step, At
<1>2. PICK k \in Attempts : k = task[t].k
    BY <1>1, SagaTask DEF HeldPCs
<1>3. ~Debited(k)
    BY <1>1, <1>2 DEF CalmTasks, CalmTask, Unused
<1>4. ~TxIs(DebitKey(k), Debit(k))
    BY <1>3 DEF Debited, HasTx, TxIs
<1>5. Post(Debit(k)) /\ Debit(k) \in Tx /\ Debit(k).key = DebitKey(k)
    BY <1>2, <1>4, DebitIsTx DEF DeductWallet, OnceOk, Replayed
<1>6. WalletTypeOK
    BY TypeParts DEF Saga
<1>7. \A x : HasTx(x)' <=> HasTx(x) \/ x = DebitKey(k)
    BY <1>5, <1>6, PostHasTx
<1> QED
    BY <1>2, <1>7 DEF Debited, Refunded, DebitKey, RefundKey

LEMMA RefundBooks ==
    ASSUME Saga, NEW t \in Tasks, RefundWallet(t)
    PROVE  \A l \in Attempts : /\ Debited(l)' <=> Debited(l)
                               /\ Refunded(l)' <=> Refunded(l) \/ l = task[t].k
<1>1. task[t].pc = "refund"
    BY DEF RefundWallet, Step, At
<1>2. PICK k \in Attempts : k = task[t].k
    BY <1>1, SagaTask DEF HeldPCs
<1>3. Refund(k) \in Tx /\ Refund(k).key = RefundKey(k) /\ Refund(k).amount \in Nat \ {0}
    BY RefundIsTx
<1>4. CASE Post(Refund(k))
    <2>1. WalletTypeOK
        BY TypeParts DEF Saga
    <2>2. \A x : HasTx(x)' <=> HasTx(x) \/ x = RefundKey(k)
        BY <1>3, <1>4, <2>1, PostHasTx
    <2> QED
        BY <1>2, <2>2 DEF Debited, Refunded, DebitKey, RefundKey
<1>5. CASE TxIs(RefundKey(k), Refund(k)) /\ UNCHANGED walletVars
    BY <1>2, <1>5 DEF TxIs, HasTx, Debited, Refunded, walletVars
<1> QED
    BY <1>2, <1>3, <1>4, <1>5 DEF RefundWallet, OnceOk, Replayed

LEMMA SpendBooks ==
    ASSUME Saga, SpendElsewhere
    PROVE  \A l \in Attempts : (Debited(l)' <=> Debited(l)) /\ (Refunded(l)' <=> Refunded(l))
<1>1. Post(OtherPurchase)
    BY DEF SpendElsewhere, Deduct, OtherPurchase
<1>2. WalletTypeOK
    BY TypeParts DEF Saga
<1>3. \A x : HasTx(x)' <=> HasTx(x) \/ x = NoKey
    BY <1>1, <1>2, OtherPurchaseIsTx, PostHasTx
<1>4. \A l \in Attempts : DebitKey(l) # NoKey /\ RefundKey(l) # NoKey
    BY AttemptKeys, WalletAssumption
<1> QED
    BY <1>3, <1>4 DEF Debited, Refunded

LEMMA BooksUntouched ==
    ASSUME UNCHANGED walletVars
    PROVE  \A l : (Debited(l)' <=> Debited(l)) /\ (Refunded(l)' <=> Refunded(l))
BY DEF Debited, Refunded, HasTx, walletVars

-----------------------------------------------------------------------------
(* The other tasks, while one of them writes.                              *)

\* A step leaves what a task has behind it as it was.
Spares(r) ==
    /\ Holds(r.p, r.k) => Holds(r.p, r.k)'
    /\ status[r.p] # "processing" => status'[r.p] # "processing"
    /\ Unused(r.k) => Unused(r.k)'
    /\ Refunded(r.k)' <=> Refunded(r.k)
    /\ (r.k \in panel' <=> r.k \in panel) /\ (r.k \in lost' <=> r.k \in lost)
    /\ renewed'[r.k] = renewed[r.k]

LEMMA SparedTaskStays ==
    ASSUME NEW r \in TaskRec, CalmTask(r), r.pc \in HeldPCs \cup {"claim"} => Spares(r)
    PROVE  CalmTask(r)'
BY DEF CalmTask, Spares, HeldPCs

\* A task that writes about a payment moves, and has the event loop.
LEMMA ActorMoves ==
    ASSUME Saga, NEW t \in Tasks, ActsOn(t)
    PROVE  task'[t] # task[t] /\ Runs(t) /\ task[t].pc \in HeldPCs \cup {"claim", "finish"}
<1>0. task \in [Tasks -> TaskRec]
    BY TypeParts DEF Saga, ProcessOK
<1>1. PICK pc \in TaskPCs : Goto(t, pc) /\ pc # task[t].pc
    BY DEF ActsOn, DeductWallet, RefundWallet, PanelDone, PanelFails, StoreService, StoreRenewal, ClaimPayment,
           Release, GiveBack, FinishApproved, Step, At, TaskPCs
<1>2. task'[t].pc = pc
    BY <1>0, <1>1, GotoTask
<1>3. Runs(t) /\ task[t].pc \in HeldPCs \cup {"claim", "finish"}
    BY DEF ActsOn, DeductWallet, RefundWallet, PanelDone, PanelFails, StoreService, StoreRenewal, ClaimPayment,
           Release, GiveBack, FinishApproved, Step, At, HeldPCs
<1> QED
    BY <1>1, <1>2, <1>3

\* What it writes is about its own payment, which no other task holds.
LEMMA OthersHoldOthers ==
    ASSUME Saga, Calm, NEW t \in Tasks, NEW u \in Tasks \ {t}, ActsOn(t),
           task[u].pc \in HeldPCs \cup {"claim"}
    PROVE  /\ task[u].pc \in HeldPCs
           /\ task[t].p \in Payments /\ task[t].k \in Attempts /\ task[u].k \in Attempts
           /\ task[u].p \in Payments
           /\ \/ task[u].p # task[t].p /\ task[u].k # task[t].k
              \/ ClaimPayment(t) /\ status[task[t].p] # "pending"
<1>1. Runs(t) /\ task[t].pc \in HeldPCs \cup {"claim"}
    BY ActorMoves DEF Calm, CalmTasks, CalmTask
<1>2. task[u].pc \in Waiting /\ task[u].pc \in HeldPCs
    BY <1>1 DEF Runs, Waiting, HeldPCs
<1>3. /\ task[t].k \in Attempts /\ task[t].p \in Payments /\ task[t].k[1] = task[t].p
      /\ task[u].k \in Attempts /\ task[u].p \in Payments /\ task[u].k[1] = task[u].p
    BY <1>1, <1>2, SagaTask
<1>4. CASE task[t].pc \in HeldPCs
    BY <1>2, <1>3, <1>4 DEF Calm, Apart
<1>5. CASE task[t].pc = "claim"
    <2>1. Holds(task[u].p, task[u].k)
        BY <1>2 DEF Calm, CalmTasks, CalmTask
    <2>2. ClaimPayment(t)
        BY <1>5 DEF ActsOn, DeductWallet, RefundWallet, PanelDone, PanelFails, StoreService, StoreRenewal,
                    Release, GiveBack, FinishApproved, Step, At
    <2> QED
        BY <1>2, <1>3, <2>1, <2>2 DEF Holds
<1> QED
    BY <1>1, <1>2, <1>3, <1>4, <1>5
\* A task that does not move is spared.
LEMMA ActorSpares ==
    ASSUME Saga, Calm, NEW t \in Tasks, NEW u \in Tasks \ {t}, ActsOn(t), [Next]_vars,
           NEW r \in TaskRec, r = task[u], r.pc \in HeldPCs \cup {"claim"}
    PROVE  Spares(r)
<1>0. /\ status \in [Payments -> Statuses] /\ claim \in [Payments -> OptAttempts] /\ ServicesOK
      /\ Counted(r.k) => Counted(r.k)'
      /\ r.k \in Attempts /\ r.p \in Payments
    BY TypeParts, SagaTask, CountsGrow DEF Saga, RowsOK
<1>1. PICK p \in Payments, k \in Attempts : p = task[t].p /\ k = task[t].k
    BY OthersHoldOthers
<1>2. (r.p # p /\ r.k # k) \/ (ClaimPayment(t) /\ status[p] # "pending")
    BY <1>1, OthersHoldOthers
<1>3. CASE (DeductWallet(t) \/ RefundWallet(t)) /\ UNCHANGED <<status, claim, serviceVars>>
    <2>1. ~ClaimPayment(t)
        BY <1>3 DEF DeductWallet, RefundWallet, ClaimPayment, Step, At
    <2>2. (Debited(r.k)' <=> Debited(r.k)) /\ (Refunded(r.k)' <=> Refunded(r.k))
        BY <1>0, <1>1, <1>2, <1>3, <2>1, DeductBooks, RefundBooks DEF Calm
    <2> QED
        BY <1>0, <1>3, <2>2 DEF Spares, Holds, Unused, serviceVars
<1>4. CASE /\ PanelDone(t) \/ PanelFails(t) \/ StoreService(t) \/ StoreRenewal(t)
           /\ UNCHANGED <<walletVars, status, claim>>
    <2>1. ~ClaimPayment(t)
        BY <1>4 DEF PanelDone, PanelFails, StoreService, StoreRenewal, ClaimPayment, Step, At
    <2>2. /\ (r.k \in panel' <=> r.k \in panel) /\ (r.k \in lost' <=> r.k \in lost)
          /\ renewed'[r.k] = renewed[r.k]
        BY <1>0, <1>1, <1>2, <1>4, <2>1
        DEF PanelDone, PanelFails, StoreService, StoreRenewal, ServicesOK
    <2> QED
        BY <1>0, <1>4, <2>2, BooksUntouched DEF Spares, Holds, Unused
<1>5. CASE /\ ClaimPayment(t) \/ Release(t) \/ GiveBack(t) \/ FinishApproved(t)
           /\ UNCHANGED <<walletVars, serviceVars>>
    <2>1. \/ status' = status /\ claim' = claim
          \/ r.p # p /\ status'[r.p] = status[r.p] /\ claim'[r.p] = claim[r.p]
        BY <1>0, <1>1, <1>2, <1>5
        DEF ClaimPayment, Release, GiveBack, FinishApproved, Claim, Finish, SetStatus
    <2> QED
        BY <1>0, <1>5, <2>1, BooksUntouched DEF Spares, Holds, Unused, serviceVars
<1> QED
    BY <1>3, <1>4, <1>5 DEF ActsOn

\* Nor does a button, a receipt or the recovery touch it.
LEMMA RowSpares ==
    ASSUME Saga, Calm, Quietly, NEW q \in Payments, WritesRow(q), [Next]_vars, NEW u \in Tasks,
           NEW r \in TaskRec, r = task[u], r.pc \in HeldPCs \cup {"claim"}
    PROVE  Spares(r)
<1>0. /\ status \in [Payments -> Statuses] /\ claim \in [Payments -> OptAttempts]
      /\ Counted(r.k) => Counted(r.k)'
      /\ r.k \in Attempts /\ r.p \in Payments /\ r.p \in Buys \cup Renews
    BY TypeParts, SagaTask, CountsGrow DEF Saga, RowsOK
<1>1. ~RecoverRow(q)
    <2>1. bot = "up" /\ \A t \in Tasks : task[t].pc # "recover"
        BY DEF Calm, CalmRows, CalmTasks, CalmTask, Idle, HeldPCs
    <2> QED
        BY <2>1 DEF RecoverRow, Recovering, Step, At
<1>2. ~RewriteReceipt(q)
    BY DEF RewriteReceipt, Calm, CalmRows, NoReceiptOpen
<1>3. /\ status[q] # "processing"
      /\ \E s \in {"approved", "rejected", "pending"} : status' = [status EXCEPT ![q] = s]
    BY <1>0, <1>1, <1>2
    DEF WritesRow, ApproveNoOrder, Reject, Reopen, SendReceipt, SetStatus, Quietly, agentPress,
        customerStep
<1>4. claim' = claim
    BY <1>1, <1>2 DEF WritesRow, ApproveNoOrder, Reject, Reopen, SendReceipt, agentPress, customerStep
<1>5. UNCHANGED <<walletVars, serviceVars>>
    BY DEF WritesRow
<1> QED
    BY <1>0, <1>3, <1>4, <1>5, BooksUntouched DEF Spares, Holds, Unused, serviceVars

LEMMA OthersSpared ==
    ASSUME Saga, Calm, Quietly, [Next]_vars, NEW u \in Tasks,
           NEW r \in TaskRec, r = task[u], task'[u] = r, r.pc \in HeldPCs \cup {"claim"}
    PROVE  Spares(r)
<1>0. Counted(r.k) => Counted(r.k)'
    BY SagaTask, CountsGrow
<1>1. CASE UNCHANGED <<walletVars, status, claim, serviceVars>>
    BY <1>0, <1>1, BooksUntouched DEF Spares, Holds, Unused, serviceVars
<1>2. CASE SpendElsewhere /\ UNCHANGED <<status, claim, serviceVars>>
    <2>1. (Debited(r.k)' <=> Debited(r.k)) /\ (Refunded(r.k)' <=> Refunded(r.k))
        BY <1>2, SpendBooks, SagaTask
    <2> QED
        BY <1>0, <1>2, <2>1 DEF Spares, Holds, Unused, serviceVars
<1>3. CASE \E t \in Tasks : ActsOn(t)
    BY <1>3, ActorMoves, ActorSpares
<1>4. CASE \E q \in Payments : WritesRow(q)
    BY <1>4, RowSpares
<1> QED
    BY <1>1, <1>2, <1>3, <1>4, BookWriters

-----------------------------------------------------------------------------
(* The task that moves.                                                    *)

\* What a task has behind it where it stands, by name.
LEMMA Behind ==
    ASSUME Saga, Calm, NEW t \in Tasks
    PROVE  /\ task[t] \in TaskRec /\ CalmTask(task[t]) /\ TaskOK(task[t])
           /\ RowsOK /\ ServicesOK /\ BooksOK /\ PaidBefore
BY TypeParts DEF Saga, Calm, CalmTasks, TasksOK, ProcessOK

\* A delivery that has not begun is not found delivered.
LEMMA NothingDelivered ==
    ASSUME Saga, Calm, NEW t \in Tasks, task[t].pc = "fulfil"
    PROVE  ~Delivered(task[t].p, task[t].k)
<1>1. task[t].k \notin panel
    BY Behind DEF CalmTask
<1>2. task[t].k \in Attempts /\ task[t].p \in Payments
    BY SagaTask DEF HeldPCs
<1> QED
    BY <1>1, <1>2, DeliveredIsCarried DEF Carried

\* A step that touches no book takes the task where less is asked of it, or
\* the same.
LEMMA QuietMoves ==
    ASSUME Saga, Calm, Quietly, [Next]_vars, NEW t \in Tasks,
           \/ DeductRefused(t) \/ Notify(t) \/ StartDelivery(t)
           \/ StoreRefused(t) \/ Activate(t) \/ Recheck(t) \/ ApproveOrder(t)
    PROVE  CalmTask(task[t])'
<1>0. task[t] \in TaskRec /\ CalmTask(task[t]) /\ task \in [Tasks -> TaskRec]
    BY Behind, TypeParts DEF Saga, ProcessOK
<1>1. PICK r \in TaskRec : r = task[t]
    BY <1>0
<1>2. UNCHANGED <<walletVars, status, claim, serviceVars>>
    BY OtherTaskStep
<1>3. ~Recheck(t)
    BY <1>0 DEF Recheck, Step, At, CalmTask
<1>4. PICK pc \in TaskPCs :
        /\ Goto(t, pc)
        /\ \/ pc \in {"idle", "order", "report"}
           \/ r.pc = "deduct" /\ pc = "release"
           \/ r.pc = "notify" /\ pc = "fulfil"
           \/ r.pc = "fulfil" /\ pc = "panel"
           \/ r.pc = "enable" /\ pc = "deliver"
    BY <1>1, <1>3, NothingDelivered
    DEF DeductRefused, Notify, StartDelivery, StoreRefused, Activate, ApproveOrder,
        Step, At, TaskPCs, Quietly
<1>5. PICK q \in TaskRec : q = task'[t] /\ q.pc = pc /\ (pc # "idle" => q.p = r.p /\ q.k = r.k)
    BY <1>0, <1>1, <1>4, GotoTask
<1>6. CASE pc \in {"idle", "order", "report"}
    BY <1>5, <1>6 DEF CalmTask, HeldPCs
<1>7. CASE pc \notin {"idle", "order", "report"}
    <2>1. r.pc \in HeldPCs \cup {"claim"} /\ pc \in HeldPCs /\ q.p = r.p /\ q.k = r.k
        BY <1>4, <1>5, <1>7 DEF HeldPCs
    <2>2. Counted(r.k) => Counted(r.k)'
        BY <1>1, <2>1, SagaTask, CountsGrow
    <2>3. Spares(r) /\ CalmTask(r)
        BY <1>0, <1>1, <1>2, <2>2, BooksUntouched DEF Spares, Holds, Unused, serviceVars
    <2>4. CalmTask(q)'
        BY <1>4, <1>5, <1>7, <2>1, <2>3 DEF CalmTask, Spares, HeldPCs
    <2> QED
        BY <1>5, <2>4
<1> QED
    BY <1>6, <1>7

\* A step that writes a book leaves the task what its next point asks for.
LEMMA WalletMoves ==
    ASSUME Saga, Calm, NEW t \in Tasks, DeductWallet(t) \/ RefundWallet(t)
    PROVE  CalmTask(task[t])'
<1>0. /\ task[t] \in TaskRec /\ CalmTask(task[t]) /\ task \in [Tasks -> TaskRec] /\ PaidBefore
      /\ UNCHANGED <<status, claim, serviceVars>>
    BY Behind, WalletStep, TypeParts DEF Saga, ProcessOK
<1>1. PICK r \in TaskRec : r = task[t]
    BY <1>0
<1>2. r.pc \in {"deduct", "refund"} /\ r.k \in Attempts
    BY <1>1, SagaTask DEF DeductWallet, RefundWallet, Step, At, HeldPCs
<1>3. CASE DeductWallet(t)
    <2>1. r.pc = "deduct"
        BY <1>1, <1>3 DEF DeductWallet, Step, At
    <2>2. PICK pc \in {"notify", "fulfil"} : Goto(t, pc)
        BY <1>3 DEF DeductWallet
    <2>3. PICK q \in TaskRec : q = task'[t] /\ q.pc = pc /\ q.p = r.p /\ q.k = r.k
        BY <1>0, <1>1, <2>2, GotoTask DEF TaskPCs
    <2>4. ~Debited(r.k) /\ Holds(r.p, r.k)
        BY <1>0, <1>1, <2>1 DEF CalmTask, Unused, HeldPCs
    <2>5. ~Refunded(r.k) /\ r.k \notin panel
        BY <1>0, <1>2, <2>4 DEF PaidBefore
    <2>6. ~Refunded(r.k)'
        BY <1>1, <1>2, <1>3, <2>5, DeductBooks DEF Calm
    <2>7. CalmTask(q)'
        BY <1>0, <2>2, <2>3, <2>4, <2>5, <2>6 DEF CalmTask, HeldPCs, Holds, serviceVars
    <2> QED
        BY <2>3, <2>7
<1>4. CASE RefundWallet(t)
    <2>1. r.pc = "refund" /\ Goto(t, "giveBack")
        BY <1>1, <1>4 DEF RefundWallet, Step, At
    <2>2. PICK q \in TaskRec : q = task'[t] /\ q.pc = "giveBack" /\ q.p = r.p /\ q.k = r.k
        BY <1>0, <1>1, <2>1, GotoTask DEF TaskPCs
    <2>3. Holds(r.p, r.k)
        BY <1>0, <1>1, <2>1 DEF CalmTask, HeldPCs
    <2>4. Refunded(r.k)'
        BY <1>1, <1>2, <1>4, RefundBooks
    <2>5. CalmTask(q)'
        BY <1>0, <2>2, <2>3, <2>4 DEF CalmTask, HeldPCs, Holds
    <2> QED
        BY <2>2, <2>5
<1> QED
    BY <1>3, <1>4

LEMMA ServiceMoves ==
    ASSUME Saga, Calm, NEW t \in Tasks,
           PanelDone(t) \/ PanelFails(t) \/ StoreService(t) \/ StoreRenewal(t)
    PROVE  CalmTask(task[t])'
<1>0. /\ task[t] \in TaskRec /\ CalmTask(task[t]) /\ task \in [Tasks -> TaskRec] /\ ServicesOK
      /\ UNCHANGED <<walletVars, status, claim>>
    BY Behind, ServiceStep, TypeParts DEF Saga, ProcessOK
<1>1. PICK r \in TaskRec : r = task[t]
    BY <1>0
<1>2. PICK pc \in {"store", "deliver", "enable", "refund"} :
        /\ Goto(t, pc) /\ r.pc \in HeldPCs
        /\ pc = "store" => r.pc = "panel" /\ UNCHANGED <<renewed, lost>>
        /\ pc = "refund" => /\ r.pc = "panel"
                            /\ UNCHANGED <<panel, lost>> \/ lost' = lost \cup {r.k}
    BY <1>1 DEF PanelDone, PanelFails, StoreService, StoreRenewal, Step, At, HeldPCs
<1>3. PICK q \in TaskRec : q = task'[t] /\ q.pc = pc /\ q.p = r.p /\ q.k = r.k
    BY <1>0, <1>1, <1>2, GotoTask DEF TaskPCs
<1>4. Holds(r.p, r.k) /\ r.k \in Attempts
    BY <1>0, <1>1, <1>2, SagaTask DEF CalmTask
<1>5. /\ pc = "store" => renewed'[r.k] = 0 /\ r.k \notin lost'
      /\ pc = "refund" => r.k \notin panel' \ lost'
    <2>1. pc \in {"store", "refund"} => r.k \notin panel
        BY <1>0, <1>1, <1>2 DEF CalmTask
    <2> QED
        BY <1>0, <1>2, <1>4, <2>1 DEF Calm, CalmBooks, ServicesOK, InBooks
<1>6. CalmTask(q)'
    BY <1>0, <1>2, <1>3, <1>4, <1>5 DEF CalmTask, HeldPCs, Holds
<1> QED
    BY <1>3, <1>6

LEMMA RowMoves ==
    ASSUME Saga, Calm, NEW t \in Tasks,
           ClaimPayment(t) \/ Release(t) \/ GiveBack(t) \/ FinishApproved(t)
    PROVE  CalmTask(task[t])'
<1>0. /\ task[t] \in TaskRec /\ CalmTask(task[t]) /\ task \in [Tasks -> TaskRec] /\ RowsOK
      /\ UNCHANGED <<walletVars, serviceVars>>
    BY Behind, RowStep, TypeParts DEF Saga, ProcessOK
<1>1. PICK r \in TaskRec : r = task[t]
    BY <1>0
<1>2. CASE ClaimPayment(t) /\ status[r.p] = "pending"
    <2>1. /\ r.pc = "claim" /\ Goto(t, "deduct") /\ Claim(r.p, r.k)
          /\ UNCHANGED <<walletVars, serviceVars, used>>
        BY <1>1, <1>2 DEF ClaimPayment, Step, At, customerVars
    <2>2. PICK q \in TaskRec : q = task'[t] /\ q.pc = "deduct" /\ q.p = r.p /\ q.k = r.k
        BY <1>0, <1>1, <2>1, GotoTask DEF TaskPCs
    <2>3. Unused(r.k) /\ r.p \in Payments
        BY <1>0, <1>1, <1>2, <2>1, SagaTask DEF CalmTask, Holds
    <2>4. Unused(r.k)'
        BY <2>1, <2>3, BooksUntouched DEF Unused, Counted
    <2>5. Holds(r.p, r.k)'
        BY <1>0, <2>1, <2>3 DEF Claim, SetStatus, Holds, RowsOK
    <2>6. CalmTask(q)'
        BY <2>2, <2>4, <2>5 DEF CalmTask, HeldPCs
    <2> QED
        BY <2>2, <2>6
<1>3. CASE ~(ClaimPayment(t) /\ status[r.p] = "pending")
    <2>1. FinishApproved(t) => Holds(r.p, r.k)
        BY <1>0, <1>1 DEF FinishApproved, Step, At, CalmTask, HeldPCs
    <2>2. PICK pc \in {"idle", "order"} : Goto(t, pc)
        BY <1>1, <1>3, <2>1 DEF ClaimPayment, Release, GiveBack, FinishApproved, Finishable, Holds
    <2>3. task'[t].pc \in {"idle", "order"} /\ task'[t] \in TaskRec
        BY <1>0, <2>2, GotoTask DEF TaskPCs
    <2>4. PICK q \in TaskRec : q = task'[t]
        BY <2>3
    <2>5. CalmTask(q)'
        BY <2>3, <2>4 DEF CalmTask, HeldPCs
    <2> QED
        BY <2>4, <2>5
<1> QED
    BY <1>2, <1>3

\* An approval starts with the key of the row, which it then holds, or with a
\* key no debit has been booked under.
LEMMA StartMoves ==
    ASSUME Saga, Calm, [Next]_vars, NEW t \in Tasks, NEW p \in Payments, StartApproval(t, p)
    PROVE  /\ CalmTask(task[t])' /\ task'[t].pc = "claim"
           /\ \A u \in Tasks \ {t} : task'[u] = task[u]
<1>0. /\ task \in [Tasks -> TaskRec] /\ used \in [Payments -> UsedRec] /\ ClaimsOK
      /\ claim[p] \in OptAttempts /\ CalmRows /\ CalmBooks
    BY TypeParts DEF Saga, ProcessOK, CustomerOK, RowsOK, Calm
<1>1. UNCHANGED <<walletVars, status, claim>>
    BY DEF StartApproval, paymentVars
<1>2. CASE claim[p] # NoKey
    <2>1. PICK k \in Attempts : k = claim[p]
        BY <1>0, <1>2 DEF OptAttempts
    <2>2. task' = [task EXCEPT ![t] = [pc |-> "claim", p |-> p, k |-> k]]
        BY <1>2, <2>1 DEF StartApproval
    <2>3. PICK q \in TaskRec : q = task'[t] /\ q.pc = "claim" /\ q.p = p /\ q.k = k
        BY <1>0, <2>1, <2>2 DEF TaskRec, TaskPCs, OptAttempts
    <2>4. Holds(p, k)'
        BY <1>0, <1>1, <1>2, <2>1 DEF CalmRows, Holds
    <2>5. CalmTask(q)'
        BY <2>3, <2>4 DEF CalmTask, HeldPCs
    <2> QED
        BY <1>0, <2>2, <2>3, <2>5
<1>3. CASE claim[p] = NoKey
    <2>0. used[p].keys \in Nat /\ used[p] \in UsedRec
        BY <1>0, PaymentAssumption DEF UsedRec
    <2>1. PICK n \in Nat : n = used[p].keys
        BY <2>0
    <2>2. n + 1 \in 1..MaxAttempts /\ used' = [used EXCEPT ![p].keys = n + 1]
        BY <1>3, <2>1, PaymentAssumption DEF StartApproval
    <2>3. PICK k \in Attempts : k = <<p, n + 1>>
        BY <2>2 DEF Attempts
    <2>4. task' = [task EXCEPT ![t] = [pc |-> "claim", p |-> p, k |-> k]]
        BY <1>3, <2>1, <2>3 DEF StartApproval
    <2>5. PICK q \in TaskRec : q = task'[t] /\ q.pc = "claim" /\ q.p = p /\ q.k = k
        BY <1>0, <2>3, <2>4 DEF TaskRec, TaskPCs, OptAttempts
    <2>6. k[1] = p /\ k[2] = n + 1
        BY <2>3
    <2>7. ~Debited(k)
        BY <1>0, <2>1, <2>6 DEF CalmBooks, Counted
    <2>8. used'[p].keys = n + 1
        BY <1>0, <2>0, <2>2 DEF UsedRec
    <2>9. Counted(k)'
        BY <2>6, <2>8 DEF Counted
    <2>10. Unused(k)'
        BY <1>1, <2>7, <2>9, BooksUntouched DEF Unused
    <2>11. status'[p] # "processing"
        BY <1>0, <1>1, <1>3 DEF ClaimsOK
    <2>12. CalmTask(q)'
        BY <2>5, <2>10, <2>11 DEF CalmTask, HeldPCs
    <2> QED
        BY <1>0, <2>4, <2>5, <2>12
<1> QED
    BY <1>2, <1>3

\* A payment without an order is approved in one step.
LEMMA NoOrderMoves ==
    ASSUME Saga, NEW t \in Tasks, NEW p \in Payments, ApproveNoOrder(t, p)
    PROVE  /\ CalmTask(task[t])' /\ task'[t].pc \in {"idle", "report"}
           /\ \A u \in Tasks \ {t} : task'[u] = task[u]
<1>0. task \in [Tasks -> TaskRec]
    BY TypeParts DEF Saga, ProcessOK
<1>1. PICK q \in TaskRec : q.pc \in {"idle", "report"} /\ task' = [task EXCEPT ![t] = q]
    <2>1. Idle \in TaskRec /\ Idle.pc = "idle"
        BY DEF TaskRec, TaskPCs, OptAttempts, Idle
    <2>2. [pc |-> "report", p |-> p, k |-> NoKey] \in TaskRec
        BY DEF TaskRec, TaskPCs, OptAttempts
    <2> QED
        BY <2>1, <2>2 DEF ApproveNoOrder
<1>2. task'[t] = q /\ \A u \in Tasks \ {t} : task'[u] = task[u]
    BY <1>0, <1>1
<1>3. CalmTask(q)'
    BY <1>1 DEF CalmTask, HeldPCs
<1> QED
    BY <1>1, <1>2, <1>3

\* How the tasks move in a calm step: one of them, or all to rest.
LEMMA OneMoves ==
    ASSUME Saga, Calm, Quietly, [Next]_vars
    PROVE  \/ task' = task
           \/ task' = [t \in Tasks |-> Idle]
           \/ \E t \in Tasks : CalmTask(task[t])' /\ \A u \in Tasks \ {t} : task'[u] = task[u]
<1>0. task \in [Tasks -> TaskRec]
    BY TypeParts DEF Saga, ProcessOK
<1>1. ASSUME NEW t \in Tasks, TaskStep(t)
      PROVE  CalmTask(task[t])' /\ \A u \in Tasks \ {t} : task'[u] = task[u]
    <2>1. CalmTask(task[t])'
        BY <1>1, QuietMoves, WalletMoves, ServiceMoves, RowMoves, NoneRaises DEF TaskStep
    <2>2. \E pc \in TaskPCs : Goto(t, pc)
        BY <1>1, NoneRaises
        DEF TaskStep, ClaimPayment, DeductWallet, DeductRefused, Release, Notify, StartDelivery,
            PanelDone, PanelFails, StoreService, StoreRenewal, StoreRefused, Activate, RefundWallet,
            GiveBack, FinishApproved, Recheck, ApproveOrder, TaskPCs
    <2> QED
        BY <1>0, <2>1, <2>2, GotoTask
<1>2. ASSUME MarkProcessed
      PROVE  CalmTask(task[Worker])' /\ \A u \in Tasks \ {Worker} : task'[u] = task[u]
    <2>1. Worker \in Tasks /\ "idle" \in TaskPCs /\ Goto(Worker, "idle")
        BY <1>2 DEF Tasks, TaskPCs, MarkProcessed
    <2>2. PICK q \in TaskRec : q = task'[Worker] /\ q.pc = "idle"
        BY <1>0, <2>1, GotoTask
    <2>3. CalmTask(q)'
        BY <2>2 DEF CalmTask, HeldPCs
    <2> QED
        BY <1>0, <2>1, <2>2, <2>3, GotoTask
<1>3. CASE RecoverDone
    <2>1. \A t \in Tasks : task[t].pc # "recover"
        BY DEF Calm, CalmTasks, CalmTask
    <2> QED
        BY <1>0, <1>3, <2>1 DEF RecoverDone, At
<1>4. CASE Crash
    BY <1>4 DEF Crash
<1> QED
    BY <1>1, <1>2, <1>3, <1>4, StartMoves, NoOrderMoves, TaskWriters DEF Tasks

LEMMA TasksStayCalm ==
    ASSUME Saga, Calm, Quietly, [Next]_vars
    PROVE  CalmTasks'
<1>0. task \in [Tasks -> TaskRec]
    BY TypeParts DEF Saga, ProcessOK
<1>1. ASSUME NEW u \in Tasks, task'[u] = task[u]
      PROVE  CalmTask(task[u])'
    <2>1. PICK r \in TaskRec : r = task[u] /\ r = task'[u]
        BY <1>0, <1>1
    <2>2. CalmTask(r)
        BY <2>1, Behind
    <2>3. CalmTask(r)'
        BY <2>1, <2>2, OthersSpared, SparedTaskStays
    <2> QED
        BY <2>1, <2>3
<1>2. CASE task' = [t \in Tasks |-> Idle]
    <2>1. Idle \in TaskRec /\ Idle.pc = "idle"
        BY DEF Idle, TaskRec, TaskPCs, OptAttempts
    <2>2. PICK r \in TaskRec : r = Idle /\ r.pc = "idle"
        BY <2>1
    <2>3. CalmTask(r)'
        BY <2>2 DEF CalmTask, HeldPCs
    <2> QED
        BY <1>2, <2>2, <2>3 DEF CalmTasks
<1> QED
    BY <1>1, <1>2, OneMoves DEF CalmTasks
-----------------------------------------------------------------------------
(* Each payment to one task.                                               *)

\* A task comes to hold a payment when it claims it, and keeps it or lets go.
LEMMA Holding ==
    ASSUME Saga, Calm, Quietly, [Next]_vars, NEW t \in Tasks, task'[t].pc \in HeldPCs
    PROVE  /\ task'[t].p = task[t].p
           /\ task[t].pc \in HeldPCs \/ (ClaimPayment(t) /\ status[task[t].p] = "pending")
<1>0. task \in [Tasks -> TaskRec] /\ CalmTask(task[t])
    BY Behind, TypeParts DEF Saga, ProcessOK
<1>1. CASE task'[t] = task[t]
    BY <1>1
<1>2. ASSUME TaskStep(t)
      PROVE  /\ task'[t].p = task[t].p
             /\ task[t].pc \in HeldPCs \/ (ClaimPayment(t) /\ status[task[t].p] = "pending")
    <2>1. PICK pc \in TaskPCs :
            /\ Goto(t, pc)
            /\ pc \in HeldPCs =>
                   task[t].pc \in HeldPCs \/ (ClaimPayment(t) /\ status[task[t].p] = "pending")
        BY <1>2, NoneRaises
        DEF TaskStep, ClaimPayment, DeductWallet, DeductRefused, Release, Notify, StartDelivery,
            PanelDone, PanelFails, StoreService, StoreRenewal, StoreRefused, Activate, RefundWallet,
            GiveBack, FinishApproved, Recheck, ApproveOrder, TaskPCs, HeldPCs, Step, At
    <2>2. task'[t].pc = pc /\ (pc # "idle" => task'[t].p = task[t].p)
        BY <1>0, <2>1, GotoTask
    <2> QED
        BY <2>1, <2>2 DEF HeldPCs
<1>3. ASSUME NEW u \in Tasks, TaskStep(u), u # t
      PROVE  task'[t] = task[t]
    <2>1. \E pc \in TaskPCs : Goto(u, pc)
        BY <1>3, NoneRaises
        DEF TaskStep, ClaimPayment, DeductWallet, DeductRefused, Release, Notify, StartDelivery,
            PanelDone, PanelFails, StoreService, StoreRenewal, StoreRefused, Activate, RefundWallet,
            GiveBack, FinishApproved, Recheck, ApproveOrder, TaskPCs
    <2> QED
        BY <1>0, <1>3, <2>1, GotoTask
<1>4. ASSUME NEW u \in Tasks, NEW p \in Payments, StartApproval(u, p) \/ ApproveNoOrder(u, p)
      PROVE  task'[t] = task[t]
    BY <1>4, StartMoves, NoOrderMoves DEF HeldPCs
<1>5. CASE MarkProcessed
    <2>1. Worker \in Tasks /\ "idle" \in TaskPCs /\ Goto(Worker, "idle")
        BY <1>5 DEF Tasks, TaskPCs, MarkProcessed
    <2>2. task'[Worker].pc = "idle" /\ \A u \in Tasks \ {Worker} : task'[u] = task[u]
        BY <1>0, <2>1, GotoTask
    <2> QED
        BY <1>1, <2>2 DEF HeldPCs
<1>6. CASE RecoverDone
    <2>1. task[t].pc # "recover"
        BY <1>0 DEF CalmTask
    <2> QED
        BY <1>1, <1>6, <2>1 DEF RecoverDone, At
<1>7. CASE Crash
    BY <1>7 DEF Crash, Idle, HeldPCs
<1>8. CASE task' = task
    BY <1>1, <1>8
<1> QED
    BY <1>1, <1>2, <1>3, <1>4, <1>5, <1>6, <1>7, <1>8, TaskWriters

LEMMA StaysApart ==
    ASSUME Saga, Calm, Quietly, [Next]_vars
    PROVE  Apart'
<1>1. SUFFICES ASSUME NEW t \in Tasks, NEW u \in Tasks, task'[t].pc \in HeldPCs,
                      task'[u].pc \in HeldPCs, task'[t].p = task'[u].p, t # u
               PROVE  FALSE
    BY DEF Apart
<1>2. task[t].p = task[u].p
    BY <1>1, Holding
<1>3. ASSUME NEW x \in Tasks, NEW y \in Tasks, x # y, task[x].p = task[y].p, ClaimPayment(x),
             status[task[x].p] = "pending", task[y].pc \in HeldPCs
      PROVE  FALSE
    BY <1>3, Behind DEF CalmTask, Holds
<1>4. ASSUME ClaimPayment(t), ClaimPayment(u)
      PROVE  FALSE
    BY <1>1, <1>4 DEF ClaimPayment, Step, Runs, At, Waiting
<1>5. ~(task[t].pc \in HeldPCs /\ task[u].pc \in HeldPCs)
    BY <1>1, <1>2 DEF Calm, Apart
<1> QED
    BY <1>1, <1>2, <1>3, <1>4, <1>5, Holding
-----------------------------------------------------------------------------
(* The books.                                                              *)

\* The books of a step that changes no money, no row and no service.
LEMMA BooksStand ==
    ASSUME Saga, CalmBooks, [Next]_vars, UNCHANGED <<status, claim, serviceVars>>,
           \A l \in Attempts : (Debited(l)' <=> Debited(l)) /\ (Refunded(l)' <=> Refunded(l))
    PROVE  CalmBooks'
<1>1. \A l \in Attempts : Counted(l) => Counted(l)'
    BY CountsGrow
<1>2. panel \subseteq Attempts
    BY TypeParts DEF Saga, ServicesOK
<1> QED
    BY <1>1, <1>2 DEF CalmBooks, Owing, Holds, InBooks, serviceVars

\* The debit of the attempt that holds the payment is the only one it owes.
LEMMA DeductKeepsBooks ==
    ASSUME Saga, Calm, [Next]_vars, NEW t \in Tasks, DeductWallet(t)
    PROVE  CalmBooks'
<1>0. UNCHANGED <<status, claim, serviceVars>> /\ CalmBooks /\ panel \subseteq Attempts
    BY WalletStep, TypeParts DEF Calm, Saga, ServicesOK
<1>1. task[t].pc = "deduct"
    BY DEF DeductWallet, Step, At
<1>2. PICK k \in Attempts : k = task[t].k /\ k[1] = task[t].p
    BY <1>1, SagaTask DEF HeldPCs
<1>3. Holds(k[1], k) /\ Unused(k)
    BY <1>1, <1>2, Behind DEF CalmTask, HeldPCs
<1>4. \A l \in Attempts : /\ Debited(l)' <=> Debited(l) \/ l = k
                          /\ Refunded(l)' <=> Refunded(l)
    BY <1>2, DeductBooks DEF Calm
<1>5. \A l \in Attempts : Counted(l) => Counted(l)'
    BY CountsGrow
<1>6. \A l \in Attempts : Owing(l)' => Owing(l) \/ l = k
    BY <1>4 DEF Owing
<1>7. \A l \in Attempts : (Owing(l) /\ l[1] = k[1]) => l = k
    BY <1>0, <1>3 DEF CalmBooks, Holds
<1>8. /\ \A l \in panel' \ lost' : Owing(l)'
      /\ \A l \in Attempts : renewed'[l] <= 1 /\ (InBooks(l)' => l \in panel' \ lost')
    BY <1>0, <1>4 DEF CalmBooks, Owing, InBooks, serviceVars
<1>9. \A l \in Attempts : Owing(l)' => Holds(l[1], l)' \/ status'[l[1]] = "approved"
    BY <1>0, <1>3, <1>6 DEF CalmBooks, Holds
<1>10. \A l, m \in Attempts : (Owing(l)' /\ Owing(m)' /\ l[1] = m[1]) => l = m
    BY <1>0, <1>6, <1>7 DEF CalmBooks
<1>11. \A l \in Attempts : Debited(l)' => Counted(l)'
    BY <1>0, <1>3, <1>4, <1>5 DEF CalmBooks, Unused
<1> QED
    BY <1>8, <1>9, <1>10, <1>11 DEF CalmBooks

\* What is refunded, the panel is not known to have carried out.
LEMMA RefundKeepsBooks ==
    ASSUME Saga, Calm, [Next]_vars, NEW t \in Tasks, RefundWallet(t)
    PROVE  CalmBooks'
<1>0. UNCHANGED <<status, claim, serviceVars>> /\ CalmBooks /\ panel \subseteq Attempts
    BY WalletStep, TypeParts DEF Calm, Saga, ServicesOK
<1>1. task[t].pc = "refund"
    BY DEF RefundWallet, Step, At
<1>2. PICK k \in Attempts : k = task[t].k
    BY <1>1, SagaTask DEF HeldPCs
<1>3. k \notin panel \ lost
    BY <1>1, <1>2, Behind DEF CalmTask
<1>4. \A l \in Attempts : /\ Debited(l)' <=> Debited(l)
                          /\ Refunded(l)' <=> Refunded(l) \/ l = k
    BY <1>2, RefundBooks
<1>5. \A l \in Attempts : Counted(l) => Counted(l)'
    BY CountsGrow
<1>6. \A l \in Attempts : Owing(l)' <=> Owing(l) /\ l # k
    BY <1>4 DEF Owing
<1> QED
    BY <1>0, <1>3, <1>4, <1>5, <1>6 DEF CalmBooks, Holds, InBooks, serviceVars

\* The panel is asked once for an attempt that is paid, and the renewal is
\* written once.
LEMMA ServiceKeepsBooks ==
    ASSUME Saga, Calm, [Next]_vars, NEW t \in Tasks,
           PanelDone(t) \/ PanelFails(t) \/ StoreService(t) \/ StoreRenewal(t)
    PROVE  CalmBooks'
<1>0. UNCHANGED <<walletVars, status, claim>> /\ CalmBooks /\ ServicesOK
    BY ServiceStep, TypeParts DEF Calm, Saga
<1>1. task[t].pc \in {"panel", "store"}
    BY DEF PanelDone, PanelFails, StoreService, StoreRenewal, Step, At
<1>2. PICK k \in Attempts : k = task[t].k
    BY <1>1, SagaTask DEF HeldPCs
<1>3. \A l \in Attempts : /\ Owing(l)' <=> Owing(l)
                          /\ Debited(l)' <=> Debited(l)
                          /\ Counted(l) => Counted(l)'
    BY <1>0, BooksUntouched, CountsGrow DEF Owing
<1>4. CASE PanelDone(t)
    <2>1. task[t].pc = "panel" /\ panel' = panel \cup {k} /\ UNCHANGED <<created, lost, renewed>>
        BY <1>2, <1>4 DEF PanelDone, Step, At
    <2>2. Owing(k)
        BY <1>2, <2>1, Behind DEF CalmTask, TaskOK, PaidPCs, Owing
    <2>3. k \notin lost
        BY <1>0, <1>2, <2>1, Behind DEF CalmTask, ServicesOK
    <2> QED
        BY <1>0, <1>3, <2>1, <2>2, <2>3 DEF CalmBooks, Holds, InBooks, ServicesOK
<1>5. CASE PanelFails(t)
    <2>1. /\ task[t].pc = "panel" /\ UNCHANGED <<created, renewed>>
          /\ \/ UNCHANGED <<panel, lost>>
             \/ panel' = panel \cup {k} /\ lost' = lost \cup {k}
        BY <1>2, <1>5 DEF PanelFails, Step, At
    <2>2. k \notin panel
        BY <1>2, <2>1, Behind DEF CalmTask
    <2>3. panel' \ lost' = panel \ lost
        BY <1>0, <2>1, <2>2 DEF ServicesOK
    <2> QED
        BY <1>0, <1>3, <2>1, <2>3 DEF CalmBooks, Holds, InBooks, ServicesOK
<1>6. CASE StoreService(t) \/ StoreRenewal(t)
    <2>1. panel' = panel /\ lost' = lost /\ task[t].pc = "store"
        BY <1>6 DEF StoreService, StoreRenewal, Step, At
    <2>2. renewed[k] = 0 /\ k \in panel \ lost
        BY <1>2, <2>1, Behind DEF CalmTask, TaskOK
    <2>3. renewed'[k] \in {0, 1} /\ \A l \in Attempts \ {k} : renewed'[l] = renewed[l]
        BY <1>0, <1>2, <1>6, <2>2 DEF StoreService, StoreRenewal, ServicesOK
    <2>4. \A l \in created' : l \in created \/ l = k
        BY <1>2, <1>6 DEF StoreService, StoreRenewal
    <2>5. \A l \in Attempts : renewed'[l] <= 1 /\ (InBooks(l)' => l \in panel \ lost)
        BY <1>0, <2>2, <2>3, <2>4 DEF CalmBooks, InBooks
    <2> QED
        BY <1>0, <1>3, <2>1, <2>5 DEF CalmBooks, Holds, ServicesOK
<1> QED
    BY <1>4, <1>5, <1>6

\* How a row changes: it is claimed, undone where nothing is owed, approved,
\* or decided by a button or a receipt before anyone has claimed it.
RowChange(p) ==
    /\ \A q \in Payments \ {p} : status'[q] = status[q] /\ claim'[q] = claim[q]
    /\ \/ status'[p] = status[p] /\ claim'[p] = claim[p]
       \/ status[p] = "pending" /\ status'[p] = "processing" /\ claim'[p] # NoKey
       \/ status[p] = "processing" /\ status'[p] = "pending" /\ claim'[p] = NoKey /\ ~Owing(claim[p])
       \/ status[p] = "processing" /\ status'[p] = "approved" /\ claim'[p] = NoKey
       \/ /\ status[p] \notin {"processing", "approved"} /\ status'[p] # "processing"
          /\ claim'[p] = claim[p]

LEMMA TaskRowChange ==
    ASSUME Saga, Calm, NEW t \in Tasks,
           ClaimPayment(t) \/ Release(t) \/ GiveBack(t) \/ FinishApproved(t)
    PROVE  \E p \in Payments : RowChange(p)
<1>0. status \in [Payments -> Statuses] /\ claim \in [Payments -> OptAttempts]
    BY TypeParts DEF Saga, RowsOK
<1>1. task[t].pc \in {"claim", "release", "giveBack", "finish", "deliver"}
    BY DEF ClaimPayment, Release, GiveBack, FinishApproved, Step, At
<1>2. task[t].pc # "finish"
    BY Behind DEF CalmTask
<1>3. PICK p \in Payments, k \in Attempts : p = task[t].p /\ k = task[t].k /\ k # NoKey
    BY <1>1, <1>2, SagaTask DEF HeldPCs
<1>4. CASE ClaimPayment(t)
    BY <1>0, <1>3, <1>4 DEF ClaimPayment, Claim, SetStatus, RowChange
<1>5. CASE Release(t) \/ GiveBack(t)
    <2>1. Finish(p, k, "pending") /\ task[t].pc \in {"release", "giveBack"}
        BY <1>3, <1>5 DEF Release, GiveBack, Step, At
    <2>2. Holds(p, k) /\ ~Owing(k)
        BY <1>3, <2>1, Behind DEF CalmTask, HeldPCs, Unused, Owing
    <2> QED
        BY <1>0, <2>1, <2>2 DEF Finish, Finishable, SetStatus, Holds, RowChange
<1>6. CASE FinishApproved(t)
    <2>1. Finish(p, k, "approved")
        BY <1>3, <1>6 DEF FinishApproved
    <2> QED
        BY <1>0, <2>1 DEF Finish, Finishable, SetStatus, RowChange
<1> QED
    BY <1>4, <1>5, <1>6

LEMMA WriteRowChange ==
    ASSUME Saga, Calm, Quietly, NEW p \in Payments, WritesRow(p)
    PROVE  RowChange(p)
<1>0. status \in [Payments -> Statuses] /\ claim \in [Payments -> OptAttempts]
    BY TypeParts DEF Saga, RowsOK
<1>1. CASE RecoverRow(p)
    BY <1>0, <1>1 DEF RecoverRow, Finish, Finishable, SetStatus, Owing, RowChange
<1>2. CASE RewriteReceipt(p)
    BY <1>2 DEF RewriteReceipt, Calm, CalmRows, NoReceiptOpen
<1>3. CASE (\E t \in Tasks : ApproveNoOrder(t, p)) \/ Reject(p) \/ Reopen(p) \/ SendReceipt(p)
    BY <1>0, <1>3
    DEF ApproveNoOrder, Reject, Reopen, SendReceipt, SetStatus, Quietly, agentPress, customerStep,
        RowChange
<1> QED
    BY <1>1, <1>2, <1>3 DEF WritesRow

\* None of these changes lets go of a payment that owes anything.
LEMMA RowKeepsBooks ==
    ASSUME Saga, CalmBooks, [Next]_vars, UNCHANGED <<walletVars, serviceVars>>,
           NEW p \in Payments, RowChange(p)
    PROVE  CalmBooks'
<1>1. panel \subseteq Attempts /\ \A l \in Attempts : l[1] \in Payments
    BY TypeParts DEF Saga, ServicesOK, Attempts
<1>2. \A l \in Attempts : /\ Owing(l)' <=> Owing(l)
                          /\ Debited(l)' <=> Debited(l)
                          /\ Counted(l) => Counted(l)'
    BY BooksUntouched, CountsGrow DEF Owing
<1>3. ASSUME NEW l \in Attempts, Owing(l)
      PROVE  Holds(l[1], l)' \/ status'[l[1]] = "approved"
    <2>1. Holds(l[1], l) \/ status[l[1]] = "approved"
        BY <1>3 DEF CalmBooks
    <2>2. CASE l[1] # p
        BY <1>1, <2>1, <2>2 DEF RowChange, Holds
    <2>3. CASE l[1] = p
        BY <1>3, <2>1, <2>3 DEF RowChange, Holds
    <2> QED
        BY <2>2, <2>3
<1> QED
    BY <1>1, <1>2, <1>3 DEF CalmBooks, InBooks, serviceVars

LEMMA BooksStayCalm ==
    ASSUME Saga, Calm, Quietly, [Next]_vars
    PROVE  CalmBooks'
<1>0. CalmBooks
    BY DEF Calm
<1>1. CASE UNCHANGED <<walletVars, status, claim, serviceVars>>
    BY <1>0, <1>1, BooksUntouched, BooksStand
<1>2. CASE SpendElsewhere /\ UNCHANGED <<status, claim, serviceVars>>
    BY <1>0, <1>2, SpendBooks, BooksStand
<1>3. ASSUME NEW t \in Tasks, ActsOn(t)
      PROVE  CalmBooks'
    BY <1>0, <1>3, DeductKeepsBooks, RefundKeepsBooks, ServiceKeepsBooks, TaskRowChange,
       RowKeepsBooks DEF ActsOn
<1>4. ASSUME NEW p \in Payments, WritesRow(p)
      PROVE  CalmBooks'
    <2>1. UNCHANGED <<walletVars, serviceVars>>
        BY <1>4 DEF WritesRow
    <2> QED
        BY <1>0, <1>4, <2>1, WriteRowChange, RowKeepsBooks
<1> QED
    BY <1>1, <1>2, <1>3, <1>4, BookWriters

LEMMA RowsStayCalm ==
    ASSUME Saga, Calm, Quietly, [Next]_vars
    PROVE  CalmRows'
<1>0. CalmRows /\ ClaimsOK
    BY DEF Calm, Saga
<1>1. (status' = status /\ claim' = claim) \/ \E p \in Payments : RowChange(p)
    BY BookWriters, TaskRowChange, WriteRowChange DEF ActsOn
<1>2. \A p \in Payments : claim'[p] # NoKey => status'[p] = "processing"
    BY <1>0, <1>1 DEF CalmRows, RowChange
<1>3. NoReceiptOpen'
    BY <1>0, ReceiptsStayClosed DEF CalmRows, Quietly
<1>4. bot' # "up" => \A t \in Tasks : task'[t] = Idle
    <2>1. CASE bot' = bot /\ bot # "up"
        <3>1. CASE RecoverDone
            BY <2>1, <3>1 DEF RecoverDone
        <3>2. CASE task' = task \/ Crash
            BY <1>0, <2>1, <3>2 DEF CalmRows, Crash
        <3> QED
            BY <2>1, <3>1, <3>2, DownMoves
    <2> QED
        BY <1>0, <2>1, BotWriters DEF CalmRows
<1> QED
    BY <1>2, <1>3, <1>4 DEF CalmRows

LEMMA CalmStarts ==
    ASSUME Init
    PROVE  Calm
<1>1. \A t \in Tasks : task[t].pc = "idle"
    BY DEF Init, Idle
<1>2. \A k \in Attempts : ~Debited(k) /\ ~Refunded(k)
    <2>1. \A k \in Attempts : DebitKey(k) # NoKey /\ RefundKey(k) # NoKey
        BY AttemptKeys, WalletAssumption
    <2>2. \A i \in DOMAIN ledger : ledger[i].key = NoKey
        BY DEF Init, Entry
    <2> QED
        BY <2>1, <2>2 DEF Debited, Refunded, HasTx
<1>3. CalmTasks /\ Apart
    BY <1>1 DEF CalmTasks, CalmTask, Apart, HeldPCs
<1>4. CalmBooks
    BY <1>2 DEF Init, CalmBooks, Owing, InBooks
<1>5. CalmRows
    BY DEF Init, CalmRows, NoReceiptOpen
<1> QED
    BY <1>3, <1>4, <1>5 DEF Calm

LEMMA CalmContinues ==
    ASSUME Saga, Calm, Quietly, [Next]_vars
    PROVE  Calm'
BY TasksStayCalm, StaysApart, BooksStayCalm, RowsStayCalm DEF Calm

\* Where the database does not fail, a claimed payment is not rejected and no
\* receipt is late, a payment has one attempt that is paid, and the panel is
\* known to have carried out no other.
THEOREM PaymentCalm ==
    ASSUME ~Faults, ~RejectClaimed, ~LateReceipts
    PROVE  Spec => [](Saga /\ Calm)
<1>1. Init => Calm
    BY CalmStarts
<1>2. Saga /\ Calm /\ [Next]_vars => Calm'
    BY CalmContinues DEF Quietly
<1> QED
    BY <1>1, <1>2, SagaHolds, PTL DEF Spec

\* What is in the books, or was answered by the panel, is never refunded,
\* whatever crashes and whoever approves or recovers; only an attempt whose
\* answer was lost is, and it is in no book.
THEOREM PaymentNoFreeService ==
    ASSUME ~Faults, ~RejectClaimed, ~LateReceipts
    PROVE  Spec => []NoFreeService
<1>1. Calm => NoFreeService
    BY DEF Calm, CalmBooks, NoFreeService, InBooks, Owing
<1> QED
    BY <1>1, PaymentCalm, PTL

\* However often a payment is approved, refused, retried and recovered, by
\* button and by queue, it is paid once and, but for attempts whose answer
\* was lost, delivered once.
THEOREM PaymentDeliveredOnce ==
    ASSUME ~Faults, ~RejectClaimed, ~LateReceipts
    PROVE  Spec => []DeliveredOnce
<1>1. Saga /\ Calm => DeliveredOnce
    BY DEF Calm, CalmBooks, DeliveredOnce, AttemptsOf
<1> QED
    BY <1>1, PaymentCalm, PTL

\* A payment that is pending or rejected owes nothing, is in no book and has
\* delivered nothing that the bot knows of.
THEOREM PaymentUndecidedIsClear ==
    ASSUME ~Faults, ~RejectClaimed, ~LateReceipts
    PROVE  Spec => []UndecidedIsClear
<1>1. Saga /\ Calm => UndecidedIsClear
    BY DEF Calm, CalmBooks, UndecidedIsClear, AttemptsOf, Holds, InBooks
<1> QED
    BY <1>1, PaymentCalm, PTL
=============================================================================
