------------------------- MODULE AgentPurchaseProofs -------------------------
(***************************************************************************)
(* Purchases and renewals of a representative for any number of operation  *)
(* keys, renewals, deletions, changes of price, crashes and errors.        *)
(***************************************************************************)
EXTENDS AgentPurchase, AgentWalletProofs

TaskRec == [pc : PCs, job : Ops \cup Renewals \cup {None}, cost : Prices \cup {0},
            old : States, on : BOOLEAN, want : States]

CreatePCs == {"panel", "store", "rollback", "giveBack"}
RenewPCs == {"debit", "row", "look", "patch", "restore", "refund", "enable"}

-----------------------------------------------------------------------------
(***************************************************************************)
(* The inductive invariant.  A purchase under way is that of the open      *)
(* wizard, has been debited, and neither refunded nor stored; a key that   *)
(* was stored or refunded is closed for good; and what an open wizard has  *)
(* left on the panel is accounted for whenever a refund may come next.     *)
(***************************************************************************)
TaskOK(t) ==
    /\ task[t].pc \in RenewPCs => task[t].job \in Renewals
    /\ task[t].pc \in CreatePCs =>
           /\ t = Handler /\ task[t].job \in Ops /\ task[t].job = wizard
           /\ task[t].cost \in Prices
           /\ Debited(wizard) /\ ~Refunded(wizard) /\ wizard \notin served

TasksOK == \A t \in Actors : TaskOK(t)

\* A key that has bought its service, or lost it, is not used again.
Closed ==
    /\ users \subseteq opened
    /\ \A o \in Ops : Debited(o) \/ Refunded(o) \/ o \in served => o \in opened
    /\ \A o \in Ops : Refunded(o) \/ o \in served => wizard # o

Blamed(o) == upset[o] \cap {"lost", "rollback"} # {}

Clean == wizard \in users /\ task[Handler].pc \notin {"store", "rollback"} => Blamed(wizard)

\* HeldIsResumable, of a purchase under way as well.
Held ==
    \A o \in Ops : Debited(o) /\ ~Refunded(o) /\ o \notin served
        => wizard = o \/ upset[o] \cap {"crash", "left", "unlisted"} # {}

Purchase == TypeOK /\ TasksOK /\ Closed /\ Clean /\ Held /\ PurchaseSettled

-----------------------------------------------------------------------------
(* The helpers the actions are made of.                                    *)

LEMMA KeysOfOps ==
    /\ \A o \in Ops : DebitKey(o) \in Keys /\ RefundKey(o) \in Keys
    /\ \A o, p \in Ops : DebitKey(o) # RefundKey(p)
    /\ \A o, p \in Ops : DebitKey(o) = DebitKey(p) => o = p
    /\ \A o, p \in Ops : RefundKey(o) = RefundKey(p) => o = p
BY PurchaseAssumption DEF DebitKey, RefundKey

LEMMA PricesArePositive == Prices \subseteq Nat \ {0}
BY PurchaseAssumption

LEMMA IdleIsTask == Idle \in TaskRec /\ Idle.pc = "idle"
BY DEF Idle, TaskRec, PCs, States

LEMMA GotoTask ==
    ASSUME task \in [Actors -> TaskRec], NEW t \in Actors, NEW pc \in PCs, Goto(t, pc)
    PROVE  /\ task' \in [Actors -> TaskRec]
           /\ task'[t].pc = pc /\ task'[t].job = task[t].job /\ task'[t].cost = task[t].cost
           /\ \A u \in Actors \ {t} : task'[u] = task[u]
<1>1. task[t] \in TaskRec
    OBVIOUS
<1>2. [task[t] EXCEPT !.pc = pc] \in TaskRec
    BY <1>1 DEF TaskRec
<1>3. task' = [task EXCEPT ![t] = [task[t] EXCEPT !.pc = pc]]
    BY <1>1 DEF Goto
<1> QED
    BY <1>1, <1>2, <1>3 DEF TaskRec

LEMMA ReturnTask ==
    ASSUME task \in [Actors -> TaskRec], NEW t \in Actors, Return(t)
    PROVE  /\ task' \in [Actors -> TaskRec]
           /\ task'[t] = Idle
           /\ \A u \in Actors \ {t} : task'[u] = task[u]
BY IdleIsTask DEF Return

\* Somebody is blamed: what was there is kept.
LEMMA UpsetGrows ==
    ASSUME upset \in [Ops \cup Renewals -> SUBSET Causes], NEW j, NEW cause \in Causes,
           Upset(j, cause)
    PROVE  /\ upset' \in [Ops \cup Renewals -> SUBSET Causes]
           /\ \A x \in Ops \cup Renewals : upset[x] \subseteq upset'[x]
           /\ j \in Ops \cup Renewals => cause \in upset'[j]
BY DEF Upset

-----------------------------------------------------------------------------
(* Who writes what.                                                        *)

USE DEF Next, CreateStep, ServiceStep, OpenWizard, CreateDebit, CreateUnlisted, CreatePanel,
        CreatePanelFails,
        CreateStore, CreateStoreRaises, CreateRollback, CreateRefund, CreateRefundRaises, RenewStart,
        RenewDebit, RenewRow, RenewLook, RenewUnlisted, RenewPatch, RenewPatchFails, RenewRestore,
        RenewRefund,
        RenewEnable, RenewRaises, RenewTimeout, DeleteStart, DeletePanel, DeletePanelFails,
        DeleteRow, Crash, Reprice, RemoveServer, Applies, Fault, vars, createVars, serviceVars,
        renewVars,
        counters, serviceOnly, renewOnly, deleteOnly

\* Money moves in four places.
LEMMA WalletWriters ==
    ASSUME [Next]_vars
    PROVE  \/ UNCHANGED walletVars
           \/ CreateDebit \/ CreateRefund
           \/ \E t \in Actors : RenewDebit(t) \/ RenewRefund(t)
OBVIOUS

\* The wizard and what hangs on its key.
LEMMA WizardWriters ==
    ASSUME [Next]_vars
    PROVE  /\ \/ UNCHANGED wizard
              \/ CreateStore \/ CreateRefund \/ CreateUnlisted
              \/ \E o \in Ops : OpenWizard(o)
              \/ \E t \in Actors : Crash(t)
           /\ UNCHANGED served \/ CreateStore
           /\ UNCHANGED opened \/ \E o \in Ops : OpenWizard(o)
           /\ UNCHANGED users \/ CreatePanel \/ CreatePanelFails \/ CreateRollback
OBVIOUS

\* The renewed service, in the books and on the panel.
LEMMA RowWriters ==
    ASSUME [Next]_vars
    PROVE  /\ \/ row' = row \/ row' = Gone
              \/ \E t \in Actors : row' = task[t].old \/ (At(t, "row") /\ row' = Job(t))
           /\ panel' = panel \/ panel' = Gone \/ \E t \in Actors : panel' = task[t].want
           /\ \/ applied' = applied
              \/ \E t \in Actors : applied' = applied \cup {task[t].want}
BY DEF At, Actors

LEMMA ActiveWriters ==
    ASSUME [Next]_vars
    PROVE  /\ \/ active' \in {active, TRUE, FALSE} \/ active' = (row # Gone)
              \/ \E t \in Actors : active' = task[t].on
           /\ \/ enabled' = enabled \/ enabled' = TRUE \/ enabled' = FALSE
              \/ enabled' = (panel # Gone)
BY Zenon DEF At, Actors

\* A renewal is paid for, and its money goes back, where it says so.
LEMMA RenewWriters ==
    ASSUME [Next]_vars
    PROVE  /\ paid' = paid \/ \E t \in Actors : At(t, "debit") /\ paid' = paid \cup {Job(t)}
           /\ back' = back \/ \E t \in Actors : At(t, "refund") /\ back' = back \cup {Job(t)}
BY DEF At, Actors

\* The counts behind the bounds, and the price.
LEMMA CountWriters ==
    ASSUME [Next]_vars
    PROVE  /\ renewed' = renewed \/ (renewed < MaxRenewals /\ renewed' = renewed + 1)
           /\ deletions' = deletions \/ (deletions < MaxDeletions /\ deletions' = deletions + 1)
           /\ reprices' = reprices \/ (reprices < MaxReprices /\ reprices' = reprices + 1)
           /\ faults' = faults \/ (faults < MaxFaults /\ faults' = faults + 1)
           /\ price' = price \/ price' \in Prices
OBVIOUS

\* The server is removed for good.
LEMMA ListedWriters ==
    ASSUME [Next]_vars
    PROVE  listed' = listed \/ listed' = FALSE
OBVIOUS

\* Nobody takes back what has disturbed a purchase or a renewal.
LEMMA UpsetWriters ==
    ASSUME [Next]_vars
    PROVE  \/ upset' = upset
           \/ \E j : \E cause \in Causes : Upset(j, cause)
           \/ \E t \in Actors : \E j : Meet(t, j)
           \/ \E t \in Actors : Crash(t)
BY DEF Causes

\* Who moves a task.
LEMMA TaskWriters ==
    ASSUME [Next]_vars
    PROVE  \/ task' = task
           \/ CreateStep
           \/ \E t \in Actors : ServiceStep(t) \/ Crash(t)
           \/ RenewTimeout
OBVIOUS
HIDE DEF Next, CreateStep, ServiceStep, OpenWizard, CreateDebit, CreateUnlisted, CreatePanel,
         CreatePanelFails,
         CreateStore, CreateStoreRaises, CreateRollback, CreateRefund, CreateRefundRaises, RenewStart,
         RenewDebit, RenewRow, RenewLook, RenewUnlisted, RenewPatch, RenewPatchFails, RenewRestore,
         RenewRefund,
         RenewEnable, RenewRaises, RenewTimeout, DeleteStart, DeletePanel, DeletePanelFails,
         DeleteRow, Crash, Reprice, RemoveServer, Applies, Fault, vars, createVars, serviceVars,
         renewVars,
         counters, serviceOnly, renewOnly, deleteOnly

-----------------------------------------------------------------------------
(* The wallet.                                                             *)

LEMMA EntriesAreTx ==
    ASSUME NEW v \in Prices
    PROVE  /\ \A o \in Ops :
                  /\ Debit(o, v) \in Tx /\ Debit(o, v).amount \in Nat \ {0}
                  /\ Debit(o, v).key = DebitKey(o)
                  /\ Refund(o, v) \in Tx /\ Refund(o, v).amount \in Nat \ {0}
                  /\ Refund(o, v).key = RefundKey(o) /\ Refund(o, v).type = "refund"
           /\ \A type \in TxTypes : Entry(Agent, v, type, NoKey) \in Tx
BY KeysOfOps, PurchaseAssumption DEF Debit, Refund, Entry, Tx, TxTypes

\* A keyed call that is not refused leaves its key in the ledger.
LEMMA DebitOk ==
    ASSUME TypeOK, NEW o \in Ops, NEW v \in Prices, OnceOk(Debit(o, v))
    PROVE  Debited(o)'
<1> DEFINE entry == Debit(o, v)
<1>1. entry \in Tx /\ entry.amount # 0 /\ entry.key = DebitKey(o) /\ OnceOk(entry)
    BY EntriesAreTx
<1> HIDE DEF entry
<1>2. HasTx(entry.key)'
    BY <1>1, OnceOkHasTx DEF TypeOK
<1> QED
    BY <1>1, <1>2 DEF Debited

LEMMA RefundOk ==
    ASSUME TypeOK, NEW o \in Ops, NEW v \in Prices, OnceOk(Refund(o, v))
    PROVE  Refunded(o)'
<1> DEFINE entry == Refund(o, v)
<1>1. entry \in Tx /\ entry.amount # 0 /\ entry.key = RefundKey(o) /\ OnceOk(entry)
    BY EntriesAreTx
<1> HIDE DEF entry
<1>2. HasTx(entry.key)'
    BY <1>1, OnceOkHasTx DEF TypeOK
<1> QED
    BY <1>1, <1>2 DEF Refunded

\* The keys this step may post.
StepKey(k) ==
    \/ k = NoKey
    \/ CreateDebit /\ k = DebitKey(wizard)
    \/ CreateRefund /\ k = RefundKey(wizard)

\* Whoever moves money, the tables change only by postings that are covered,
\* and whose key is new.
LEMMA MoneySteps ==
    ASSUME TypeOK, TasksOK, [Next]_vars
    PROVE  UNCHANGED walletVars \/ \E entry : Allowed(entry) /\ StepKey(entry.key) /\ Post(entry)
<1>1. CASE CreateDebit
    <2>1. wizard \in Ops /\ price \in Prices /\ OnceOk(Debit(wizard, price))
        BY <1>1 DEF TypeOK, CreateDebit
    <2>2. CASE Postable(Debit(wizard, price)) /\ Post(Debit(wizard, price))
        BY <1>1, <2>1, <2>2, EntriesAreTx DEF Postable, Allowed, StepKey
    <2> QED
        BY <2>1, <2>2 DEF OnceOk
<1>2. CASE CreateRefund
    <2> DEFINE v == task[Handler].cost
    <2>1. wizard \in Ops /\ v \in Prices /\ OnceOk(Refund(wizard, v))
        BY <1>2 DEF TasksOK, TaskOK, CreateRefund, At, CreatePCs, Actors, Job
    <2>2. CASE Postable(Refund(wizard, v)) /\ Post(Refund(wizard, v))
        BY <1>2, <2>1, <2>2, EntriesAreTx DEF Postable, Allowed, StepKey
    <2> QED
        BY <2>1, <2>2 DEF OnceOk
<1>3. ASSUME NEW t \in Actors, RenewDebit(t) \/ RenewRefund(t)
      PROVE  UNCHANGED walletVars \/ \E entry : Allowed(entry) /\ StepKey(entry.key) /\ Post(entry)
    <2>1. PICK v \in Prices \cup {0} : v = task[t].cost
        BY DEF TypeOK
    <2>2. v \in Nat /\ (v # 0 => v \in Prices)
        BY PricesArePositive
    <2>3. CASE RenewRefund(t)
        <3> DEFINE entry == Entry(Agent, v, "refund", NoKey)
        <3>1. v \in Prices /\ Post(entry)
            BY <2>1, <2>2, <2>3 DEF RenewRefund, Credit
        <3>2. entry \in Tx
            BY <3>1, EntriesAreTx DEF TxTypes
        <3>3. /\ entry.amount = v /\ entry.key = NoKey /\ entry.type = "refund"
              /\ entry.agent = Agent
            BY DEF Entry
        <3> HIDE DEF entry
        <3>4. Allowed(entry)
            BY <2>2, <3>1, <3>2, <3>3 DEF Allowed, Covered
        <3>5. StepKey(entry.key)
            BY <3>3 DEF StepKey
        <3> QED
            BY <3>1, <3>4, <3>5
    <2>4. CASE RenewDebit(t) /\ Deduct(Agent, v)
        <3> DEFINE entry == Entry(Agent, v, "purchase", NoKey)
        <3>1. v \in Prices /\ balance[Agent] >= v /\ Post(entry)
            BY <2>1, <2>2, <2>4 DEF Deduct
        <3>2. entry \in Tx
            BY <3>1, EntriesAreTx DEF TxTypes
        <3>3. /\ entry.amount = v /\ entry.key = NoKey /\ entry.type = "purchase"
              /\ entry.agent = Agent
            BY DEF Entry
        <3> HIDE DEF entry
        <3>4. Allowed(entry)
            BY <2>2, <3>1, <3>2, <3>3 DEF Allowed, Covered
        <3>5. StepKey(entry.key)
            BY <3>3 DEF StepKey
        <3> QED
            BY <3>1, <3>4, <3>5
    <2>5. CASE RenewDebit(t) /\ ~Deduct(Agent, v)
        BY <2>1, <2>5 DEF RenewDebit, Deduct
    <2> QED
        BY <1>3, <2>3, <2>4, <2>5
<1> QED
    BY <1>1, <1>2, <1>3, WalletWriters

\* The ledger keeps its shape and what is in it, and learns a key only where
\* the purchase says so.
LEMMA KeySteps ==
    ASSUME TypeOK, TasksOK, [Next]_vars
    PROVE  /\ WalletTypeOK'
           /\ \A o \in Ops : /\ Debited(o) => Debited(o)'
                             /\ Refunded(o) => Refunded(o)'
                             /\ Debited(o)' => Debited(o) \/ (CreateDebit /\ o = wizard)
                             /\ Refunded(o)' => Refunded(o) \/ (CreateRefund /\ o = wizard)
<1>0. WalletTypeOK
    BY DEF TypeOK
<1>1. CASE UNCHANGED walletVars
    BY <1>0, <1>1 DEF WalletTypeOK, walletVars, HasTx, Debited, Refunded
<1>2. CASE \E entry : Allowed(entry) /\ StepKey(entry.key) /\ Post(entry)
    <2>1. PICK entry : Allowed(entry) /\ StepKey(entry.key) /\ Post(entry)
        BY <1>2
    <2>2. entry \in Tx
        BY <2>1 DEF Allowed
    <2>3. WalletTypeOK'
        BY <1>0, <2>1, <2>2, PostKeepsType
    <2>4. \A x : HasTx(x)' <=> HasTx(x) \/ x = entry.key
        BY <1>0, <2>1, <2>2, PostHasTx
    <2>5. wizard \in Ops \cup {None}
        BY DEF TypeOK
    <2>6. CreateDebit \/ CreateRefund => wizard \in Ops
        BY <2>5 DEF CreateDebit, CreateRefund, TasksOK, TaskOK, At, CreatePCs, Actors
    <2>7. \A o \in Ops : /\ Debited(o)' <=> Debited(o) \/ DebitKey(o) = entry.key
                         /\ Refunded(o)' <=> Refunded(o) \/ RefundKey(o) = entry.key
        BY <2>4 DEF Debited, Refunded
    <2>8. \A o \in Ops : DebitKey(o) # NoKey /\ RefundKey(o) # NoKey
        BY KeysOfOps, WalletAssumption
    <2> QED
        BY <2>1, <2>3, <2>6, <2>7, <2>8, KeysOfOps DEF StepKey
<1> QED
    BY <1>1, <1>2, MoneySteps

-----------------------------------------------------------------------------
(* What moves, and how it is typed.                                        *)

\* Whatever happens, nobody is cleared of a disturbance.
LEMMA UpsetSteps ==
    ASSUME TypeOK, [Next]_vars
    PROVE  /\ upset' \in [Ops \cup Renewals -> SUBSET Causes]
           /\ \A x \in Ops \cup Renewals : upset[x] \subseteq upset'[x]
<1>0. upset \in [Ops \cup Renewals -> SUBSET Causes] /\ {"overlap", "crash"} \subseteq Causes
    BY DEF TypeOK, Causes
<1>1. CASE upset' = upset
    BY <1>0, <1>1
<1>2. CASE \E j : \E cause \in Causes : Upset(j, cause)
    BY <1>0, <1>2, UpsetGrows
<1>3. CASE \E t \in Actors : \E j : Meet(t, j)
    BY <1>0, <1>3 DEF Meet
<1>4. CASE \E t \in Actors : Crash(t)
    BY <1>0, <1>4 DEF Crash
<1> QED
    BY <1>1, <1>2, <1>3, <1>4, UpsetWriters

\* A renewal or a deletion is no purchase, before and after its step.
Apart(t) ==
    /\ task' \in [Actors -> TaskRec]
    /\ \A u \in Actors \ {t} : task'[u] = task[u]
    /\ task[t].pc \notin CreatePCs /\ task'[t].pc \notin CreatePCs
    /\ task'[t].pc \in RenewPCs => task'[t].job \in Renewals
    /\ UNCHANGED createVars

LEMMA ReturnApart ==
    ASSUME TypeOK, NEW t \in Actors, Return(t), UNCHANGED createVars, task[t].pc \notin CreatePCs
    PROVE  Apart(t)
BY ReturnTask, IdleIsTask DEF Apart, TypeOK, TaskRec, CreatePCs, RenewPCs

LEMMA GotoApart ==
    ASSUME TypeOK, TasksOK, NEW t \in Actors, NEW pc \in PCs \ CreatePCs, Goto(t, pc),
           UNCHANGED createVars, task[t].pc \notin CreatePCs,
           pc \in RenewPCs => task[t].pc \in RenewPCs
    PROVE  Apart(t)
<1>1. task \in [Actors -> TaskRec]
    BY DEF TypeOK, TaskRec
<1>2. task[t].pc \in RenewPCs => task[t].job \in Renewals
    BY DEF TasksOK, TaskOK
<1> QED
    BY <1>1, <1>2, GotoTask DEF Apart

LEMMA ServiceApart ==
    ASSUME TypeOK, TasksOK, NEW t \in Actors, ServiceStep(t)
    PROVE  Apart(t)
<1> USE DEF renewOnly, deleteOnly, createVars
<1>0. /\ task \in [Actors -> TaskRec] /\ row \in States /\ active \in BOOLEAN
      /\ price \in Prices /\ renewed \in 0..MaxRenewals
    BY DEF TypeOK, TaskRec
<1>1. CASE RenewStart(t)
    <2>1. renewed + 1 \in Renewals
        BY <1>0, <1>1, PurchaseAssumption DEF RenewStart, Renewals
    <2>2. [pc |-> "debit", job |-> renewed + 1, cost |-> price, old |-> row, on |-> active,
           want |-> Original] \in TaskRec
        BY <1>0, <2>1 DEF TaskRec, PCs, States
    <2> QED
        BY <1>0, <1>1, <2>1, <2>2 DEF RenewStart, Apart, At, CreatePCs, RenewPCs
<1>2. CASE RenewDebit(t)
    BY <1>2, GotoApart, ReturnApart DEF RenewDebit, At, CreatePCs, RenewPCs, PCs
<1>3. CASE RenewRow(t)
    BY <1>3, GotoApart DEF RenewRow, At, CreatePCs, RenewPCs, PCs
<1>4. CASE RenewLook(t) /\ Return(t)
    BY <1>4, ReturnApart DEF RenewLook, At, CreatePCs
<1>5. CASE RenewLook(t) /\ ~Return(t)
    <2>1. task' = [task EXCEPT ![t].pc = "patch", ![t].want = row] /\ task[t].pc = "look"
        BY <1>5 DEF RenewLook, At
    <2>2. task[t] \in TaskRec /\ task[t].job \in Renewals
        BY <1>0, <2>1 DEF TasksOK, TaskOK, RenewPCs
    <2>3. [task[t] EXCEPT !.pc = "patch", !.want = row] \in TaskRec
        BY <1>0, <2>2 DEF TaskRec, PCs
    <2> QED
        BY <1>0, <1>5, <2>1, <2>2, <2>3 DEF Apart, CreatePCs, RenewPCs, RenewLook, TaskRec
<1>6. CASE RenewPatch(t)
    BY <1>6, GotoApart DEF RenewPatch, At, CreatePCs, RenewPCs, PCs
<1>7. CASE RenewPatchFails(t)
    BY <1>7, GotoApart DEF RenewPatchFails, At, CreatePCs, RenewPCs, PCs
<1>8. CASE RenewRestore(t)
    BY <1>8, GotoApart DEF RenewRestore, At, CreatePCs, RenewPCs, PCs
<1>9. CASE RenewRefund(t) \/ RenewEnable(t) \/ RenewRaises(t) \/ RenewUnlisted(t)
    BY <1>9, ReturnApart DEF RenewRefund, RenewEnable, RenewRaises, RenewUnlisted, At, CreatePCs
<1>10. CASE DeleteStart(t)
    <2>1. [Idle EXCEPT !.pc = "remove"] \in TaskRec /\ [Idle EXCEPT !.pc = "remove"].pc = "remove"
        BY IdleIsTask DEF TaskRec, PCs
    <2> QED
        BY <1>0, <1>10, <2>1 DEF DeleteStart, Apart, At, CreatePCs, RenewPCs
<1>11. CASE DeletePanel(t)
    BY <1>11, GotoApart DEF DeletePanel, At, CreatePCs, RenewPCs, PCs
<1>12. CASE DeletePanelFails(t) \/ DeleteRow(t)
    BY <1>12, ReturnApart DEF DeletePanelFails, DeleteRow, At, CreatePCs
<1> QED
    BY <1>1, <1>2, <1>3, <1>4, <1>5, <1>6, <1>7, <1>8, <1>9, <1>10, <1>11, <1>12 DEF ServiceStep

LEMMA TimeoutApart ==
    ASSUME TypeOK, RenewTimeout
    PROVE  Apart(Admin)
BY ReturnApart DEF RenewTimeout, At, CreatePCs, renewOnly, createVars, Actors

-----------------------------------------------------------------------------
(* A create action works for the open wizard, under its key.               *)

LEMMA WorkingFor ==
    ASSUME TypeOK, TasksOK, task[Handler].pc \in CreatePCs
    PROVE  /\ wizard \in Ops /\ wizard \in opened /\ Job(Handler) = wizard
           /\ task[Handler].cost \in Prices
           /\ Debited(wizard) /\ ~Refunded(wizard) /\ wizard \notin served
BY PurchaseAssumption DEF TypeOK, TasksOK, TaskOK, Actors, Job

\* A step of one actor leaves the other's task in order.
LEMMA TasksKept ==
    ASSUME TasksOK, NEW t \in Actors, TaskOK(t)', \A u \in Actors \ {t} : task'[u] = task[u],
           t # Handler => /\ UNCHANGED <<wizard, served>>
                          /\ \A o \in Ops : (Debited(o) => Debited(o)')
                                            /\ (Refunded(o)' => Refunded(o))
    PROVE  TasksOK'
<1> SUFFICES ASSUME NEW u \in Actors, u # t
             PROVE  TaskOK(u)'
    BY DEF TasksOK
<1>1. task'[u] = task[u] /\ TaskOK(u)
    BY DEF TasksOK
<1>2. CASE task[u].pc \in CreatePCs
    <2>1. wizard' = wizard /\ served' = served /\ wizard \in Ops
        BY <1>1, <1>2 DEF TaskOK
    <2>2. Debited(wizard)' /\ ~Refunded(wizard)'
        BY <1>1, <1>2, <2>1 DEF TaskOK, Debited, Refunded
    <2> QED
        BY <1>1, <1>2, <2>1, <2>2 DEF TaskOK
<1> QED
    BY <1>1, <1>2 DEF TaskOK

LEMMA GotoCreate ==
    ASSUME TypeOK, TasksOK, task[Handler].pc \in CreatePCs, NEW pc \in CreatePCs,
           Goto(Handler, pc), UNCHANGED <<walletVars, wizard, served>>
    PROVE  TasksOK' /\ task' \in [Actors -> TaskRec] /\ task'[Handler].pc = pc
<1>1. task \in [Actors -> TaskRec] /\ pc \in PCs /\ Handler \in Actors /\ TaskOK(Handler)
    BY DEF TypeOK, TaskRec, CreatePCs, PCs, Actors, TasksOK
<1>2. /\ task' \in [Actors -> TaskRec]
      /\ task'[Handler].pc = pc /\ task'[Handler].job = task[Handler].job
      /\ task'[Handler].cost = task[Handler].cost
      /\ \A u \in Actors \ {Handler} : task'[u] = task[u]
    BY <1>1, GotoTask
<1>3. TaskOK(Handler)'
    BY <1>1, <1>2 DEF TaskOK, CreatePCs, RenewPCs, Debited, Refunded, HasTx, walletVars
<1> QED
    BY <1>1, <1>2, <1>3, TasksKept

LEMMA ReturnCreate ==
    ASSUME TypeOK, TasksOK, Return(Handler)
    PROVE  TasksOK' /\ task' \in [Actors -> TaskRec] /\ task'[Handler].pc = "idle"
<1>1. task \in [Actors -> TaskRec] /\ Handler \in Actors
    BY DEF TypeOK, TaskRec, Actors
<1>2. /\ task' \in [Actors -> TaskRec] /\ task'[Handler].pc = "idle"
      /\ \A u \in Actors \ {Handler} : task'[u] = task[u]
    BY <1>1, ReturnTask, IdleIsTask
<1>3. TaskOK(Handler)'
    BY <1>2 DEF TaskOK, CreatePCs, RenewPCs
<1> QED
    BY <1>1, <1>2, <1>3, TasksKept

-----------------------------------------------------------------------------
(* The four parts of the invariant that speak of the keys.                 *)

Books == Closed /\ Clean /\ Held /\ PurchaseSettled

\* No key is posted by this step, and nobody is cleared.
SameKeys ==
    /\ \A o \in Ops : (Debited(o)' <=> Debited(o)) /\ (Refunded(o)' <=> Refunded(o))
    /\ \A o \in Ops : upset[o] \subseteq upset'[o]

\* A step on the service, or of the administrator, touches none of it.
LEMMA BooksApart ==
    ASSUME TypeOK, TasksOK, Books, SameKeys, UNCHANGED createVars,
           task'[Handler] = task[Handler]
               \/ (task[Handler].pc \notin CreatePCs /\ task'[Handler].pc \notin CreatePCs)
    PROVE  Books'
<1>1. wizard' = wizard /\ served' = served /\ users' = users /\ opened' = opened
    BY DEF createVars
<1>2. users \subseteq Ops /\ served \subseteq Ops
    BY DEF TypeOK
<1>3. \A o \in Ops : Blamed(o) => Blamed(o)'
    BY DEF SameKeys, Blamed
<1>4. Closed'
    BY <1>1 DEF Books, Closed, SameKeys
<1>5. Clean'
    BY <1>1, <1>2, <1>3 DEF Books, Clean, CreatePCs
<1>6. Held'
    BY <1>1 DEF Books, Held, SameKeys
<1>7. PurchaseSettled'
    BY <1>1, <1>2, <1>3 DEF Books, PurchaseSettled, SameKeys, Blamed
<1> QED
    BY <1>4, <1>5, <1>6, <1>7 DEF Books

LEMMA BooksOpen ==
    ASSUME TypeOK, TasksOK, Books, SameKeys, NEW p \in Ops, OpenWizard(p)
    PROVE  Books'
<1>1. /\ p \notin opened /\ opened' = opened \cup {p} /\ wizard' = p
      /\ served' = served /\ users' = users
    BY DEF OpenWizard
<1>2. wizard \in Ops => "left" \in upset'[wizard]
    <2>1. upset \in [Ops \cup Renewals -> SUBSET Causes] /\ "left" \in Causes
        BY DEF TypeOK, Causes
    <2> QED
        BY <2>1, PurchaseAssumption, UpsetGrows DEF OpenWizard
<1>3. users \subseteq Ops /\ served \subseteq Ops
    BY DEF TypeOK
<1>4. \A o \in Ops : Blamed(o) => Blamed(o)'
    BY DEF SameKeys, Blamed
<1>5. Closed'
    BY <1>1, <1>3 DEF Books, Closed, SameKeys
<1>6. Clean'
    BY <1>1 DEF Books, Clean, Closed
<1>7. Held'
    BY <1>1, <1>2 DEF Books, Held, SameKeys
<1>8. PurchaseSettled'
    BY <1>1, <1>3, <1>4 DEF Books, PurchaseSettled, SameKeys, Blamed
<1> QED
    BY <1>5, <1>6, <1>7, <1>8 DEF Books

LEMMA BooksCrash ==
    ASSUME TypeOK, TasksOK, Books, SameKeys, NEW t \in Actors, Crash(t)
    PROVE  Books'
<1>1. /\ served' = served /\ users' = users /\ opened' = opened
      /\ wizard' = IF t = Handler THEN None ELSE wizard
    BY DEF Crash
<1>2. users \subseteq Ops /\ served \subseteq Ops /\ None \notin Ops
    BY PurchaseAssumption DEF TypeOK
<1>3. \A o \in Ops : Blamed(o) => Blamed(o)'
    BY DEF SameKeys, Blamed
<1>4. t = Handler /\ wizard \in Ops => "crash" \in upset'[wizard]
    BY DEF TypeOK, Crash
<1>5. t # Handler => task'[Handler] = task[Handler]
    BY DEF TypeOK, Crash, Return, Actors
<1>6. Closed'
    BY <1>1, <1>2 DEF Books, Closed, SameKeys
<1>7. Clean'
    BY <1>1, <1>2, <1>3, <1>5 DEF Books, Clean
<1>8. Held'
    BY <1>1, <1>4 DEF Books, Held, SameKeys
<1>9. PurchaseSettled'
    BY <1>1, <1>2, <1>3 DEF Books, PurchaseSettled, SameKeys, Blamed
<1> QED
    BY <1>6, <1>7, <1>8, <1>9 DEF Books

\* CreateStep, one action at a time; of the wallet only what KeySteps says.
NewKeys ==
    \A o \in Ops : /\ Debited(o) => Debited(o)'
                   /\ Refunded(o) => Refunded(o)'
                   /\ Debited(o)' => Debited(o) \/ (CreateDebit /\ o = wizard)
                   /\ Refunded(o)' => Refunded(o) \/ (CreateRefund /\ o = wizard)

TypedTask == task' \in [Actors -> TaskRec]

LEMMA CreateDebitKeeps ==
    ASSUME TypeOK, TasksOK, Books, NewKeys, CreateDebit
    PROVE  TypedTask /\ TasksOK' /\ Books'
<1>1. /\ wizard \in Ops /\ wizard \in opened /\ wizard \notin served /\ price \in Prices
      /\ task[Handler].pc = "idle" /\ UNCHANGED <<createVars, upset>> /\ OnceOk(Debit(wizard, price))
    BY DEF TypeOK, CreateDebit, At
<1>2. ~Refunded(wizard) /\ ~CreateRefund
    BY <1>1 DEF Books, Closed, CreateRefund, At
<1>3. Debited(wizard)'
    <2>1. PICK o \in Ops, v \in Prices : o = wizard /\ v = price
        BY <1>1
    <2>2. OnceOk(Debit(o, v))
        BY <1>1, <2>1
    <2>3. Debited(o)'
        BY <2>2, DebitOk
    <2> QED
        BY <1>1, <2>1, <2>3 DEF createVars
<1>4. /\ wizard' = wizard /\ served' = served /\ users' = users /\ opened' = opened
      /\ upset' = upset /\ ~Refunded(wizard)'
    BY <1>1, <1>2 DEF createVars, NewKeys, Refunded, HasTx
<1>5. TypedTask /\ TasksOK' /\ task'[Handler].pc = "panel"
    <2> DEFINE work == [Idle EXCEPT !.pc = "panel", !.job = wizard, !.cost = price]
    <2>1. work \in TaskRec /\ work.pc = "panel" /\ work.job = wizard /\ work.cost = price
        BY <1>1, IdleIsTask DEF TaskRec, PCs
    <2>2. task \in [Actors -> TaskRec] /\ task' = [task EXCEPT ![Handler] = work] /\ Handler \in Actors
        BY DEF TypeOK, TaskRec, CreateDebit, Actors
    <2> HIDE DEF work
    <2>3. TypedTask /\ task'[Handler] = work /\ \A u \in Actors \ {Handler} : task'[u] = task[u]
        BY <2>1, <2>2 DEF TypedTask
    <2>4. TaskOK(Handler)'
        BY <1>1, <1>3, <1>4, <2>1, <2>3 DEF TaskOK, RenewPCs, Debited, Refunded
    <2> QED
        BY <2>1, <2>2, <2>3, <2>4, TasksKept
<1>6. users \subseteq Ops /\ served \subseteq Ops
    BY DEF TypeOK
<1>7. Books'
    BY <1>1, <1>2, <1>4, <1>6 DEF Books, Closed, Clean, Held, PurchaseSettled, NewKeys, Blamed
<1> QED
    BY <1>5, <1>7

LEMMA CreateStoreKeeps ==
    ASSUME TypeOK, TasksOK, Books, SameKeys, CreateStore
    PROVE  TypedTask /\ TasksOK' /\ Books'
<1>1. /\ task[Handler].pc \in CreatePCs /\ served' = served \cup {wizard} /\ wizard' = None
      /\ users' = users /\ opened' = opened /\ upset' = upset /\ Return(Handler)
    BY WorkingFor DEF CreateStore, At, CreatePCs
<1>2. /\ wizard \in Ops /\ wizard \in opened /\ Debited(wizard) /\ ~Refunded(wizard)
      /\ users \subseteq Ops /\ served \subseteq Ops /\ None \notin Ops
    BY <1>1, WorkingFor, PurchaseAssumption DEF TypeOK
<1>3. TypedTask /\ TasksOK'
    BY <1>1, ReturnCreate DEF TypedTask
<1>4. Books'
    BY <1>1, <1>2 DEF Books, Closed, Clean, Held, PurchaseSettled, SameKeys
<1> QED
    BY <1>3, <1>4

LEMMA CreateRefundKeeps ==
    ASSUME TypeOK, TasksOK, Books, NewKeys, CreateRefund
    PROVE  TypedTask /\ TasksOK' /\ Books'
<1>1. /\ task[Handler].pc = "giveBack" /\ wizard' = None /\ served' = served
      /\ users' = users /\ opened' = opened /\ upset' = upset /\ Return(Handler)
    BY DEF CreateRefund, At
<1>2. /\ wizard \in Ops /\ wizard \in opened /\ wizard \notin served
      /\ users \subseteq Ops /\ served \subseteq Ops /\ None \notin Ops
    BY <1>1, WorkingFor, PurchaseAssumption DEF TypeOK, CreatePCs
<1>3. TypedTask /\ TasksOK'
    BY <1>1, ReturnCreate DEF TypedTask
<1>4. ~CreateDebit /\ (wizard \in users => Blamed(wizard))
    BY <1>1 DEF CreateDebit, At, Books, Clean
<1>5. \A o \in Ops : o = wizard => Refunded(o)'
    <2>1. OnceOk(Refund(wizard, task[Handler].cost)) /\ task[Handler].cost \in Prices
        BY <1>1, WorkingFor DEF CreateRefund, CreatePCs
    <2>2. PICK v \in Prices : v = task[Handler].cost
        BY <2>1
    <2>3. ASSUME NEW o \in Ops, o = wizard
          PROVE  OnceOk(Refund(o, v))
        BY <2>1, <2>2, <2>3
    <2> QED
        BY <2>3, RefundOk
<1>6. Closed'
    BY <1>1, <1>2, <1>4 DEF Books, Closed, NewKeys
<1>7. Clean'
    BY <1>1, <1>2 DEF Clean
<1>8. Held'
    BY <1>1, <1>4, <1>5 DEF Books, Held, NewKeys
<1>9. PurchaseSettled'
    BY <1>1, <1>2, <1>4 DEF Books, PurchaseSettled, NewKeys, Blamed
<1> QED
    BY <1>3, <1>6, <1>7, <1>8, <1>9 DEF Books

\* The actions between the debit and its end: the panel user comes and goes.
LEMMA CreateUsersKeeps ==
    ASSUME TypeOK, TasksOK, Books, SameKeys,
           CreatePanel \/ CreatePanelFails \/ CreateStoreRaises \/ CreateRollback
    PROVE  TypedTask /\ TasksOK' /\ Books'
<1>1. /\ task[Handler].pc \in CreatePCs /\ UNCHANGED <<walletVars, wizard, served>>
      /\ opened' = opened
    BY DEF CreatePanel, CreatePanelFails, CreateStoreRaises, CreateRollback, At, CreatePCs, createVars
<1>2. /\ wizard \in Ops /\ wizard \in opened /\ Job(Handler) = wizard /\ ~Refunded(wizard)
      /\ users \subseteq Ops /\ served \subseteq Ops
      /\ upset \in [Ops \cup Renewals -> SUBSET Causes] /\ {"lost", "rollback"} \subseteq Causes
    BY <1>1, WorkingFor DEF TypeOK, Causes
<1>3. /\ TypedTask /\ TasksOK'
      /\ CreatePanel => task'[Handler].pc = "store"
      /\ CreatePanelFails => task'[Handler].pc = "giveBack"
      /\ CreateStoreRaises => task'[Handler].pc = "rollback"
      /\ CreateRollback => task'[Handler].pc = "giveBack"
    BY <1>1, GotoCreate
       DEF CreatePanel, CreatePanelFails, CreateStoreRaises, CreateRollback, CreatePCs, TypedTask
<1>4. /\ users' \subseteq users \cup {wizard}
      /\ wizard \in users' /\ task'[Handler].pc \notin {"store", "rollback"} => Blamed(wizard)'
    <2>1. CASE CreatePanel
        BY <1>2, <1>3, <2>1 DEF CreatePanel
    <2>2. CASE CreatePanelFails
        <3>1. CASE UNCHANGED <<users, upset>>
            BY <1>1, <2>2, <3>1 DEF CreatePanelFails, At, Books, Clean, Blamed
        <3>2. CASE users' = users \cup {Job(Handler)} /\ Upset(Job(Handler), "lost")
            BY <1>1, <1>2, <3>2, UpsetGrows DEF Blamed
        <3> QED
            BY <2>2, <3>1, <3>2 DEF CreatePanelFails
    <2>3. CASE CreateStoreRaises
        BY <1>3, <2>3 DEF CreateStoreRaises, createVars
    <2>4. CASE CreateRollback
        <3>1. CASE users' = users \ {Job(Handler)}
            BY <1>2, <3>1
        <3>2. CASE UNCHANGED users /\ Upset(Job(Handler), "rollback")
            BY <1>1, <1>2, <3>2, UpsetGrows DEF Blamed
        <3> QED
            BY <2>4, <3>1, <3>2 DEF CreateRollback
    <2> QED
        BY <2>1, <2>2, <2>3, <2>4
<1>5. \A o \in Ops : Blamed(o) => Blamed(o)'
    BY DEF SameKeys, Blamed
<1>6. Closed'
    BY <1>1, <1>2, <1>4 DEF Books, Closed, SameKeys
<1>7. Clean'
    BY <1>1, <1>4 DEF Clean, Blamed
<1>8. Held'
    BY <1>1 DEF Books, Held, SameKeys
<1>9. PurchaseSettled'
    BY <1>1, <1>2, <1>4, <1>5 DEF Books, PurchaseSettled, SameKeys, Blamed
<1> QED
    BY <1>3, <1>6, <1>7, <1>8, <1>9 DEF Books

LEMMA CreateRefundRaisesKeeps ==
    ASSUME TypeOK, TasksOK, Books, SameKeys, CreateRefundRaises
    PROVE  TypedTask /\ TasksOK' /\ Books'
<1>1. /\ task[Handler].pc = "giveBack" /\ UNCHANGED <<wizard, users, served, opened, upset>>
      /\ Return(Handler)
    BY DEF CreateRefundRaises, At, createVars
<1>2. TypedTask /\ TasksOK'
    BY <1>1, ReturnCreate DEF TypedTask
<1>3. Books'
    <2>1. users \subseteq Ops /\ served \subseteq Ops
        BY DEF TypeOK
    <2> QED
        BY <1>1, <2>1 DEF Books, Closed, Clean, Held, PurchaseSettled, SameKeys, Blamed
<1> QED
    BY <1>2, <1>3

\* The removed server is noticed with the wizard at rest.
LEMMA CreateUnlistedKeeps ==
    ASSUME TypeOK, TasksOK, Books, SameKeys, CreateUnlisted
    PROVE  TypedTask /\ TasksOK' /\ Books'
<1>1. /\ task[Handler].pc = "idle" /\ wizard # None /\ wizard' = None /\ task' = task
      /\ UNCHANGED <<users, served, opened>> /\ Upset(wizard, "unlisted")
    BY DEF CreateUnlisted, At
<1>2. users \subseteq Ops /\ served \subseteq Ops /\ None \notin Ops /\ wizard \in Ops
    BY <1>1, PurchaseAssumption DEF TypeOK
<1>3. "unlisted" \in upset'[wizard]
    BY <1>1, <1>2, UpsetGrows DEF TypeOK, Causes
<1>4. \A o \in Ops : Blamed(o) => Blamed(o)'
    BY DEF SameKeys, Blamed
<1>5. TypedTask /\ TasksOK'
    <2>1. \A t \in Actors : task[t].pc \notin CreatePCs
        BY <1>1 DEF TasksOK, TaskOK, CreatePCs
    <2> QED
        BY <1>1, <2>1 DEF TasksOK, TaskOK, TypedTask, TypeOK, TaskRec
<1>6. Closed'
    BY <1>1, <1>2 DEF Books, Closed, SameKeys
<1>7. Clean'
    BY <1>1, <1>2 DEF Clean
<1>8. Held'
    BY <1>1, <1>3 DEF Books, Held, SameKeys
<1>9. PurchaseSettled'
    BY <1>1, <1>2, <1>4 DEF Books, PurchaseSettled, SameKeys, Blamed
<1> QED
    BY <1>5, <1>6, <1>7, <1>8, <1>9 DEF Books

-----------------------------------------------------------------------------
(* The step.                                                               *)

LEMMA TypeStep ==
    ASSUME TypeOK, TasksOK, [Next]_vars, TypedTask
    PROVE  TypeOK'
<1>0. task \in [Actors -> TaskRec]
    BY DEF TypeOK, TaskRec
<1>1. WalletTypeOK' /\ upset' \in [Ops \cup Renewals -> SUBSET Causes]
    BY KeySteps, UpsetSteps
<1>2. /\ renewed' \in 0..MaxRenewals /\ deletions' \in 0..MaxDeletions
      /\ reprices' \in 0..MaxReprices /\ faults' \in 0..MaxFaults /\ price' \in Prices
    BY CountWriters, PurchaseAssumption DEF TypeOK
<1>10. listed' \in BOOLEAN
    BY ListedWriters, Zenon DEF TypeOK
<1>3. \A t \in Actors : /\ task[t].want \in States /\ task[t].old \in States
                        /\ task[t].on \in BOOLEAN
                        /\ task[t].pc \in RenewPCs => Job(t) \in Renewals
    BY <1>0 DEF TasksOK, TaskOK, TaskRec, Job
<1>4. Gone \in States /\ Renewals \subseteq States
    BY DEF States
<1>5. row' \in States /\ panel' \in States /\ applied' \in SUBSET States
    BY <1>3, <1>4, RowWriters DEF TypeOK, At, RenewPCs
<1>6. active' \in BOOLEAN /\ enabled' \in BOOLEAN
    BY <1>3, ActiveWriters, Zenon DEF TypeOK
<1>7. paid' \in SUBSET Renewals /\ back' \in SUBSET Renewals
    BY <1>3, RenewWriters DEF TypeOK, At, RenewPCs
<1>8. opened' \in SUBSET Ops /\ wizard' \in opened' \cup {None}
    BY WizardWriters DEF TypeOK, OpenWizard, CreateStore, CreateRefund, CreateUnlisted, Crash
<1>9. served' \in SUBSET Ops /\ users' \in SUBSET Ops
    <2>1. task[Handler].pc \in CreatePCs => Job(Handler) \in Ops
        BY WorkingFor
    <2> QED
        BY <2>1, WizardWriters
           DEF TypeOK, CreateStore, CreatePanel, CreatePanelFails, CreateRollback, At, CreatePCs
<1> QED
    BY <1>1, <1>2, <1>5, <1>6, <1>7, <1>8, <1>9, <1>10 DEF TypeOK, TypedTask, TaskRec

\* Every disjunct of Next, by what it works on.
LEMMA PurchaseStep ==
    ASSUME Purchase, [Next]_vars
    PROVE  Purchase'
<1>0. TypeOK /\ TasksOK /\ Books /\ NewKeys
    BY KeySteps DEF Purchase, Books, NewKeys
<1>1. \A o \in Ops : upset[o] \subseteq upset'[o]
    BY <1>0, UpsetSteps
<1>2. task \in [Actors -> TaskRec] /\ Handler \in Actors /\ Admin \in Actors
    BY <1>0 DEF TypeOK, TaskRec, Actors
<1>3. SUFFICES TypedTask /\ TasksOK' /\ Books'
    BY <1>0, TypeStep DEF Purchase, Books
<1>4. CASE CreateDebit
    BY <1>0, <1>4, CreateDebitKeeps
<1>5. CASE CreateRefund
    BY <1>0, <1>5, CreateRefundKeeps
<1>6. CASE ~CreateDebit /\ ~CreateRefund
    <2>1. SameKeys
        BY <1>0, <1>1, <1>6 DEF NewKeys, SameKeys
    <2>2. CASE CreateStore
        BY <1>0, <2>1, <2>2, CreateStoreKeeps
    <2>3. CASE CreatePanel \/ CreatePanelFails \/ CreateStoreRaises \/ CreateRollback
        BY <1>0, <2>1, <2>3, CreateUsersKeeps
    <2>4. CASE CreateRefundRaises
        BY <1>0, <2>1, <2>4, CreateRefundRaisesKeeps
    <2>5. ASSUME NEW t \in Actors, Apart(t)
          PROVE  TypedTask /\ TasksOK' /\ Books'
        <3>1. TaskOK(t)' /\ UNCHANGED <<wizard, served>>
            BY <2>5 DEF Apart, TaskOK, createVars
        <3>2. TasksOK'
            BY <1>0, <2>1, <2>5, <3>1, TasksKept DEF Apart, SameKeys
        <3>3. Books'
            BY <1>0, <1>2, <2>1, <2>5, BooksApart DEF Apart
        <3> QED
            BY <2>5, <3>2, <3>3 DEF Apart, TypedTask
    <2>6. CASE \E t \in Actors : ServiceStep(t)
        BY <1>0, <2>5, <2>6, ServiceApart
    <2>7. CASE RenewTimeout
        BY <1>0, <1>2, <2>5, <2>7, TimeoutApart
    <2>8. ASSUME task' = task, UNCHANGED createVars
          PROVE  TypedTask /\ TasksOK' /\ Books'
        <3>1. Books'
            BY <1>0, <2>1, <2>8, BooksApart
        <3>2. \A t \in Actors : TaskOK(t)'
            <4>1. wizard' = wizard /\ served' = served
                BY <2>8 DEF createVars
            <4>2. wizard \in Ops => /\ Debited(wizard) => Debited(wizard)'
                                    /\ Refunded(wizard)' => Refunded(wizard)
                BY <2>1, <4>1 DEF SameKeys, Debited, Refunded
            <4> QED
                BY <1>0, <2>8, <4>1, <4>2 DEF TasksOK, TaskOK
        <3> QED
            BY <1>2, <2>8, <3>1, <3>2 DEF TypedTask, TasksOK
    <2>9. CASE RemoveServer \/ \E v \in Prices : Reprice(v)
        BY <2>8, <2>9 DEF Reprice, RemoveServer
    <2>10. CASE UNCHANGED vars
        BY <2>8, <2>10 DEF vars
    <2>11. CASE \E p \in Ops : OpenWizard(p)
        <3>1. PICK p \in Ops : OpenWizard(p)
            BY <2>11
        <3>2. Books'
            BY <1>0, <2>1, <3>1, BooksOpen
        <3>3. task' = task /\ task[Handler].pc = "idle"
            BY <3>1 DEF OpenWizard, At
        <3>4. \A t \in Actors : task[t].pc \notin CreatePCs
            BY <1>0, <3>3 DEF TasksOK, TaskOK, CreatePCs
        <3>5. TasksOK'
            BY <1>0, <3>3, <3>4 DEF TasksOK, TaskOK
        <3> QED
            BY <1>2, <3>2, <3>3, <3>5 DEF TypedTask
    <2>12. ASSUME NEW t \in Actors, Crash(t)
           PROVE  TypedTask /\ TasksOK' /\ Books'
        <3>1. Return(t) /\ served' = served /\ (t # Handler => wizard' = wizard)
            BY <2>12 DEF Crash
        <3>2. /\ TypedTask /\ task'[t].pc = "idle"
              /\ \A u \in Actors \ {t} : task'[u] = task[u]
            BY <1>2, <3>1, ReturnTask, IdleIsTask DEF TypedTask
        <3>3. TaskOK(t)'
            BY <3>2 DEF TaskOK, CreatePCs, RenewPCs
        <3>4. TasksOK'
            BY <1>0, <2>1, <3>1, <3>2, <3>3, TasksKept DEF SameKeys
        <3> QED
            BY <1>0, <2>1, <2>12, <3>2, <3>4, BooksCrash
    <2>13. CASE CreateUnlisted
        BY <1>0, <2>1, <2>13, CreateUnlistedKeeps
    <2> QED
        BY <1>6, <2>2, <2>3, <2>4, <2>6, <2>7, <2>9, <2>10, <2>11, <2>12, <2>13
        DEF Next, CreateStep
<1> QED
    BY <1>4, <1>5, <1>6

LEMMA PurchaseInit == Init => Purchase /\ NoOverdraft /\ KeyPostedOnce
<1> SUFFICES ASSUME Init
             PROVE  Purchase /\ NoOverdraft /\ KeyPostedOnce
    OBVIOUS
<1> USE DEF Init
<1>1. Agent \in Agents /\ Funds \in Nat /\ NoKey \notin Keys /\ None \notin Ops
    BY PurchaseAssumption, WalletAssumption
<1>2. ledger \in Seq(Tx) /\ \A i \in DOMAIN ledger : ledger[i].key = NoKey
    <2>1. Entry(Agent, Funds, "charge", NoKey) \in Tx
        BY <1>1 DEF Entry, Tx, TxTypes
    <2>2. Entry(Agent, Funds, "charge", NoKey).key = NoKey
        BY DEF Entry
    <2> QED
        BY <2>1, <2>2
<1>3. \A o \in Ops : ~Debited(o) /\ ~Refunded(o)
    BY <1>1, <1>2, KeysOfOps DEF Debited, Refunded, HasTx
<1>4. task \in [Actors -> TaskRec] /\ \A t \in Actors : task[t].pc = "idle"
    BY IdleIsTask
<1>5. TypeOK
    <2>1. WalletTypeOK
        BY <1>1, <1>2 DEF WalletTypeOK
    <2>2. MaxRenewals \in Nat /\ MaxDeletions \in Nat /\ MaxReprices \in Nat /\ MaxFaults \in Nat
        BY PurchaseAssumption
    <2>3. enabled \in BOOLEAN /\ active \in BOOLEAN
        BY Zenon
    <2>4. row \in States /\ panel \in States
        BY DEF States
    <2> QED
        BY <1>4, <2>1, <2>2, <2>3, <2>4 DEF TypeOK, TaskRec
<1>6. TasksOK
    BY <1>4 DEF TasksOK, TaskOK, CreatePCs, RenewPCs
<1>7. Closed /\ Clean /\ Held /\ PurchaseSettled
    BY <1>3 DEF Closed, Clean, Held, PurchaseSettled
<1>8. NoOverdraft
    <2> HIDE DEF Init
    <2>1. balance \in [Agents -> Nat]
        BY <1>1 DEF Init
    <2> QED
        BY <2>1 DEF NoOverdraft
<1>9. KeyPostedOnce
    BY <1>2 DEF KeyPostedOnce
<1> QED
    BY <1>5, <1>6, <1>7, <1>8, <1>9 DEF Purchase

LEMMA MoneyStep ==
    ASSUME Purchase, NoOverdraft, KeyPostedOnce, [Next]_vars
    PROVE  NoOverdraft' /\ KeyPostedOnce'
<1>1. CASE UNCHANGED walletVars
    BY <1>1 DEF NoOverdraft, KeyPostedOnce, walletVars
<1>2. CASE \E entry : Allowed(entry) /\ StepKey(entry.key) /\ Post(entry)
    BY <1>2, PostKeepsCover, PostKeepsKeys DEF Allowed, Purchase, TypeOK
<1> QED
    BY <1>1, <1>2, MoneySteps DEF Purchase

LEMMA PurchaseInvariant == Spec => [](Purchase /\ NoOverdraft /\ KeyPostedOnce)
<1> DEFINE Inv == Purchase /\ NoOverdraft /\ KeyPostedOnce
<1>1. Init => Inv
    BY PurchaseInit
<1>2. Inv /\ [Next]_vars => Inv'
    BY PurchaseStep, MoneyStep
<1> QED
    BY <1>1, <1>2, PTL DEF Spec

-----------------------------------------------------------------------------
(* The theorems.                                                           *)

\* Whatever the actors interleave, every renewal is one of the counted ones and
\* the books, the panel and the tasks hold no other.
THEOREM PurchaseTypeCorrect == Spec => []TypeOK
BY PurchaseInvariant, PTL DEF Purchase

\* Neither purchases nor renewals, of however many processes, bring the
\* wallet below zero.
THEOREM PurchaseNoOverdraft == Spec => []NoOverdraft
BY PurchaseInvariant, PTL

\* create_subscription sent again under its key, after whatever crash, error or
\* change of price, moves the money of the key once each way.
THEOREM PurchaseKeyPostedOnce == Spec => []KeyPostedOnce
BY PurchaseInvariant, PTL

\* A service is stored for money that was taken and kept; money that went back
\* leaves no user, unless the panel did not answer or did not obey.
THEOREM PurchaseIsSettled == Spec => []PurchaseSettled
BY PurchaseInvariant, PTL DEF Purchase

\* Money taken and neither used nor given back is still within reach of the
\* representative, who only has to send the name again, unless AgentBot died,
\* the representative started over, or the name was sent after the server had
\* been removed from the list (subscription_service.py:241).
THEOREM PurchaseIsResumable == Spec => []HeldIsResumable
<1>1. Purchase => HeldIsResumable
    BY DEF Purchase, Held, HeldIsResumable
<1> QED
    BY <1>1, PurchaseInvariant, PTL

-----------------------------------------------------------------------------
(***************************************************************************)
(* Renewals.  A renewal that nothing has disturbed was alone with the      *)
(* service from its start, so that the books say what it wrote; one that   *)
(* has not begun, or whose money went back, has left no trace: neither the *)
(* books nor the panel have it, and no other renewal may bring it back as  *)
(* the state it has read.                                                  *)
(***************************************************************************)
Doing(t) == task[t].pc \in RenewPCs

Traceless(r) ==
    /\ row # r /\ r \notin applied
    /\ \A t \in Actors : Doing(t) => task[t].old # r /\ task[t].want # r

\* The numbers of renewals that have begun.
Numbered ==
    /\ \A t \in Actors : Doing(t) => Job(t) \in 1..renewed
    /\ \A r \in Renewals : r > renewed => Traceless(r) /\ r \notin paid /\ r \notin back

\* A renewal under way and undisturbed.
CourseOK(t) ==
    Doing(t) /\ upset[Job(t)] = {} =>
        /\ \A u \in Actors \ {t} : task[u].pc \notin OnService
        /\ task[t].old # Job(t) /\ Job(t) \notin back
        /\ task[t].pc = "debit" => Job(t) \notin paid
        /\ task[t].pc \in {"debit", "row", "refund"} => row # Job(t)
        /\ task[t].pc \in {"look", "patch"} => row = Job(t)
        /\ task[t].pc = "patch" => task[t].want = Job(t)
        /\ task[t].pc = "enable" <=> Job(t) \in applied

\* A renewal that is over and was not disturbed.
OverOK(r) ==
    r <= renewed /\ upset[r] = {} /\ (\A t \in Actors : Doing(t) => Job(t) # r) =>
        /\ r \in back => Traceless(r)
        /\ r \in paid /\ r \notin back => r \in applied

\* A deleted service stays deleted, from the panel first.
GoneOK ==
    /\ row = Gone => panel = Gone
    /\ \A t \in Actors : /\ task[t].pc = "erase" => panel = Gone
                         /\ Doing(t) => task[t].old # Gone /\ task[t].want # Gone

\* Where books and panel may differ while one renewal, undisturbed, is under way.
AgreeOK ==
    (\A r \in Renewals : upset[r] = {}) /\ panel # Gone =>
        /\ (\A t \in Actors : ~Doing(t)) => row = panel /\ (active => enabled)
        /\ \A t \in Actors :
              /\ task[t].pc \in {"debit", "row", "look", "patch", "restore"} =>
                     task[t].old = panel /\ (task[t].on => enabled)
              /\ task[t].pc \in {"debit", "row", "refund"} => row = panel /\ (active => enabled)
              /\ task[t].pc = "enable" => row = panel

Service ==
    /\ Numbered /\ GoneOK /\ AgreeOK
    /\ \A t \in Actors : CourseOK(t)
    /\ \A r \in Renewals : OverOK(r)

\* A renewal that goes on keeps what it has read.
LEMMA GotoRenew ==
    ASSUME TypeOK, NEW t \in Actors, NEW pc \in PCs, Goto(t, pc)
    PROVE  /\ task'[t].pc = pc /\ task'[t].job = task[t].job /\ task'[t].old = task[t].old
           /\ task'[t].on = task[t].on /\ task'[t].want = task[t].want
           /\ \A u \in Actors \ {t} : task'[u] = task[u]
<1>1. task \in [Actors -> TaskRec] /\ task[t] \in TaskRec
    BY DEF TypeOK, TaskRec
<1>2. task' = [task EXCEPT ![t] = [task[t] EXCEPT !.pc = pc]]
    BY <1>1 DEF Goto
<1> QED
    BY <1>1, <1>2 DEF TaskRec

\* A purchase leaves the service alone, and is no work on it.
LEMMA CreateIsApart ==
    ASSUME TypeOK, CreateStep
    PROVE  /\ UNCHANGED <<serviceVars, renewVars>>
           /\ \A u \in Actors \ {Handler} : task'[u] = task[u]
           /\ task[Handler].pc \in CreatePCs \cup {"idle"}
           /\ task'[Handler].pc \in CreatePCs \cup {"idle"}
<1>0. task \in [Actors -> TaskRec] /\ Handler \in Actors
    BY DEF TypeOK, TaskRec, Actors
<1>1. UNCHANGED <<serviceVars, renewVars>> /\ task[Handler].pc \in CreatePCs \cup {"idle"}
    BY DEF CreateStep, CreateDebit, CreateUnlisted, CreatePanel, CreatePanelFails, CreateStore,
       CreateStoreRaises,
       CreateRollback, CreateRefund, CreateRefundRaises, serviceOnly, At, CreatePCs
<1>2. CASE CreateDebit
    BY <1>0, <1>1, <1>2 DEF CreateDebit, Idle, CreatePCs
<1>3. CASE CreateUnlisted
    BY <1>0, <1>1, <1>3 DEF CreateUnlisted, At
<1>4. CASE ~CreateDebit /\ ~CreateUnlisted
    <2>1. Return(Handler) \/ \E pc \in CreatePCs : Goto(Handler, pc)
        BY <1>4 DEF CreateStep, CreatePanel, CreatePanelFails, CreateStore, CreateStoreRaises,
           CreateRollback, CreateRefund, CreateRefundRaises, CreatePCs
    <2> QED
        BY <1>0, <1>1, <2>1, GotoRenew, ReturnTask, IdleIsTask DEF CreatePCs, PCs
<1> QED
    BY <1>2, <1>3, <1>4

\* What one actor's step says of its own task: it starts a renewal, goes on
\* with one, or does something else.
Starts(t) ==
    /\ RenewStart(t)
    /\ task'[t] = [pc |-> "debit", job |-> renewed + 1, cost |-> price, old |-> row,
                   on |-> active, want |-> Original]

GoesOn(t) ==
    /\ Doing(t) /\ ServiceStep(t)
    /\ task'[t].job = task[t].job /\ task'[t].old = task[t].old /\ task'[t].on = task[t].on
    /\ \/ task'[t].want = task[t].want
       \/ RenewLook(t) /\ row # Gone /\ task'[t].want = row /\ task'[t].pc = "patch"

LEMMA RenewMoves ==
    ASSUME TypeOK, TasksOK, [Next]_vars, NEW t \in Actors, Doing(t)'
    PROVE  task'[t] = task[t] \/ Starts(t) \/ GoesOn(t)
<1>0. task \in [Actors -> TaskRec] /\ Handler \in Actors /\ Admin \in Actors
    BY DEF TypeOK, TaskRec, Actors
<1>1. ASSUME NEW u \in Actors, u # t, ServiceStep(u)
      PROVE  task'[t] = task[t]
    BY <1>1, ServiceApart DEF Apart
<1>2. CASE ServiceStep(t)
    <2>1. CASE RenewStart(t)
        BY <1>0, <2>1 DEF RenewStart, Starts
    <2>2. CASE RenewLook(t)
        <3>1. row # Gone /\ task' = [task EXCEPT ![t].pc = "patch", ![t].want = row]
            BY <1>0, <2>2, ReturnTask, IdleIsTask DEF RenewLook, Doing, RenewPCs
        <3> QED
            BY <1>0, <1>2, <2>2, <3>1 DEF GoesOn, Doing, RenewLook, At, RenewPCs, TaskRec
    <2>3. CASE RenewDebit(t) \/ RenewRow(t) \/ RenewPatch(t) \/ RenewPatchFails(t) \/ RenewRestore(t)
        <3>1. Doing(t) /\ (Return(t) \/ \E pc \in PCs : Goto(t, pc))
            BY <2>3 DEF Doing, RenewDebit, RenewRow, RenewPatch, RenewPatchFails, RenewRestore, At,
               RenewPCs, PCs
        <3>2. ~Return(t)
            BY <1>0, ReturnTask, IdleIsTask DEF Doing, RenewPCs
        <3> QED
            BY <1>2, <3>1, <3>2, GotoRenew DEF GoesOn
    <2>4. CASE \/ RenewRefund(t) \/ RenewEnable(t) \/ RenewRaises(t) \/ RenewUnlisted(t)
               \/ DeletePanelFails(t) \/ DeleteRow(t)
        <3>1. task'[t] = Idle
            BY <1>0, <2>4, ReturnTask
            DEF RenewRefund, RenewEnable, RenewRaises, RenewUnlisted, DeletePanelFails, DeleteRow
        <3> QED
            BY <3>1, IdleIsTask DEF Doing, RenewPCs
    <2>5. CASE DeleteStart(t)
        <3>1. task'[t].pc = "remove"
            BY <1>0, <2>5 DEF DeleteStart, Idle
        <3> QED
            BY <3>1 DEF Doing, RenewPCs
    <2>6. CASE DeletePanel(t)
        <3>1. task'[t].pc = "erase"
            BY <2>6, GotoRenew DEF DeletePanel, PCs
        <3> QED
            BY <3>1 DEF Doing, RenewPCs
    <2> QED
        BY <1>2, <2>1, <2>2, <2>3, <2>4, <2>5, <2>6 DEF ServiceStep
<1>3. CASE CreateStep
    BY <1>3, CreateIsApart DEF Doing, RenewPCs, CreatePCs
<1>4. CASE \E u \in Actors : Crash(u)
    <2>1. PICK u \in Actors : Return(u)
        BY <1>4 DEF Crash
    <2> QED
        BY <1>0, <2>1, ReturnTask, IdleIsTask DEF Doing, RenewPCs
<1>5. CASE RenewTimeout
    <2>1. Return(Admin)
        BY <1>5 DEF RenewTimeout
    <2> QED
        BY <1>0, <2>1, ReturnTask, IdleIsTask DEF Doing, RenewPCs
<1>6. CASE task' = task
    BY <1>6
<1> QED
    BY <1>1, <1>2, <1>3, <1>4, <1>5, <1>6, TaskWriters

\* Who writes the service, and where.
LEMMA ServiceWriters ==
    ASSUME [Next]_vars
    PROVE  /\ \/ row' = row
              \/ \E t \in Actors :
                    \/ At(t, "row") /\ row # Gone /\ row' = Job(t)
                    \/ At(t, "restore") /\ row # Gone /\ row' = task[t].old
                    \/ At(t, "erase") /\ row' = Gone
           /\ \/ panel' = panel /\ applied' = applied
              \/ panel' = Gone /\ applied' = applied
              \/ \E t \in Actors : /\ At(t, "patch") /\ panel # Gone /\ panel' = task[t].want
                                   /\ applied' = applied \cup {task[t].want}
           /\ \/ renewed' = renewed
              \/ renewed' = renewed + 1 /\ \E t \in Actors : RenewStart(t)
BY DEF At, Actors, Next, CreateStep, ServiceStep, OpenWizard, CreateDebit, CreateUnlisted, CreatePanel,
       CreatePanelFails, CreateStore, CreateStoreRaises, CreateRollback, CreateRefund,
       CreateRefundRaises, RenewStart, RenewDebit, RenewRow, RenewLook, RenewUnlisted, RenewPatch,
       RenewPatchFails, RenewRestore, RenewRefund, RenewEnable, RenewRaises, RenewTimeout,
       DeleteStart, DeletePanel, DeletePanelFails, DeleteRow, Crash, Reprice, RemoveServer,
       Applies, vars,
       createVars, serviceVars, renewVars, counters, serviceOnly, renewOnly, deleteOnly

\* A renewal that has left no trace, and is not the one being written, leaves none.
LEMMA TracelessStays ==
    ASSUME TypeOK, TasksOK, [Next]_vars, NEW r \in Renewals, Traceless(r), Gone # r,
           \A t \in Actors : Doing(t) => Job(t) # r
    PROVE  Traceless(r)'
<1>1. row' # r
    BY ServiceWriters DEF Traceless, At, Doing, RenewPCs
<1>2. r \notin applied'
    BY ServiceWriters DEF Traceless, At, Doing, RenewPCs
<1>3. ASSUME NEW t \in Actors, Doing(t)'
      PROVE  task'[t].old # r /\ task'[t].want # r
    <2>1. CASE task'[t] = task[t]
        BY <1>3, <2>1 DEF Traceless, Doing
    <2>2. CASE Starts(t)
        <3>1. Original # r
            BY PurchaseAssumption DEF Original, Renewals
        <3> QED
            BY <2>2, <3>1 DEF Starts, Traceless
    <2>3. CASE GoesOn(t)
        BY <2>3 DEF GoesOn, Traceless
    <2> QED
        BY <1>3, <2>1, <2>2, <2>3, RenewMoves
<1> QED
    BY <1>1, <1>2, <1>3 DEF Traceless

LEMMA NumberedStays ==
    ASSUME TypeOK, TasksOK, Numbered, [Next]_vars
    PROVE  Numbered'
<1>0. renewed \in Nat /\ Renewals \subseteq Nat /\ renewed' \in {renewed, renewed + 1}
    BY ServiceWriters, PurchaseAssumption DEF TypeOK, Renewals
<1>1. ASSUME NEW t \in Actors, Doing(t)'
      PROVE  Job(t)' \in 1..renewed'
    <2>1. CASE task'[t] = task[t] \/ GoesOn(t)
        <3>1. Doing(t) /\ task'[t].job = task[t].job
            BY <1>1, <2>1 DEF Doing, GoesOn
        <3>2. task[t].job \in 1..renewed
            BY <3>1 DEF Numbered, Job
        <3> QED
            BY <1>0, <3>1, <3>2 DEF Job
    <2>2. CASE Starts(t)
        BY <1>0, <2>2 DEF Starts, RenewStart, Job
    <2> QED
        BY <1>1, <2>1, <2>2, RenewMoves
<1>2. ASSUME NEW r \in Renewals, r > renewed'
      PROVE  Traceless(r)' /\ r \notin paid' /\ r \notin back'
    <2>1. r > renewed /\ Traceless(r) /\ r \notin paid /\ r \notin back
        BY <1>0, <1>2 DEF Numbered
    <2>2. \A t \in Actors : Doing(t) => Job(t) # r
        BY <1>0, <2>1 DEF Numbered
    <2>3. Gone # r
        BY PurchaseAssumption
    <2>4. r \notin paid' /\ r \notin back'
        BY <2>1, <2>2, RenewWriters DEF At, Doing, RenewPCs
    <2> QED
        BY <2>1, <2>2, <2>3, <2>4, TracelessStays
<1> QED
    BY <1>1, <1>2 DEF Numbered

\* Two actors that work on the service at once disturb the renewal of each.
LEMMA MeetDisturbs ==
    ASSUME TypeOK, TasksOK, NEW t \in Actors, NEW u \in Actors \ {t}, NEW j, Meet(t, j),
           task[u].pc \in OnService
    PROVE  /\ j \in Renewals => upset'[j] # {}
           /\ Doing(u) => upset'[Job(u)] # {}
<1>1. upset \in [Ops \cup Renewals -> SUBSET Causes]
    BY DEF TypeOK
<1>2. Others(t) # {} /\ u \in Others(t)
    BY DEF Others
<1>3. Doing(u) => Job(u) \in Renewals
    BY DEF TasksOK, TaskOK, Doing, Job
<1> QED
    BY <1>1, <1>2, <1>3 DEF Meet

\* The task of a renewal under way changes with every step of it.
LEMMA ServiceStepMoves ==
    ASSUME TypeOK, NEW t \in Actors, ServiceStep(t)
    PROVE  task'[t] # task[t]
<1>0. task \in [Actors -> TaskRec]
    BY DEF TypeOK, TaskRec
<1>1. CASE RenewStart(t)
    BY <1>0, <1>1 DEF RenewStart, At
<1>2. CASE DeleteStart(t)
    <2>1. task'[t].pc = "remove"
        BY <1>0, <1>2 DEF DeleteStart, Idle
    <2> QED
        BY <1>2, <2>1 DEF DeleteStart, At
<1>3. CASE RenewLook(t)
    <2>1. CASE Return(t)
        BY <1>0, <1>3, <2>1, ReturnTask, IdleIsTask DEF RenewLook, At
    <2>2. CASE task' = [task EXCEPT ![t].pc = "patch", ![t].want = row]
        <3>1. task'[t].pc = "patch"
            BY <1>0, <2>2 DEF TaskRec
        <3> QED
            BY <1>3, <3>1 DEF RenewLook, At
    <2> QED
        BY <1>3, <2>1, <2>2 DEF RenewLook
<1>4. CASE ~RenewStart(t) /\ ~DeleteStart(t) /\ ~RenewLook(t)
    <2>1. task[t].pc # "idle" /\ (Return(t) \/ \E pc \in PCs : Goto(t, pc) /\ task[t].pc # pc)
        BY <1>4 DEF ServiceStep, RenewDebit, RenewRow, RenewPatch, RenewPatchFails, RenewRestore,
           RenewRefund, RenewEnable, RenewRaises, RenewUnlisted, DeletePanel, DeletePanelFails,
           DeleteRow, At, PCs
    <2> QED
        BY <1>0, <2>1, ReturnTask, IdleIsTask, GotoRenew
<1> QED
    BY <1>1, <1>2, <1>3, <1>4

\* While one works on the service alone and does nothing, nothing is done to it;
\* whoever joins in disturbs the renewal.
LEMMA LeftAlone ==
    ASSUME TypeOK, TasksOK, [Next]_vars, NEW t \in Actors, Doing(t), task'[t] = task[t],
           \A u \in Actors \ {t} : task[u].pc \notin OnService,
           upset'[Job(t)] = {}
    PROVE  /\ UNCHANGED <<serviceVars, renewVars>>
           /\ \A u \in Actors \ {t} : task'[u].pc \notin OnService
<1>0. task \in [Actors -> TaskRec] /\ RenewPCs \subseteq OnService /\ Handler \in Actors /\ Admin \in Actors
    BY DEF TypeOK, TaskRec, RenewPCs, OnService, Actors
<1>1. CASE \E u \in Actors : ServiceStep(u)
    <2>1. PICK u \in Actors : ServiceStep(u)
        BY <1>1
    <2>2. u # t /\ task[u].pc \notin OnService
        BY <2>1, ServiceStepMoves
    <2>3. RenewStart(u) \/ DeleteStart(u)
        BY <2>1, <2>2 DEF ServiceStep, RenewDebit, RenewRow, RenewLook, RenewUnlisted, RenewPatch,
           RenewPatchFails,
           RenewRestore, RenewRefund, RenewEnable, RenewRaises, DeletePanel, DeletePanelFails,
           DeleteRow, At, OnService
    <2>4. \E j : Meet(u, j)
        BY <2>3 DEF RenewStart, DeleteStart
    <2>5. t \in Actors \ {u} /\ task[t].pc \in OnService
        BY <1>0, <2>2 DEF Doing
    <2>6. upset'[Job(t)] # {}
        BY <2>4, <2>5, MeetDisturbs
    <2> QED
        BY <2>6
<1>2. CASE \E u \in Actors : Crash(u)
    <2>1. PICK u \in Actors : Crash(u)
        BY <1>2
    <2>2. \A v \in Actors : task'[v] = task[v] \/ task'[v].pc = "idle"
        BY <1>0, <2>1, ReturnTask, IdleIsTask DEF Crash
    <2> QED
        BY <1>0, <2>1, <2>2 DEF Crash, serviceOnly, OnService
<1>3. CASE RenewTimeout
    <2>1. task'[Admin].pc = "idle" /\ task[Admin].pc \in OnService
        BY <1>0, <1>3, ReturnTask, IdleIsTask DEF RenewTimeout, OnService
    <2>2. Admin = t
        BY <1>0, <2>1
    <2> QED
        BY <2>1, <2>2 DEF OnService
<1>4. CASE CreateStep
    BY <1>4, CreateIsApart DEF OnService, CreatePCs
<1>5. CASE \/ \E o \in Ops : OpenWizard(o)
           \/ \E v \in Prices : Reprice(v)
           \/ RemoveServer \/ UNCHANGED vars
    BY <1>5 DEF OpenWizard, Reprice, RemoveServer, vars, serviceOnly
<1> QED
    BY <1>1, <1>2, <1>3, <1>4, <1>5 DEF Next

\* A renewal under way keeps its course, one step at a time.
LEMMA CourseStays ==
    ASSUME TypeOK, TasksOK, Service, [Next]_vars, NEW t \in Actors
    PROVE  CourseOK(t)'
<1> SUFFICES ASSUME Doing(t)', upset'[task'[t].job] = {}
             PROVE  CourseOK(t)'
    BY DEF CourseOK, Job
<1>0. /\ task \in [Actors -> TaskRec] /\ renewed \in Nat /\ Renewals = 1..MaxRenewals
      /\ MaxRenewals \in Nat
      /\ Gone \notin Renewals /\ Original \notin Renewals
    BY PurchaseAssumption DEF TypeOK, TaskRec, Renewals, Original
<1>1. CASE task'[t] = task[t]
    <2>1. PICK r \in Renewals : r = task[t].job /\ r = task'[t].job
        BY <1>1 DEF Doing, TasksOK, TaskOK
    <2>2. Doing(t) /\ upset[r] = {} /\ upset'[r] = {} /\ CourseOK(t)
        BY <1>1, <2>1, UpsetSteps DEF Doing, Service
    <2>3. /\ UNCHANGED <<serviceVars, renewVars>>
          /\ \A u \in Actors \ {t} : task'[u].pc \notin OnService
        BY <1>1, <2>1, <2>2, LeftAlone DEF CourseOK, Job
    <2> QED
        BY <1>1, <2>1, <2>2, <2>3 DEF CourseOK, Job, serviceVars, renewVars, Doing
<1>2. CASE Starts(t)
    <2>1. PICK r \in Renewals : r = renewed + 1
        BY <1>0, <1>2 DEF Starts, RenewStart
    <2>2. task'[t].job = r /\ task'[t].pc = "debit" /\ task'[t].old = row
        BY <1>2, <2>1 DEF Starts
    <2>3. Traceless(r) /\ r \notin paid /\ r \notin back
        BY <1>0, <2>1 DEF Service, Numbered
    <2>4. \A u \in Actors \ {t} : task'[u] = task[u] /\ task[u].pc \notin OnService
        BY <1>0, <1>2, <2>1, <2>2, MeetDisturbs DEF Starts, RenewStart
    <2>5. UNCHANGED <<row, applied, paid, back>>
        BY <1>2 DEF Starts, RenewStart, serviceVars, renewVars
    <2> QED
        BY <2>2, <2>3, <2>4, <2>5 DEF CourseOK, Job, Traceless
<1>3. CASE GoesOn(t)
    <2>1. PICK r \in Renewals : r = task[t].job /\ r = task'[t].job
        BY <1>3 DEF GoesOn, Doing, TasksOK, TaskOK
    <2>2. Doing(t) /\ upset[r] = {} /\ upset'[r] = {} /\ CourseOK(t) /\ task'[t].old = task[t].old
        BY <1>3, <2>1, UpsetSteps DEF GoesOn, Service
    <2>3. \A u \in Actors \ {t} : task'[u] = task[u]
        BY <1>3, ServiceApart DEF GoesOn, Apart
    <2>4. /\ \A u \in Actors \ {t} : task'[u].pc \notin OnService
          /\ task'[t].old # r /\ r \notin back
          /\ task[t].pc = "debit" => r \notin paid
          /\ task[t].pc \in {"debit", "row", "refund"} => row # r
          /\ task[t].pc \in {"look", "patch"} => row = r
          /\ task[t].pc = "patch" => task[t].want = r
          /\ task[t].pc = "enable" <=> r \in applied
        BY <2>1, <2>2, <2>3 DEF CourseOK, Job
    <2>5. SUFFICES /\ r \notin back'
                   /\ task'[t].pc = "debit" => r \notin paid'
                   /\ task'[t].pc \in {"debit", "row", "refund"} => row' # r
                   /\ task'[t].pc \in {"look", "patch"} => row' = r
                   /\ task'[t].pc = "patch" => task'[t].want = r
                   /\ task'[t].pc = "enable" <=> r \in applied'
        BY <2>1, <2>4 DEF CourseOK, Job
    <2>6. CASE RenewDebit(t)
        <3>1. task'[t].pc = "row"
            BY <1>0, <2>6, GotoRenew, ReturnTask, IdleIsTask DEF RenewDebit, PCs, Doing, RenewPCs
        <3> QED
            BY <2>4, <2>6, <3>1 DEF RenewDebit, At, serviceVars
    <2>7. CASE RenewRow(t)
        <3>1. \/ row = Gone /\ row' = Gone /\ task'[t].pc = "refund"
              \/ row' = r /\ task'[t].pc = "look"
            BY <2>1, <2>7, GotoRenew DEF RenewRow, PCs, Job
        <3> QED
            BY <1>0, <2>4, <2>7, <3>1 DEF RenewRow, At, renewVars
    <2>8. CASE RenewLook(t)
        <3>1. task'[t].pc = "patch" /\ task'[t].want = row
            <4>1. task' = [task EXCEPT ![t].pc = "patch", ![t].want = row]
                BY <1>0, <2>8, ReturnTask, IdleIsTask DEF RenewLook, Doing, RenewPCs
            <4> QED
                BY <1>0, <4>1 DEF TaskRec
        <3> QED
            BY <2>4, <2>8, <3>1 DEF RenewLook, At, serviceVars, renewVars
    <2>9. CASE RenewPatch(t)
        <3>1. task'[t].pc = "enable"
            BY <2>9, GotoRenew DEF RenewPatch, PCs
        <3> QED
            BY <2>4, <2>9, <3>1 DEF RenewPatch, Applies, At
    <2>10. CASE RenewPatchFails(t)
        <3>1. task'[t].pc = "restore"
            BY <2>10, GotoRenew DEF RenewPatchFails, PCs
        <3>2. ~Upset(Job(t), "lost")
            <4>1. upset \in [Ops \cup Renewals -> SUBSET Causes] /\ "lost" \in Causes
                BY DEF TypeOK, Causes
            <4> QED
                BY <2>1, <2>2, <4>1, UpsetGrows DEF Job
        <3> QED
            BY <2>4, <2>10, <3>1, <3>2 DEF RenewPatchFails, At
    <2>11. CASE RenewRestore(t)
        <3>1. task'[t].pc = "refund" /\ (row' = Gone \/ row' = task[t].old)
            BY <2>11, GotoRenew DEF RenewRestore, PCs
        <3> QED
            BY <1>0, <2>2, <2>4, <2>11, <3>1 DEF RenewRestore, At, renewVars
    <2>12. CASE RenewStart(t) \/ RenewRefund(t) \/ RenewEnable(t) \/ RenewRaises(t)
                  \/ RenewUnlisted(t) \/ DeleteStart(t) \/ DeletePanel(t) \/ DeletePanelFails(t) \/ DeleteRow(t)
        <3>1. \/ ~Doing(t)
              \/ Return(t)
            BY <2>12 DEF RenewStart, RenewRefund, RenewEnable, RenewRaises, RenewUnlisted, DeleteStart,
               DeletePanel, DeletePanelFails, DeleteRow, At, Doing, RenewPCs
        <3> QED
            BY <1>0, <2>2, <3>1, ReturnTask, IdleIsTask DEF Doing, RenewPCs
    <2> QED
        BY <1>3, <2>6, <2>7, <2>8, <2>9, <2>10, <2>11, <2>12 DEF GoesOn, ServiceStep
<1> QED
    BY <1>1, <1>2, <1>3, RenewMoves

\* What ends a renewal without a complaint: too little money, the money given
\* back, or the panel's answer.
LEMMA RenewalEnds ==
    ASSUME TypeOK, TasksOK, [Next]_vars, NEW t \in Actors, Doing(t), ~Doing(t)',
           upset'[Job(t)] = {}
    PROVE  RenewDebit(t) \/ RenewRefund(t) \/ RenewEnable(t)
<1>0. /\ task \in [Actors -> TaskRec] /\ Job(t) \in Renewals /\ Job(t) \in Ops \cup Renewals
      /\ upset \in [Ops \cup Renewals -> SUBSET Causes] /\ Handler \in Actors /\ Admin \in Actors
    BY DEF TypeOK, TaskRec, TasksOK, TaskOK, Doing, Job, Actors
<1>1. ~RenewRaises(t) /\ ~RenewUnlisted(t) /\ ~(t = Admin /\ RenewTimeout)
    BY <1>0, UpsetGrows DEF RenewRaises, RenewUnlisted, RenewTimeout, Causes
<1>2. ~Crash(t)
    BY <1>0 DEF Crash
<1>3. task'[t] # task[t]
    BY DEF Doing
<1>4. ~CreateStep
    BY <1>3, CreateIsApart DEF Doing, RenewPCs, CreatePCs
<1>5. \A u \in Actors \ {t} : ~ServiceStep(u) /\ ~Crash(u) /\ ~(u = Admin /\ RenewTimeout)
    BY <1>0, <1>3, ServiceApart, ReturnTask DEF Apart, Crash, RenewTimeout
<1>6. ServiceStep(t)
    BY <1>0, <1>1, <1>2, <1>3, <1>4, <1>5, TaskWriters
<1>7. CASE RenewRow(t) \/ RenewPatch(t) \/ RenewPatchFails(t) \/ RenewRestore(t)
    <2>1. \E pc \in PCs : pc \in RenewPCs /\ Goto(t, pc)
        BY <1>7 DEF RenewRow, RenewPatch, RenewPatchFails, RenewRestore, RenewPCs, PCs
    <2> QED
        BY <2>1, GotoRenew DEF Doing
<1>8. CASE RenewLook(t)
    <2>1. CASE Return(t) /\ Upset(Job(t), "deleted")
        BY <1>0, <2>1, UpsetGrows DEF Causes
    <2>2. CASE task' = [task EXCEPT ![t].pc = "patch", ![t].want = row]
        <3>1. task'[t].pc = "patch"
            BY <1>0, <2>2 DEF TaskRec
        <3> QED
            BY <3>1 DEF Doing, RenewPCs
    <2> QED
        BY <1>8, <2>1, <2>2 DEF RenewLook
<1>9. ~RenewStart(t) /\ ~DeleteStart(t) /\ ~DeletePanel(t) /\ ~DeletePanelFails(t) /\ ~DeleteRow(t)
    BY DEF Doing, RenewPCs, RenewStart, DeleteStart, DeletePanel, DeletePanelFails, DeleteRow, At
<1> QED
    BY <1>1, <1>6, <1>7, <1>8, <1>9 DEF ServiceStep

\* A renewal that is over stays as it ended.
LEMMA OverStays ==
    ASSUME TypeOK, TasksOK, Service, [Next]_vars, NEW r \in Renewals
    PROVE  OverOK(r)'
<1> SUFFICES ASSUME r <= renewed', upset'[r] = {}, \A t \in Actors : Doing(t)' => Job(t)' # r
             PROVE  (r \in back' => Traceless(r)') /\ (r \in paid' /\ r \notin back' => r \in applied')
    BY DEF OverOK
<1>0. /\ renewed \in Nat /\ r \in Nat /\ upset[r] = {} /\ Gone # r /\ Original # r
      /\ task \in [Actors -> TaskRec]
    BY UpsetSteps, PurchaseAssumption DEF TypeOK, Renewals, Original, TaskRec
<1>1. r <= renewed
    <2>1. ASSUME NEW t \in Actors, RenewStart(t), r = renewed + 1
          PROVE  FALSE
        <3>1. task'[t].job = r /\ task'[t].pc = "debit"
            BY <1>0, <2>1 DEF RenewStart
        <3> QED
            BY <3>1 DEF Doing, RenewPCs, Job
    <2> QED
        BY <1>0, <2>1, ServiceWriters
<1>2. applied \subseteq applied'
    BY ServiceWriters
<1>3. CASE \A t \in Actors : Doing(t) => Job(t) # r
    <2>1. (r \in back => Traceless(r)) /\ (r \in paid /\ r \notin back => r \in applied)
        BY <1>0, <1>1, <1>3 DEF Service, OverOK
    <2>2. (r \in paid' <=> r \in paid) /\ (r \in back' <=> r \in back)
        BY <1>3, RenewWriters DEF At, Doing, RenewPCs
    <2> QED
        BY <1>0, <1>2, <1>3, <2>1, <2>2, TracelessStays
<1>4. CASE \E t \in Actors : Doing(t) /\ Job(t) = r
    <2>1. PICK t \in Actors : Doing(t) /\ Job(t) = r
        BY <1>4
    <2>2. ~Doing(t)'
        <3>1. CASE Doing(t)' /\ (task'[t] = task[t] \/ GoesOn(t))
            BY <2>1, <3>1 DEF GoesOn, Job
        <3>2. CASE Doing(t)' /\ Starts(t)
            BY <2>1, <3>2 DEF Starts, RenewStart, At, Doing, RenewPCs
        <3> QED
            BY <3>1, <3>2, RenewMoves
    <2>3. RenewDebit(t) \/ RenewRefund(t) \/ RenewEnable(t)
        BY <2>1, <2>2, RenewalEnds
    <2>4. /\ \A u \in Actors \ {t} : task[u].pc \notin OnService /\ task'[u] = task[u]
          /\ task[t].old # r /\ r \notin back
          /\ task[t].pc = "debit" => r \notin paid
          /\ task[t].pc \in {"debit", "row", "refund"} => row # r
          /\ task[t].pc = "enable" <=> r \in applied
        BY <1>0, <2>1, <2>3, ServiceApart DEF Service, CourseOK, ServiceStep, Apart
    <2>5. CASE RenewDebit(t)
        <3>1. UNCHANGED paid
            <4>1. ~Goto(t, "row")
                BY <2>2, GotoRenew DEF PCs, Doing, RenewPCs
            <4> QED
                BY <2>5, <4>1 DEF RenewDebit
        <3> QED
            BY <2>4, <2>5, <3>1 DEF RenewDebit, At
    <2>6. CASE RenewRefund(t)
        <3>1. row' = row /\ applied' = applied /\ task[t].pc = "refund"
            BY <2>6 DEF RenewRefund, serviceVars, At
        <3>2. r \in back'
            BY <2>1, <2>6 DEF RenewRefund
        <3>3. \A u \in Actors : ~Doing(u)'
            BY <2>2, <2>4 DEF Doing, RenewPCs, OnService
        <3> QED
            BY <2>4, <3>1, <3>2, <3>3 DEF Traceless
    <2>7. CASE RenewEnable(t)
        BY <2>4, <2>7 DEF RenewEnable, At, renewVars
    <2> QED
        BY <2>3, <2>5, <2>6, <2>7
<1> QED
    BY <1>3, <1>4

\* The row is erased by whoever has deleted the user.
LEMMA EraseAfterPanel ==
    ASSUME TypeOK, TasksOK, [Next]_vars, NEW t \in Actors, task'[t].pc = "erase",
           task[t].pc # "erase"
    PROVE  DeletePanel(t)
<1>0. task \in [Actors -> TaskRec] /\ Handler \in Actors /\ Admin \in Actors
    BY DEF TypeOK, TaskRec, Actors
<1>1. ASSUME NEW u \in Actors, Return(u)
      PROVE  FALSE
    BY <1>0, <1>1, ReturnTask, IdleIsTask
<1>2. ASSUME NEW u \in Actors, NEW pc \in PCs, pc # "erase", Goto(u, pc)
      PROVE  FALSE
    BY <1>2, GotoRenew
<1>3. ~CreateStep
    BY CreateIsApart DEF CreatePCs
<1>4. ASSUME NEW u \in Actors, ServiceStep(u)
      PROVE  u = t
    BY <1>4, ServiceApart DEF Apart
<1>5. ServiceStep(t)
    BY <1>0, <1>1, <1>3, <1>4, TaskWriters DEF Crash, RenewTimeout
<1>6. ~RenewStart(t) /\ ~DeleteStart(t)
    <2>1. RenewStart(t) => task'[t].pc = "debit"
        BY <1>0 DEF RenewStart
    <2>2. DeleteStart(t) => task'[t].pc = "remove"
        BY <1>0 DEF DeleteStart, Idle
    <2> QED
        BY <2>1, <2>2
<1>7. ~RenewLook(t)
    <2>1. CASE task' = [task EXCEPT ![t].pc = "patch", ![t].want = row]
        <3>1. task'[t].pc = "patch"
            BY <1>0, <2>1 DEF TaskRec
        <3> QED
            BY <3>1
    <2> QED
        BY <1>1, <2>1 DEF RenewLook
<1> QED
    BY <1>1, <1>2, <1>5, <1>6, <1>7
    DEF ServiceStep, RenewDebit, RenewRow, RenewPatch, RenewPatchFails, RenewRestore, RenewRefund,
        RenewEnable, RenewRaises, RenewUnlisted, DeletePanelFails, DeleteRow, PCs

\* A service that is gone from the books is gone from the panel.
LEMMA GoneStays ==
    ASSUME TypeOK, TasksOK, Service, [Next]_vars
    PROVE  GoneOK'
<1>0. /\ task \in [Actors -> TaskRec] /\ Gone \notin Renewals /\ Gone # Original
    BY PurchaseAssumption DEF TypeOK, TaskRec
<1>1. panel = Gone => panel' = Gone
    BY ServiceWriters
<1>2. row' = Gone => panel' = Gone
    <2>1. \A t \in Actors : /\ At(t, "row") => Job(t) # Gone
                            /\ At(t, "restore") => task[t].old # Gone
        BY <1>0 DEF TasksOK, TaskOK, At, Job, RenewPCs, Service, GoneOK, Doing
    <2> QED
        BY <1>1, <2>1, ServiceWriters DEF Service, GoneOK, At
<1>3. ASSUME NEW t \in Actors, Doing(t)'
      PROVE  task'[t].old # Gone /\ task'[t].want # Gone
    <2>1. CASE task'[t] = task[t] \/ GoesOn(t)
        BY <1>3, <2>1 DEF GoesOn, Doing, Service, GoneOK
    <2>2. CASE Starts(t)
        BY <1>0, <2>2 DEF Starts, RenewStart
    <2> QED
        BY <1>3, <2>1, <2>2, RenewMoves
<1>4. ASSUME NEW t \in Actors, task'[t].pc = "erase"
      PROVE  panel' = Gone
    <2>1. CASE task[t].pc = "erase"
        BY <1>1, <2>1 DEF Service, GoneOK
    <2>2. CASE task[t].pc # "erase"
        <3>1. DeletePanel(t)
            BY <1>0, <1>4, <2>2, EraseAfterPanel
        <3> QED
            BY <3>1 DEF DeletePanel
    <2> QED
        BY <2>1, <2>2
<1> QED
    BY <1>2, <1>3, <1>4 DEF GoneOK

\* A step that writes nothing of the service, and is none of a renewal.
LEMMA AgreeSame ==
    ASSUME TypeOK, Service, UNCHANGED serviceVars, \A r \in Renewals : upset[r] \subseteq upset'[r],
           \A t \in Actors : task'[t] = task[t] \/ (~Doing(t) /\ ~Doing(t)')
    PROVE  AgreeOK'
<1> SUFFICES ASSUME \A r \in Renewals : upset'[r] = {}, panel' # Gone
             PROVE  AgreeOK'
    BY DEF AgreeOK
<1>1. AgreeOK /\ (\A r \in Renewals : upset[r] = {}) /\ panel # Gone
    BY DEF Service, serviceVars
<1>2. \A t \in Actors : Doing(t)' <=> Doing(t)
    BY DEF Doing
<1> QED
    BY <1>1, <1>2 DEF AgreeOK, serviceVars, Doing, RenewPCs

\* A step of a renewal that nothing disturbs.
LEMMA AgreeRenew ==
    ASSUME TypeOK, TasksOK, Service, [Next]_vars, NEW t \in Actors, Doing(t), ServiceStep(t),
           \A r \in Renewals : upset'[r] = {}, panel' # Gone
    PROVE  AgreeOK'
<1>0. /\ task \in [Actors -> TaskRec] /\ active \in BOOLEAN /\ enabled \in BOOLEAN
      /\ upset \in [Ops \cup Renewals -> SUBSET Causes]
    BY DEF TypeOK, TaskRec
<1>1. PICK r \in Renewals : r = task[t].job
    BY DEF TasksOK, TaskOK, Doing
<1>2. (\A x \in Renewals : upset[x] = {}) /\ panel # Gone /\ row # Gone
    BY UpsetSteps, ServiceWriters DEF Service, GoneOK
<1>3. /\ \A u \in Actors \ {t} : task[u].pc \notin OnService /\ task'[u] = task[u]
      /\ task[t].pc \in {"look", "patch"} => row = r
      /\ task[t].pc = "patch" => task[t].want = r
    BY <1>1, <1>2, ServiceApart DEF Service, CourseOK, Job, Apart
<1>4. /\ task[t].pc \in {"debit", "row", "look", "patch", "restore"} =>
             task[t].old = panel /\ (task[t].on => enabled)
      /\ task[t].pc \in {"debit", "row", "refund"} => row = panel /\ (active => enabled)
      /\ task[t].pc = "enable" => row = panel
    BY <1>2 DEF Service, AgreeOK
<1>5. \A u \in Actors \ {t} : /\ ~Doing(u)'
                              /\ task'[u].pc \notin {"debit", "row", "look", "patch", "restore",
                                                     "refund", "enable"}
    BY <1>3 DEF Doing, RenewPCs, OnService
<1>6. SUFFICES /\ ~Doing(t)' => row' = panel' /\ (active' => enabled')
               /\ task'[t].pc \in {"debit", "row", "look", "patch", "restore"} =>
                      task'[t].old = panel' /\ (task'[t].on => enabled')
               /\ task'[t].pc \in {"debit", "row", "refund"} => row' = panel' /\ (active' => enabled')
               /\ task'[t].pc = "enable" => row' = panel'
    BY <1>5 DEF AgreeOK
<1>7. CASE RenewDebit(t)
    <2>1. \/ task'[t] = Idle
          \/ task'[t].pc = "row" /\ task'[t].old = task[t].old /\ task'[t].on = task[t].on
        BY <1>0, <1>7, GotoRenew, ReturnTask DEF RenewDebit, PCs
    <2> QED
        BY <1>4, <1>7, <2>1, IdleIsTask DEF RenewDebit, At, serviceVars, Doing, RenewPCs
<1>8. CASE RenewRow(t)
    <2>1. task'[t].pc = "look" /\ task'[t].old = task[t].old /\ task'[t].on = task[t].on
        BY <1>2, <1>8, GotoRenew DEF RenewRow, PCs
    <2> QED
        BY <1>4, <1>8, <2>1 DEF RenewRow, At, Doing, RenewPCs
<1>9. CASE RenewLook(t)
    <2>1. task' = [task EXCEPT ![t].pc = "patch", ![t].want = row]
        BY <1>2, <1>9 DEF RenewLook
    <2>2. task'[t].pc = "patch" /\ task'[t].old = task[t].old /\ task'[t].on = task[t].on
        BY <1>0, <2>1 DEF TaskRec
    <2> QED
        BY <1>4, <1>9, <2>2 DEF RenewLook, At, Doing, RenewPCs, serviceVars
<1>10. CASE RenewPatch(t)
    <2>1. task'[t].pc = "enable" /\ panel' = r /\ row' = r
        BY <1>3, <1>10, GotoRenew DEF RenewPatch, Applies, At, PCs
    <2> QED
        BY <2>1 DEF Doing, RenewPCs
<1>11. CASE RenewPatchFails(t)
    <2>1. task'[t].pc = "restore" /\ task'[t].old = task[t].old /\ task'[t].on = task[t].on
        BY <1>11, GotoRenew DEF RenewPatchFails, PCs
    <2>2. ~Upset(Job(t), "lost")
        BY <1>0, <1>1, UpsetGrows DEF Job, Causes
    <2> QED
        BY <1>4, <1>11, <2>1, <2>2 DEF RenewPatchFails, At, Doing, RenewPCs
<1>12. CASE RenewRestore(t)
    <2>1. task'[t].pc = "refund" /\ row' = task[t].old /\ active' = task[t].on
        BY <1>2, <1>12, GotoRenew DEF RenewRestore, PCs
    <2>2. panel' = panel /\ enabled' = enabled /\ task[t].old = panel /\ (task[t].on => enabled)
        BY <1>4, <1>12 DEF RenewRestore, At
    <2> QED
        BY <2>1, <2>2 DEF Doing, RenewPCs
<1>13. CASE RenewRefund(t)
    <2>1. task'[t] = Idle
        BY <1>0, <1>13, ReturnTask DEF RenewRefund
    <2> QED
        BY <1>4, <1>13, <2>1, IdleIsTask DEF RenewRefund, At, serviceVars
<1>14. CASE RenewEnable(t)
    <2>1. task'[t] = Idle
        BY <1>0, <1>14, ReturnTask DEF RenewEnable
    <2>2. row' = panel' /\ (active' => enabled')
        BY <1>4, <1>14 DEF RenewEnable, At
    <2> QED
        BY <2>1, <2>2, IdleIsTask
<1>15. ~RenewRaises(t) /\ ~RenewUnlisted(t)
    BY <1>0, <1>1, UpsetGrows DEF RenewRaises, RenewUnlisted, Job, Causes
<1> QED
    BY <1>7, <1>8, <1>9, <1>10, <1>11, <1>12, <1>13, <1>14, <1>15
    DEF ServiceStep, Doing, RenewPCs, RenewStart, DeleteStart, DeletePanel, DeletePanelFails,
        DeleteRow, At

LEMMA AgreeStays ==
    ASSUME TypeOK, TasksOK, Service, [Next]_vars
    PROVE  AgreeOK'
<1> SUFFICES ASSUME \A r \in Renewals : upset'[r] = {}, panel' # Gone
             PROVE  AgreeOK'
    BY DEF AgreeOK
<1>0. /\ task \in [Actors -> TaskRec] /\ Handler \in Actors /\ Admin \in Actors
      /\ upset \in [Ops \cup Renewals -> SUBSET Causes]
      /\ \A r \in Renewals : upset[r] \subseteq upset'[r]
      /\ panel # Gone /\ \A t \in Actors : task[t].pc # "erase"
    BY UpsetSteps, ServiceWriters DEF TypeOK, TaskRec, Actors, Service, GoneOK
<1>1. CASE \E t \in Actors : Doing(t) /\ ServiceStep(t)
    BY <1>1, AgreeRenew
<1>2. CASE \E t \in Actors : RenewStart(t)
    <2>1. PICK t \in Actors : RenewStart(t)
        BY <1>2
    <2>2. renewed + 1 \in Renewals
        BY <2>1, PurchaseAssumption DEF RenewStart, TypeOK, Renewals
    <2>3. \A u \in Actors \ {t} : task'[u] = task[u] /\ task[u].pc \notin OnService
        BY <1>0, <2>1, <2>2, MeetDisturbs DEF RenewStart
    <2>4. \A u \in Actors : ~Doing(u)
        BY <2>1, <2>3 DEF RenewStart, At, Doing, RenewPCs, OnService
    <2>5. row = panel /\ (active => enabled)
        BY <1>0, <2>4 DEF Service, AgreeOK
    <2>6. task'[t].pc = "debit" /\ task'[t].old = row /\ task'[t].on = active
        BY <1>0, <2>1 DEF RenewStart
    <2>7. UNCHANGED serviceVars
        BY <2>1 DEF RenewStart
    <2>8. \A u \in Actors \ {t} :
              task'[u].pc \notin {"debit", "row", "look", "patch", "restore", "refund", "enable"}
        BY <2>3 DEF OnService
    <2> QED
        BY <2>5, <2>6, <2>7, <2>8 DEF AgreeOK, serviceVars, Doing, RenewPCs
<1>3. CASE \E t \in Actors : ServiceStep(t) /\ ~Doing(t) /\ ~RenewStart(t)
    <2>1. PICK t \in Actors : ServiceStep(t) /\ ~Doing(t) /\ ~RenewStart(t)
        BY <1>3
    <2>2. DeleteStart(t) \/ DeletePanelFails(t)
        BY <1>0, <2>1 DEF ServiceStep, Doing, RenewPCs, RenewDebit, RenewRow, RenewLook,
           RenewUnlisted, RenewPatch,
           RenewPatchFails, RenewRestore, RenewRefund, RenewEnable, RenewRaises, DeletePanel,
           DeleteRow, At
    <2>3. UNCHANGED serviceVars
        BY <2>2 DEF DeleteStart, DeletePanelFails, serviceVars
    <2>4. task'[t].pc \in {"remove", "idle"}
        BY <1>0, <2>2, ReturnTask, IdleIsTask DEF DeleteStart, DeletePanelFails, Idle
    <2>5. \A u \in Actors \ {t} : task'[u] = task[u]
        BY <2>1, ServiceApart DEF Apart
    <2> QED
        BY <1>0, <2>1, <2>3, <2>4, <2>5, AgreeSame DEF Doing, RenewPCs
<1>4. CASE \E t \in Actors : Crash(t)
    <2>1. PICK t \in Actors : Crash(t)
        BY <1>4
    <2>2. ~Doing(t)
        <3>1. Doing(t) => Job(t) \in Renewals /\ "crash" \in upset'[Job(t)]
            BY <1>0, <2>1 DEF Crash, TasksOK, TaskOK, Doing, Job
        <3> QED
            BY <3>1
    <2>3. UNCHANGED serviceVars /\ task'[t] = Idle /\ \A u \in Actors \ {t} : task'[u] = task[u]
        BY <1>0, <2>1, ReturnTask DEF Crash, serviceOnly
    <2> QED
        BY <1>0, <2>2, <2>3, IdleIsTask, AgreeSame DEF Doing, RenewPCs
<1>5. ~RenewTimeout
    <2>1. RenewTimeout => Job(Admin) \in Renewals /\ Upset(Job(Admin), "timeout")
        BY <1>0 DEF RenewTimeout, TasksOK, TaskOK, RenewPCs, Job
    <2> QED
        BY <1>0, <2>1, UpsetGrows DEF Causes
<1>6. CASE CreateStep
    BY <1>0, <1>6, CreateIsApart, AgreeSame DEF Doing, RenewPCs, CreatePCs
<1>7. CASE \/ \E o \in Ops : OpenWizard(o)
           \/ \E v \in Prices : Reprice(v)
           \/ RemoveServer \/ UNCHANGED vars
    <2>1. UNCHANGED <<serviceVars, task>>
        BY <1>7 DEF OpenWizard, Reprice, RemoveServer, vars, serviceOnly
    <2> QED
        BY <1>0, <2>1, AgreeSame
<1> QED
    BY <1>1, <1>2, <1>3, <1>4, <1>5, <1>6, <1>7 DEF Next

LEMMA ServiceInit == Init => Service
<1> SUFFICES ASSUME Init PROVE Service
    OBVIOUS
<1>1. /\ \A t \in Actors : task[t].pc = "idle"
      /\ \A r \in Renewals : r \in Nat /\ r > 0 /\ r # Original
      /\ Gone # Original
    BY PurchaseAssumption, IdleIsTask DEF Init, Renewals, Original
<1>2. Numbered
    BY <1>1 DEF Init, Numbered, Traceless, Doing, RenewPCs
<1>3. GoneOK
    BY <1>1 DEF Init, GoneOK, Doing, RenewPCs
<1>4. AgreeOK
    BY <1>1 DEF Init, AgreeOK
<1>5. \A t \in Actors : CourseOK(t)
    BY <1>1 DEF CourseOK, Doing, RenewPCs
<1>6. \A r \in Renewals : OverOK(r)
    BY <1>1 DEF Init, OverOK
<1> QED
    BY <1>2, <1>3, <1>4, <1>5, <1>6 DEF Service

LEMMA ServiceInvariant == Spec => []Service
<1>1. TypeOK /\ TasksOK /\ Service /\ [Next]_vars => Service'
    BY NumberedStays, GoneStays, AgreeStays, CourseStays, OverStays DEF Service
<1>2. Purchase => TypeOK /\ TasksOK
    BY DEF Purchase
<1> QED
    BY <1>1, <1>2, ServiceInit, PurchaseInvariant, PTL DEF Spec

\* Whatever else happens to the service, a renewal that nothing disturbed has
\* either kept the money and reached the panel, or given it back and left
\* nothing in the books or on the panel, then and later.
THEOREM PurchaseRenewalSettled == Spec => []RenewalSettled
<1>1. ASSUME TypeOK, Service PROVE RenewalSettled
    <2> SUFFICES ASSUME NEW r \in paid, ~InWork(r), upset[r] = {}
                 PROVE  IF r \in back THEN row # r /\ r \notin applied ELSE r \in applied
        BY DEF RenewalSettled
    <2>1. r \in Renewals /\ r \in Nat /\ renewed \in Nat
        BY <1>1 DEF TypeOK, Renewals
    <2>2. r <= renewed
        BY <1>1, <2>1 DEF Service, Numbered
    <2>3. \A t \in Actors : Doing(t) => Job(t) # r
        BY DEF InWork
    <2> QED
        BY <1>1, <2>1, <2>2, <2>3 DEF Service, OverOK, Traceless
<1>2. Purchase => TypeOK
    BY DEF Purchase
<1> QED
    BY <1>1, <1>2, PurchaseInvariant, ServiceInvariant, PTL

\* As long as no renewal was disturbed, the books end up saying what the panel
\* does, and a service that is erased from the books is deleted on the panel.
THEOREM PurchaseBooksAgree == Spec => []BooksAgree
<1>1. ASSUME Service PROVE BooksAgree
    <2>1. (\A t \in Actors : task[t].pc \notin OnService) => \A t \in Actors : ~Doing(t)
        BY DEF Doing, RenewPCs, OnService
    <2> QED
        BY <1>1, <2>1 DEF Service, GoneOK, AgreeOK, BooksAgree
<1> QED
    BY <1>1, ServiceInvariant, PTL
=============================================================================
