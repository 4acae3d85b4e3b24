-------------------------- MODULE WalletTopupProofs --------------------------
(***************************************************************************)
(* The top-up saga for any number of payments, messages, workers and       *)
(* crashes, with or without database errors and overlapping recoveries.    *)
(***************************************************************************)
EXTENDS WalletTopup, AgentWalletProofs, FiniteSetTheorems, WellFoundedInduction

WorkerRec == [pc : WorkerPCs, p : Payments \cup {NoPayment}, e : OptEvents, seen : Rows]
AdminRec == [pc : AdminPCs, p : Payments \cup {NoPayment},
             todo : SUBSET Payments, credited : BOOLEAN]

RowsOK ==
    /\ status \in [Payments -> Statuses]
    /\ claim \in [Payments -> Payments \cup {NoKey}]
    /\ event \in [Payments -> OptEvents]

HistoryOK ==
    /\ crashes \in 0..MaxCrashes
    /\ funded \in [Payments -> OptEvents \cup {Manual}]

\* The type invariant, part by part.
LEMMA TypeParts ==
    TypeOK <=> /\ WalletTypeOK
               /\ RowsOK
               /\ worker \in [Workers -> WorkerRec]
               /\ admin \in AdminRec
               /\ HistoryOK
BY DEF TypeOK, RowsOK, HistoryOK, WorkerRec, AdminRec

-----------------------------------------------------------------------------
(* The helpers the actions are made of.                                    *)

LEMMA CreditIsTx ==
    ASSUME NEW p \in Payments
    PROVE  CreditOf(p) \in Tx /\ CreditOf(p).amount # 0 /\ CreditOf(p).key = p
BY TopupAssumption DEF CreditOf, Entry, Tx, TxTypes

\* A worker that moves on stays a worker, and keeps its payment and message.
LEMMA GotoKeepsType ==
    ASSUME worker \in [Workers -> WorkerRec], NEW w \in Workers,
           NEW pc \in WorkerPCs, Goto(w, pc)
    PROVE  /\ worker' \in [Workers -> WorkerRec]
           /\ worker'[w].pc = pc
           /\ worker'[w].p = worker[w].p
           /\ worker'[w].e = worker[w].e
           /\ worker'[w].seen = Idle.seen
           /\ \A v \in Workers \ {w} : worker'[v] = worker[v]
<1>1. Idle.seen \in Rows
    BY DEF Idle, Rows, Statuses, OptEvents
<1>2. worker[w] \in WorkerRec
    OBVIOUS
<1>3. [worker[w] EXCEPT !.pc = pc, !.seen = Idle.seen] \in WorkerRec
    BY <1>1, <1>2 DEF WorkerRec
<1>4. worker' = [worker EXCEPT ![w] = [worker[w] EXCEPT !.pc = pc, !.seen = Idle.seen]]
    BY <1>2 DEF Goto, WorkerRec
<1> QED
    BY <1>2, <1>3, <1>4 DEF WorkerRec

LEMMA AdminAtType ==
    ASSUME NEW pc \in AdminPCs, NEW p \in Payments \cup {NoPayment}
    PROVE  AdminAt(pc, p) \in AdminRec
BY DEF AdminAt, AdminRec

LEMMA AdminGotoKeepsType ==
    ASSUME admin \in AdminRec, NEW pc \in AdminPCs, AdminGoto(pc)
    PROVE  admin' \in AdminRec
BY AdminAtType DEF AdminGoto, AdminRec

LEMMA StartRecoveryType ==
    ASSUME StartRecovery
    PROVE  admin' \in AdminRec
BY DEF StartRecovery, AdminAt, AdminRec, AdminPCs, RecoveryPCs, Processing

LEMMA ClaimKeepsRows ==
    ASSUME RowsOK, NEW p \in Payments, NEW e \in OptEvents, Claim(p, e)
    PROVE  RowsOK'
BY DEF RowsOK, Claim, Statuses

LEMMA TryFinishKeepsRows ==
    ASSUME RowsOK, NEW p \in Payments, NEW final \in Statuses, TryFinish(p, final)
    PROVE  RowsOK' /\ event' = event
BY DEF RowsOK, TryFinish, Finish, rowVars

LEMMA ChargeKeepsType ==
    ASSUME WalletTypeOK, funded \in [Payments -> OptEvents \cup {Manual}],
           NEW p \in Payments, NEW by \in OptEvents \cup {Manual}, Charge(p, by)
    PROVE  WalletTypeOK' /\ funded' \in [Payments -> OptEvents \cup {Manual}]
<1>1. WalletTypeOK'
    <2>1. CASE UNCHANGED walletVars
        BY <2>1 DEF WalletTypeOK, walletVars
    <2>2. CASE Post(CreditOf(p))
        BY <2>2, CreditIsTx, PostKeepsType
    <2> QED
        BY <2>1, <2>2 DEF Charge, OnceOk
<1>2. funded' \in [Payments -> OptEvents \cup {Manual}]
    BY DEF Charge
<1> QED
    BY <1>1, <1>2

-----------------------------------------------------------------------------
(***************************************************************************)
(* The type invariant.  It is inductive together with the fact that a      *)
(* process under way has a payment, and a worker a bank message.           *)
(***************************************************************************)
WorkersBusy ==
    \A w \in Workers : worker[w].pc # "idle" => worker[w].p \in Payments /\ worker[w].e \in Events

AdminBusy == admin.pc \in {"charge", "finish", "except", "release", "settle"} => admin.p \in Payments

Typing == TypeOK /\ WorkersBusy /\ AdminBusy

\* A worker that moves on, while the rest keeps its type.
LEMMA GotoKeepsTyping ==
    ASSUME Typing, NEW w \in Workers, NEW pc \in WorkerPCs, Goto(w, pc), ~At(w, "idle"),
           WalletTypeOK', RowsOK', HistoryOK', admin' = admin
    PROVE  Typing'
<1>1. worker' \in [Workers -> WorkerRec]
    BY TypeParts, GotoKeepsType DEF Typing
<1>2. TypeOK'
    BY <1>1, TypeParts DEF Typing, TypeOK, RowsOK, HistoryOK, WorkerRec, AdminRec
<1>3. WorkersBusy'
    BY TypeParts, GotoKeepsType DEF Typing, WorkersBusy, At
<1>4. AdminBusy'
    BY DEF Typing, AdminBusy
<1> QED
    BY <1>2, <1>3, <1>4 DEF Typing

\* AdminBot moves on, while the rest keeps its type.
LEMMA AdminKeepsTyping ==
    ASSUME Typing, admin' \in AdminRec, AdminBusy', worker' = worker,
           WalletTypeOK', RowsOK', HistoryOK'
    PROVE  Typing'
<1>1. TypeOK'
    BY DEF Typing, TypeOK, RowsOK, HistoryOK, AdminRec
<1>2. WorkersBusy'
    BY DEF Typing, WorkersBusy
<1> QED
    BY <1>1, <1>2 DEF Typing

\* What a step leaves alone keeps its type.
LEMMA KeptTypes ==
    ASSUME Typing
    PROVE  /\ UNCHANGED walletVars => WalletTypeOK'
           /\ UNCHANGED rowVars => RowsOK'
           /\ UNCHANGED <<crashes, funded>> => HistoryOK'
           /\ UNCHANGED admin => AdminBusy' /\ admin' \in AdminRec
BY TypeParts DEF Typing, WalletTypeOK, walletVars, RowsOK, rowVars, HistoryOK, AdminBusy

LEMMA InitTyping == Init => Typing
<1> SUFFICES ASSUME Init PROVE Typing
    OBVIOUS
<1>1. WalletTypeOK
    BY DEF Init, WalletInit, WalletTypeOK
<1>2. RowsOK
    BY DEF Init, RowsOK, Statuses, OptEvents
<1>3. Idle \in WorkerRec
    BY DEF Idle, WorkerRec, WorkerPCs, OptEvents, Rows, Statuses
<1>4. worker \in [Workers -> WorkerRec] /\ WorkersBusy
    BY <1>3 DEF Init, WorkersBusy, Idle
<1>5. admin \in AdminRec /\ AdminBusy
    BY DEF Init, AdminRec, AdminAt, AdminPCs, AdminBusy
<1>6. HistoryOK
    BY TopupAssumption DEF Init, HistoryOK, OptEvents
<1> QED
    BY <1>1, <1>2, <1>4, <1>5, <1>6, TypeParts DEF Typing

LEMMA WorkerStepTyping ==
    ASSUME Typing, NEW w \in Workers, WorkerStep(w)
    PROVE  Typing'
<1> DEFINE p == worker[w].p
<1>0. worker \in [Workers -> WorkerRec] /\ RowsOK /\ HistoryOK /\ WalletTypeOK
    BY TypeParts DEF Typing
<1>1. CASE ReadPayment(w)
    <2>1. p \in Payments
        BY <1>1 DEF ReadPayment, At, Typing, WorkersBusy
    <2>2. Row(p) \in Rows
        BY <1>0, <2>1 DEF Row, Rows, RowsOK
    <2>3. worker' = [worker EXCEPT ![w] = [worker[w] EXCEPT !.pc = "decide", !.seen = Row(p)]]
        BY <1>0, <1>1 DEF ReadPayment, WorkerRec
    <2>4. [worker[w] EXCEPT !.pc = "decide", !.seen = Row(p)] \in WorkerRec
        BY <1>0, <2>2 DEF WorkerRec, WorkerPCs
    <2>5. worker' \in [Workers -> WorkerRec]
        BY <1>0, <2>3, <2>4
    <2>6. WorkersBusy'
        BY <1>0, <1>1, <2>3 DEF WorkersBusy, Typing, ReadPayment, At, WorkerRec
    <2>7. WalletTypeOK' /\ RowsOK' /\ HistoryOK' /\ AdminBusy' /\ admin' \in AdminRec
        BY <1>1, KeptTypes DEF ReadPayment, adminAndHistory
    <2> QED
        BY <2>5, <2>6, <2>7 DEF Typing, TypeOK, WorkerRec, RowsOK, HistoryOK, AdminRec
<1>2. CASE Return(w)
    <2>1. Idle \in WorkerRec
        BY DEF Idle, WorkerRec, WorkerPCs, OptEvents, Rows, Statuses
    <2>2. worker' \in [Workers -> WorkerRec] /\ WorkersBusy'
        BY <1>0, <1>2, <2>1 DEF Return, WorkersBusy, Typing, Idle
    <2>3. WalletTypeOK' /\ RowsOK' /\ HistoryOK' /\ AdminBusy' /\ admin' \in AdminRec
        BY <1>2, KeptTypes DEF Return, adminAndHistory
    <2> QED
        BY <2>2, <2>3 DEF Typing, TypeOK, WorkerRec, RowsOK, HistoryOK, AdminRec
<1>3. CASE ~ReadPayment(w) /\ ~Return(w)
    <2>1. /\ ~At(w, "idle")
          /\ p \in Payments /\ worker[w].e \in Events
        BY <1>3 DEF WorkerStep, AttachEvent, JoinClaim, ClaimForEvent, Reread, ChargeWallet,
              FinishApproved, Confirm, FinishAgain, WorkerRaises, WorkerExcept, WorkerRelease,
              At, Typing, WorkersBusy
    <2>2. PICK pc \in WorkerPCs : Goto(w, pc)
        BY <1>3 DEF WorkerStep, AttachEvent, JoinClaim, ClaimForEvent, Reread, ChargeWallet,
              FinishApproved, Confirm, FinishAgain, WorkerRaises, WorkerExcept, WorkerRelease,
              WorkerPCs
    <2>3. admin' = admin
        BY <1>3 DEF WorkerStep, AttachEvent, JoinClaim, ClaimForEvent, Reread, ChargeWallet,
              FinishApproved, Confirm, FinishAgain, WorkerRaises, WorkerExcept, WorkerRelease,
              adminAndHistory
    <2>4. WalletTypeOK' /\ HistoryOK'
        <3>1. CASE ChargeWallet(w)
            BY <1>0, <2>1, <3>1, ChargeKeepsType DEF ChargeWallet, HistoryOK, OptEvents
        <3>2. CASE ~ChargeWallet(w)
            BY <1>3, <3>2, KeptTypes DEF WorkerStep, AttachEvent, JoinClaim, ClaimForEvent,
              Reread, FinishApproved, Confirm, FinishAgain, WorkerRaises, WorkerExcept,
              WorkerRelease, adminAndHistory
        <3> QED
            BY <3>1, <3>2
    <2>5. RowsOK'
        <3>1. CASE AttachEvent(w)
            BY <1>0, <2>1, <3>1 DEF AttachEvent, RowsOK, OptEvents
        <3>2. CASE ClaimForEvent(w)
            BY <1>0, <2>1, <3>2, ClaimKeepsRows, KeptTypes DEF ClaimForEvent, OptEvents
        <3>3. CASE FinishApproved(w) \/ FinishAgain(w) \/ WorkerRelease(w)
            BY <1>0, <2>1, <3>3, TryFinishKeepsRows DEF FinishApproved, FinishAgain,
              WorkerRelease, Statuses
        <3>4. CASE JoinClaim(w) \/ Reread(w) \/ ChargeWallet(w) \/ Confirm(w)
                     \/ WorkerRaises(w) \/ WorkerExcept(w)
            BY <3>4, KeptTypes DEF JoinClaim, Reread, ChargeWallet, Confirm, WorkerRaises,
              WorkerExcept
        <3> QED
            BY <1>3, <3>1, <3>2, <3>3, <3>4 DEF WorkerStep
    <2> QED
        BY <2>1, <2>2, <2>3, <2>4, <2>5, GotoKeepsTyping
<1> QED
    BY <1>1, <1>2, <1>3

LEMMA AdminStepTyping ==
    ASSUME Typing, AdminStep
    PROVE  Typing'
<1>0. admin \in AdminRec /\ RowsOK /\ HistoryOK /\ WalletTypeOK
    BY TypeParts DEF Typing
<1>1. CASE AdminCharge
    <2>1. admin.p \in Payments
        BY <1>1 DEF AdminCharge, Typing, AdminBusy
    <2>2. admin' \in AdminRec /\ AdminBusy'
        BY <1>0, <1>1, <2>1, AdminGotoKeepsType
        DEF AdminCharge, AdminGoto, AdminAt, AdminBusy, AdminPCs
    <2>3. WalletTypeOK' /\ HistoryOK'
        BY <1>0, <1>1, <2>1, ChargeKeepsType DEF AdminCharge, HistoryOK, workersAndCrashes
    <2>4. RowsOK' /\ worker' = worker
        BY <1>1, KeptTypes DEF AdminCharge, workersAndCrashes
    <2> QED
        BY <2>2, <2>3, <2>4, AdminKeepsTyping
<1>2. CASE ~AdminCharge
    <2>1. WalletTypeOK' /\ HistoryOK' /\ worker' = worker
        BY <1>2, KeptTypes DEF AdminStep, AdminFinish, AdminRaises, AdminExcept, AdminRelease,
           RecoveryStep, AdminRestart, RecoverLook, RecoverSettle, RecoverDone, workersAndCrashes
    <2>2. RowsOK'
        <3>1. CASE AdminFinish
            BY <1>0, <3>1, TryFinishKeepsRows DEF AdminFinish, Typing, AdminBusy, Statuses
        <3>2. CASE AdminRelease
            BY <1>0, <3>2, TryFinishKeepsRows DEF AdminRelease, Typing, AdminBusy, Statuses
        <3>3. CASE RecoverSettle
            BY <1>0, <3>3, TryFinishKeepsRows DEF RecoverSettle, Typing, AdminBusy, Statuses
        <3>4. CASE AdminRaises \/ AdminExcept \/ AdminRestart \/ RecoverDone
                     \/ \E p \in Payments : RecoverLook(p)
            BY <3>4, KeptTypes DEF AdminRaises, AdminExcept, AdminRestart, RecoverDone, RecoverLook
        <3> QED
            BY <1>2, <3>1, <3>2, <3>3, <3>4 DEF AdminStep, RecoveryStep
    <2>3. admin' \in AdminRec /\ AdminBusy'
        <3>1. CASE AdminRaises \/ AdminExcept \/ AdminRelease \/ RecoverDone
            <4>1. PICK pc \in AdminPCs : AdminGoto(pc) /\ (pc \in {"except", "release"} => admin.p \in Payments)
                                        /\ pc \in {"idle", "except", "release"}
                BY <3>1 DEF AdminRaises, AdminExcept, AdminRelease, RecoverDone, AdminPCs, Typing, AdminBusy
            <4> QED
                BY <1>0, <4>1, AdminGotoKeepsType DEF AdminGoto, AdminAt, AdminBusy
        <3>2. CASE AdminFinish \/ AdminRestart
            <4>1. AdminGoto("idle") \/ StartRecovery
                BY <3>2 DEF AdminFinish, AdminRestart
            <4>2. admin' \in AdminRec
                BY <1>0, <4>1, AdminGotoKeepsType, StartRecoveryType DEF AdminPCs
            <4>3. admin'.pc \in {"idle", "recover"}
                BY <4>1 DEF AdminGoto, AdminAt, StartRecovery
            <4> QED
                BY <4>2, <4>3 DEF AdminBusy
        <3>3. CASE \E p \in Payments : RecoverLook(p)
            <4>1. PICK p \in Payments : RecoverLook(p)
                BY <3>3
            <4>2. TxIs(p, CreditOf(p)) \in BOOLEAN
                BY DEF TxIs
            <4> QED
                BY <1>0, <4>1, <4>2 DEF RecoverLook, AdminRec, AdminBusy, AdminPCs, RecoveryPCs
        <3>4. CASE RecoverSettle
            BY <1>0, <3>4 DEF RecoverSettle, AdminRec, AdminBusy, AdminPCs, RecoveryPCs, AdminAt
        <3> QED
            BY <1>2, <3>1, <3>2, <3>3, <3>4 DEF AdminStep, RecoveryStep
    <2> QED
        BY <2>1, <2>2, <2>3, AdminKeepsTyping
<1> QED
    BY <1>1, <1>2

\* Decisions of people, and crashes.
LEMMA OtherStepTyping ==
    ASSUME Typing,
           \/ \E p \in Payments : CreatePayment(p) \/ AdminClaim(p) \/ AdminReject(p)
           \/ \E w \in Workers, p \in Payments, e \in Events : CallApprove(w, p, e)
           \/ \E w \in Workers : WorkerCrash(w)
           \/ AdminCrash
    PROVE  Typing'
<1>0. worker \in [Workers -> WorkerRec] /\ admin \in AdminRec /\ RowsOK /\ HistoryOK
    BY TypeParts DEF Typing
<1>1. CASE \E p \in Payments : CreatePayment(p)
    BY <1>0, <1>1, KeptTypes, AdminKeepsTyping
    DEF CreatePayment, adminAndHistory, RowsOK, Statuses
<1>2. CASE \E p \in Payments : AdminReject(p)
    BY <1>0, <1>2, KeptTypes, AdminKeepsTyping
    DEF AdminReject, workersAndCrashes, RowsOK, Statuses
<1>3. CASE \E p \in Payments : AdminClaim(p)
    <2>1. PICK p \in Payments : AdminClaim(p)
        BY <1>3
    <2>2. RowsOK'
        BY <1>0, <2>1, ClaimKeepsRows DEF AdminClaim, RowsOK
    <2>3. admin' \in AdminRec /\ AdminBusy'
        BY <2>1, AdminAtType DEF AdminClaim, AdminBusy, AdminAt, AdminPCs
    <2> QED
        BY <2>1, <2>2, <2>3, KeptTypes, AdminKeepsTyping DEF AdminClaim, workersAndCrashes
<1>4. CASE AdminCrash
    <2>1. admin' \in AdminRec /\ AdminBusy'
        BY <1>4, AdminAtType DEF AdminCrash, AdminBusy, AdminAt, AdminPCs
    <2>2. HistoryOK'
        BY <1>0, <1>4, TopupAssumption DEF AdminCrash, HistoryOK
    <2> QED
        BY <1>4, <2>1, <2>2, KeptTypes, AdminKeepsTyping DEF AdminCrash
<1>5. CASE \E w \in Workers, p \in Payments, e \in Events : CallApprove(w, p, e)
    <2>1. PICK w \in Workers, p \in Payments, e \in Events : CallApprove(w, p, e)
        BY <1>5
    <2>2. [Idle EXCEPT !.pc = "read", !.p = p, !.e = e] \in WorkerRec
        BY DEF Idle, WorkerRec, WorkerPCs, OptEvents, Rows, Statuses
    <2>3. worker' \in [Workers -> WorkerRec] /\ WorkersBusy'
        BY <1>0, <2>1, <2>2 DEF CallApprove, WorkersBusy, Typing, Idle
    <2>4. WalletTypeOK' /\ RowsOK' /\ HistoryOK' /\ AdminBusy' /\ admin' \in AdminRec
        BY <2>1, KeptTypes DEF CallApprove, adminAndHistory
    <2> QED
        BY <2>3, <2>4 DEF Typing, TypeOK, WorkerRec, RowsOK, HistoryOK, AdminRec
<1>6. CASE \E w \in Workers : WorkerCrash(w)
    <2>1. PICK w \in Workers : WorkerCrash(w)
        BY <1>6
    <2>2. Idle \in WorkerRec
        BY DEF Idle, WorkerRec, WorkerPCs, OptEvents, Rows, Statuses
    <2>3. worker' \in [Workers -> WorkerRec] /\ WorkersBusy'
        BY <1>0, <2>1, <2>2 DEF WorkerCrash, WorkersBusy, Typing, Idle
    <2>4. HistoryOK'
        BY <1>0, <2>1, TopupAssumption DEF WorkerCrash, HistoryOK
    <2>5. WalletTypeOK' /\ RowsOK' /\ AdminBusy' /\ admin' \in AdminRec
        BY <2>1, KeptTypes DEF WorkerCrash
    <2> QED
        BY <2>3, <2>4, <2>5 DEF Typing, TypeOK, WorkerRec, RowsOK, HistoryOK, AdminRec
<1> QED
    BY <1>1, <1>2, <1>3, <1>4, <1>5, <1>6

LEMMA NextTyping == Typing /\ [Next]_vars => Typing'
<1>1. ASSUME Typing, Next PROVE Typing'
    BY <1>1, WorkerStepTyping, AdminStepTyping, OtherStepTyping DEF Next
<1>2. ASSUME Typing, UNCHANGED vars PROVE Typing'
    BY <1>2 DEF vars, walletVars, Typing, TypeOK, WalletTypeOK, WorkersBusy, AdminBusy
<1> QED
    BY <1>1, <1>2

LEMMA SpecTyping == Spec => []Typing
BY InitTyping, NextTyping, PTL DEF Spec

\* Tables, claims and processes of the saga have the declared shape, whatever
\* crashes, raises or overlaps.
THEOREM TopupTypeCorrect == Spec => []TypeOK
<1>1. Typing => TypeOK
    BY DEF Typing
<1> QED
    BY <1>1, SpecTyping, PTL

-----------------------------------------------------------------------------
(***************************************************************************)
(* No approval without its credit.  A process that is about to approve has *)
(* seen the credit in the ledger, and the ledger only grows.               *)
(***************************************************************************)
Paid(p) == TxIs(p, CreditOf(p))

Credits ==
    /\ ApprovedIsCredited
    /\ \A w \in Workers : worker[w].pc \in {"finish", "confirm", "retry"} => Paid(worker[w].p)
    /\ admin.pc = "finish" => Paid(admin.p)
    /\ admin.pc = "settle" /\ admin.credited => Paid(admin.p)

LEMMA PostKeepsTx ==
    ASSUME WalletTypeOK, NEW entry \in Tx, Post(entry), NEW k, NEW x
    PROVE  /\ TxIs(k, x) => TxIs(k, x)'
           /\ k = entry.key /\ x = entry => TxIs(k, x)'
<1>1. /\ DOMAIN ledger' = 1 .. Len(ledger) + 1
      /\ \A i \in 1 .. Len(ledger) : ledger'[i] = ledger[i]
      /\ ledger'[Len(ledger) + 1] = entry
      /\ DOMAIN ledger = 1 .. Len(ledger)
      /\ Len(ledger) \in Nat
    BY DEF Post, WalletTypeOK
<1> QED
    BY <1>1 DEF TxIs

LEMMA ChargePays ==
    ASSUME WalletTypeOK, NEW p \in Payments, NEW by, Charge(p, by), NEW q \in Payments
    PROVE  /\ Paid(p)'
           /\ Paid(q) => Paid(q)'
<1>1. CASE Replayed(CreditOf(p)) /\ UNCHANGED walletVars
    BY <1>1, CreditIsTx DEF Replayed, Paid, TxIs, CreditOf, walletVars
<1>2. CASE Post(CreditOf(p))
    BY <1>2, CreditIsTx, PostKeepsTx, PostKeepsTx DEF Paid, CreditOf
<1> QED
    BY <1>1, <1>2 DEF Charge, OnceOk

\* Whatever a step does, a credit stays in the ledger.
LEMMA PaidForGood ==
    ASSUME Typing, [Next]_vars, NEW p \in Payments, Paid(p)
    PROVE  Paid(p)'
<1>1. CASE UNCHANGED walletVars
    BY <1>1 DEF Paid, TxIs, CreditOf, walletVars
<1>2. CASE \E w \in Workers : ChargeWallet(w)
    BY <1>2, ChargePays DEF ChargeWallet, Typing, TypeOK, WorkersBusy, At
<1>3. CASE AdminCharge
    BY <1>3, ChargePays DEF AdminCharge, Typing, TypeOK, AdminBusy
<1> QED
    BY <1>1, <1>2, <1>3
    DEF Next, vars, walletVars, WorkerStep, ReadPayment, AttachEvent, JoinClaim, ClaimForEvent,
        Reread, FinishApproved, Confirm, FinishAgain, WorkerRaises, WorkerExcept, WorkerRelease,
        Return, AdminStep, AdminFinish, AdminRaises, AdminExcept, AdminRelease, RecoveryStep,
        AdminRestart, RecoverLook, RecoverSettle, RecoverDone, CreatePayment, AdminClaim,
        AdminReject, CallApprove, WorkerCrash, AdminCrash

LEMMA ApprovedWhenPaid ==
    ASSUME Typing, Credits, Next, NEW p \in Payments, status'[p] = "approved"
    PROVE  Paid(p)
<1>0. status \in [Payments -> Statuses]
    BY DEF Typing, TypeOK
<1>1. CASE status[p] = "approved"
    BY <1>1 DEF Credits, ApprovedIsCredited, Paid
<1>2. CASE \E w \in Workers : FinishApproved(w) \/ FinishAgain(w)
    BY <1>0, <1>1, <1>2 DEF FinishApproved, FinishAgain, At, TryFinish, Finish, rowVars, Credits
<1>3. CASE \E w \in Workers : WorkerRelease(w)
    BY <1>0, <1>1, <1>3 DEF WorkerRelease, TryFinish, Finish, rowVars
<1>4. CASE AdminFinish
    BY <1>0, <1>1, <1>4 DEF AdminFinish, TryFinish, Finish, rowVars, Credits
<1>5. CASE AdminRelease
    BY <1>0, <1>1, <1>5 DEF AdminRelease, TryFinish, Finish, rowVars
<1>6. CASE RecoverSettle
    BY <1>0, <1>1, <1>6 DEF RecoverSettle, TryFinish, Finish, rowVars, Credits
<1>7. CASE \E w \in Workers : ClaimForEvent(w)
    BY <1>0, <1>1, <1>7 DEF ClaimForEvent, Claim, rowVars
<1>8. CASE \E q \in Payments : CreatePayment(q) \/ AdminClaim(q) \/ AdminReject(q)
    BY <1>0, <1>1, <1>8 DEF CreatePayment, AdminClaim, AdminReject, Claim
<1>9. CASE UNCHANGED status
    BY <1>1, <1>9
<1> QED
    BY <1>2, <1>3, <1>4, <1>5, <1>6, <1>7, <1>8, <1>9
    DEF Next, WorkerStep, ReadPayment, AttachEvent, JoinClaim, Reread, ChargeWallet, Confirm,
        WorkerRaises, WorkerExcept, Return, AdminStep, AdminCharge, AdminRaises, AdminExcept,
        RecoveryStep, AdminRestart, RecoverLook, RecoverDone, CallApprove, WorkerCrash,
        AdminCrash, rowVars

LEMMA WorkersFinishPaid ==
    ASSUME Typing, Credits, Next, NEW w \in Workers, worker'[w].pc \in {"finish", "confirm", "retry"}
    PROVE  Paid(worker[w].p)'
<1>0. worker \in [Workers -> WorkerRec]
    BY TypeParts DEF Typing
<1>1. CASE worker'[w] = worker[w]
    BY <1>1, PaidForGood DEF Credits, Typing, WorkersBusy
<1>2. CASE ChargeWallet(w)
    BY <1>0, <1>2, GotoKeepsType, ChargePays
    DEF ChargeWallet, At, Typing, TypeOK, WorkersBusy, WorkerPCs
<1>3. CASE FinishApproved(w) \/ Confirm(w)
    <2>1. worker[w].pc \in {"finish", "confirm"} /\ worker'[w].p = worker[w].p
        BY <1>0, <1>3, GotoKeepsType DEF FinishApproved, Confirm, At, WorkerPCs
    <2> QED
        BY <2>1, PaidForGood DEF Credits, Typing, WorkersBusy
<1>4. CASE \E v \in Workers : v # w /\ WorkerStep(v)
    <2>1. worker'[w] = worker[w]
        BY <1>0, <1>4 DEF WorkerStep, ReadPayment, AttachEvent, JoinClaim, ClaimForEvent, Reread,
           ChargeWallet, FinishApproved, Confirm, FinishAgain, WorkerRaises, WorkerExcept,
           WorkerRelease, Return, Goto
    <2> QED
        BY <1>1, <2>1
<1>5. CASE WorkerStep(w) /\ ~ (ChargeWallet(w) \/ FinishApproved(w) \/ Confirm(w))
    BY <1>0, <1>5 DEF WorkerStep, ReadPayment, AttachEvent, JoinClaim, ClaimForEvent, Reread,
       FinishAgain, WorkerRaises, WorkerExcept, WorkerRelease, Return, Goto, WorkerRec, Idle
<1>6. CASE \E v \in Workers : WorkerCrash(v) \/ \E p \in Payments, e \in Events : CallApprove(v, p, e)
    <2>1. PICK v \in Workers : WorkerCrash(v) \/ \E p \in Payments, e \in Events : CallApprove(v, p, e)
        BY <1>6
    <2>2. CASE v = w
        <3>1. CASE WorkerCrash(v)
            BY <1>0, <2>2, <3>1 DEF WorkerCrash, Idle
        <3>2. CASE \E p \in Payments, e \in Events : CallApprove(v, p, e)
            <4>1. PICK p \in Payments, e \in Events : CallApprove(w, p, e)
                BY <2>2, <3>2
            <4>2. worker'[w].pc = "read"
                BY <1>0, <4>1 DEF CallApprove, Idle
            <4> QED
                BY <4>2
        <3> QED
            BY <2>1, <3>1, <3>2
    <2>3. CASE v # w
        BY <1>0, <1>1, <2>1, <2>3 DEF WorkerCrash, CallApprove
    <2> QED
        BY <2>2, <2>3
<1>7. CASE UNCHANGED worker
    BY <1>1, <1>7
<1> QED
    BY <1>2, <1>3, <1>4, <1>5, <1>6, <1>7
    DEF Next, AdminStep, AdminCharge, AdminFinish, AdminRaises, AdminExcept, AdminRelease,
        RecoveryStep, AdminRestart, RecoverLook, RecoverSettle, RecoverDone, CreatePayment,
        AdminClaim, AdminReject, AdminCrash, workersAndCrashes, adminAndHistory

LEMMA AdminFinishesPaid ==
    ASSUME Typing, Credits, Next,
           admin'.pc = "finish" \/ (admin'.pc = "settle" /\ admin'.credited)
    PROVE  Paid(admin.p)'
<1>1. CASE UNCHANGED admin
    BY <1>1, PaidForGood DEF Credits, Typing, AdminBusy
<1>2. CASE AdminCharge
    BY <1>2, ChargePays DEF AdminCharge, AdminGoto, AdminAt, Typing, TypeOK, AdminBusy
<1>3. CASE \E p \in Payments : RecoverLook(p)
    BY <1>3 DEF RecoverLook, Paid, TxIs, CreditOf, Typing, TypeOK, walletVars
<1>4. CASE AdminFinish \/ AdminRestart
    BY <1>4 DEF AdminFinish, AdminRestart, AdminGoto, AdminAt, StartRecovery
<1>5. CASE AdminRaises \/ AdminExcept \/ AdminRelease \/ RecoverSettle \/ RecoverDone
    BY <1>5 DEF AdminRaises, AdminExcept, AdminRelease, RecoverSettle, RecoverDone, AdminGoto, AdminAt
<1>6. CASE AdminCrash \/ \E p \in Payments : AdminClaim(p)
    BY <1>6 DEF AdminCrash, AdminClaim, AdminAt
<1> QED
    BY <1>1, <1>2, <1>3, <1>4, <1>5, <1>6
    DEF Next, WorkerStep, ReadPayment, AttachEvent, JoinClaim, ClaimForEvent, Reread, ChargeWallet,
        FinishApproved, Confirm, FinishAgain, WorkerRaises, WorkerExcept, WorkerRelease, Return,
        AdminStep, RecoveryStep, CreatePayment, AdminReject, CallApprove, WorkerCrash,
        adminAndHistory

LEMMA NextCredits == Typing /\ Credits /\ [Next]_vars => Credits'
<1>1. ASSUME Typing, Credits, Next PROVE Credits'
    <2>1. ApprovedIsCredited'
        BY <1>1, ApprovedWhenPaid, PaidForGood DEF ApprovedIsCredited, Paid
    <2> QED
        BY <1>1, <2>1, WorkersFinishPaid, AdminFinishesPaid DEF Credits
<1>2. ASSUME Credits, UNCHANGED vars PROVE Credits'
    BY <1>2 DEF vars, walletVars, Credits, ApprovedIsCredited, Paid, TxIs, CreditOf
<1> QED
    BY <1>1, <1>2

\* Whatever crashes, raises, overlaps or arrives late, a payment is approved
\* only when its own credit is in the ledger.
THEOREM TopupApprovedIsCredited == Spec => []ApprovedIsCredited
<1>1. Init => Credits
    BY DEF Init, Credits, ApprovedIsCredited, Idle, AdminAt
<1>2. Credits => ApprovedIsCredited
    BY DEF Credits
<1> QED
    BY <1>1, <1>2, NextCredits, SpecTyping, PTL DEF Spec

-----------------------------------------------------------------------------
(***************************************************************************)
(* One deposit, one payment.  A bank message that is attached to a payment *)
(* stays attached, so what a worker has read of it is not stale, and a     *)
(* worker that is about to move money holds the attachment.                *)
(***************************************************************************)
Deposits ==
    /\ DepositSpentOnce
    /\ \A w \in Workers :
          /\ worker[w].pc = "charge" => event[worker[w].p] = worker[w].e
          /\ worker[w].pc = "decide" /\ worker[w].seen.event # NoEvent
                => event[worker[w].p] = worker[w].seen.event

\* A step attaches at most one message, to a payment that has none, and one
\* that no other payment has.
LEMMA EventStep ==
    ASSUME Typing, [Next]_vars
    PROVE  \/ UNCHANGED event
           \/ \E p \in Payments, e \in Events :
                 /\ event[p] \in {NoEvent, e} /\ Unlinked(e, p)
                 /\ event' = [event EXCEPT ![p] = e]
<1>0. event \in [Payments -> OptEvents]
    BY DEF Typing, TypeOK
<1>1. CASE \E w \in Workers : AttachEvent(w)
    BY <1>1 DEF AttachEvent, At, Attachable, Typing, WorkersBusy
<1>2. CASE \E w \in Workers : ClaimForEvent(w)
    BY <1>2 DEF ClaimForEvent, At, Claim, ClaimableBy, rowVars, Typing, WorkersBusy
<1>3. CASE \E p \in Payments : AdminClaim(p)
    BY <1>0, <1>3 DEF AdminClaim, Claim
<1>4. CASE \E w \in Workers : FinishApproved(w) \/ FinishAgain(w) \/ WorkerRelease(w)
    BY <1>4 DEF FinishApproved, FinishAgain, WorkerRelease, TryFinish, Finish, rowVars
<1>5. CASE AdminFinish \/ AdminRelease \/ RecoverSettle
    BY <1>5 DEF AdminFinish, AdminRelease, RecoverSettle, TryFinish, Finish, rowVars
<1> QED
    BY <1>1, <1>2, <1>3, <1>4, <1>5
    DEF Next, vars, WorkerStep, ReadPayment, JoinClaim, Reread, ChargeWallet, Confirm,
        WorkerRaises, WorkerExcept, Return, AdminStep, AdminCharge, AdminRaises, AdminExcept,
        RecoveryStep, AdminRestart, RecoverLook, RecoverDone, CreatePayment, AdminReject,
        CallApprove, WorkerCrash, AdminCrash, rowVars

\* The link between a payment and its message is made once.
LEMMA LinkedForGood ==
    ASSUME Typing, [Next]_vars, NEW p \in Payments, event[p] # NoEvent
    PROVE  event'[p] = event[p]
BY EventStep DEF Typing, TypeOK

LEMMA LinksStayUnique ==
    ASSUME Typing, DepositSpentOnce, [Next]_vars, NEW p \in Payments, event'[p] # NoEvent
    PROVE  Unlinked(event[p], p)'
<1>0. event \in [Payments -> OptEvents]
    BY DEF Typing, TypeOK
<1>1. CASE UNCHANGED event
    BY <1>1 DEF DepositSpentOnce, Unlinked
<1>2. CASE \E q \in Payments, e \in Events :
              /\ event[q] \in {NoEvent, e} /\ Unlinked(e, q)
              /\ event' = [event EXCEPT ![q] = e]
    BY <1>0, <1>2 DEF DepositSpentOnce, Unlinked
<1> QED
    BY <1>1, <1>2, EventStep

LEMMA FundedByItsEvent ==
    ASSUME Typing, Deposits, [Next]_vars, NEW p \in Payments, funded'[p] \in Events
    PROVE  event'[p] = funded'[p]
<1>0. funded \in [Payments -> OptEvents \cup {Manual}]
    BY DEF Typing, TypeOK
<1>1. CASE funded'[p] = funded[p]
    BY <1>1, LinkedForGood, TopupAssumption DEF Deposits, DepositSpentOnce
<1>2. CASE \E w \in Workers : ChargeWallet(w)
    <2>1. PICK w \in Workers : ChargeWallet(w)
        BY <1>2
    <2>2. funded' = funded \/ funded' = [funded EXCEPT ![worker[w].p] = worker[w].e]
        BY <2>1 DEF ChargeWallet, Charge
    <2>3. event' = event /\ event[worker[w].p] = worker[w].e
        BY <2>1 DEF ChargeWallet, At, Deposits, rowVars
    <2> QED
        BY <1>0, <1>1, <2>2, <2>3
<1>3. CASE AdminCharge
    BY <1>0, <1>1, <1>3, TopupAssumption DEF AdminCharge, Charge
<1>4. CASE UNCHANGED funded
    BY <1>1, <1>4
<1> QED
    BY <1>2, <1>3, <1>4
    DEF Next, vars, WorkerStep, ReadPayment, AttachEvent, JoinClaim, ClaimForEvent, Reread,
        FinishApproved, Confirm, FinishAgain, WorkerRaises, WorkerExcept, WorkerRelease, Return,
        AdminStep, AdminFinish, AdminRaises, AdminExcept, AdminRelease, RecoveryStep, AdminRestart,
        RecoverLook, RecoverSettle, RecoverDone, CreatePayment, AdminClaim, AdminReject,
        CallApprove, WorkerCrash, AdminCrash, adminAndHistory, workersAndCrashes

\* What one worker knows of the message of its payment.
Knows(w) ==
    /\ worker[w].pc = "charge" => event[worker[w].p] = worker[w].e
    /\ worker[w].pc = "decide" /\ worker[w].seen.event # NoEvent
          => event[worker[w].p] = worker[w].seen.event

\* A worker that moves leaves the other ones alone.
LEMMA OthersStay ==
    ASSUME worker \in [Workers -> WorkerRec], NEW v \in Workers, NEW w \in Workers, v # w,
           \/ \E pc \in WorkerPCs : Goto(v, pc)
           \/ ReadPayment(v) \/ Return(v) \/ WorkerCrash(v)
           \/ \E p \in Payments, e \in Events : CallApprove(v, p, e)
    PROVE  worker'[w] = worker[w]
<1>1. CASE \E pc \in WorkerPCs : Goto(v, pc)
    BY <1>1 DEF Goto
<1>2. CASE ReadPayment(v)
    BY <1>2 DEF ReadPayment
<1>3. CASE Return(v) \/ WorkerCrash(v)
    BY <1>3 DEF Return, WorkerCrash
<1>4. CASE \E p \in Payments, e \in Events : CallApprove(v, p, e)
    BY <1>4 DEF CallApprove
<1> QED
    BY <1>1, <1>2, <1>3, <1>4

LEMMA WorkersKnow ==
    ASSUME Typing, Deposits, Next, NEW w \in Workers
    PROVE  Knows(w)'
<1>0. worker \in [Workers -> WorkerRec]
    BY TypeParts DEF Typing
<1>1. CASE worker'[w] = worker[w]
    BY <1>1, LinkedForGood, TopupAssumption DEF Deposits, Knows, Typing, WorkersBusy
<1>2. CASE worker'[w].pc \notin {"charge", "decide"}
    BY <1>2 DEF Knows
<1>3. CASE ReadPayment(w)
    BY <1>0, <1>3 DEF ReadPayment, Row, Knows, rowVars, WorkerRec
<1>4. CASE JoinClaim(w)
    <2>1. worker[w].e \in Events
        BY <1>4 DEF JoinClaim, At, Typing, WorkersBusy
    <2>2. /\ worker'[w].p = worker[w].p /\ worker'[w].e = worker[w].e
          /\ worker'[w].pc \in {"charge", "failed"}
          /\ worker'[w].pc = "charge" => worker[w].seen.event = worker[w].e
        BY <1>0, <1>4, GotoKeepsType DEF JoinClaim, WorkerPCs
    <2>3. event' = event
        BY <1>4 DEF JoinClaim, rowVars
    <2> QED
        BY <1>4, <2>1, <2>2, <2>3, TopupAssumption DEF Deposits, JoinClaim, At, Knows
<1>5. CASE ClaimForEvent(w)
    <2>1. worker[w].p \in Payments
        BY <1>5 DEF ClaimForEvent, At, Typing, WorkersBusy
    <2>2. worker'[w].p = worker[w].p /\ worker'[w].e = worker[w].e
        BY <1>0, <1>5, GotoKeepsType DEF ClaimForEvent, WorkerPCs
    <2>3. \/ worker'[w].pc = "charge" /\ event' = [event EXCEPT ![worker[w].p] = worker[w].e]
          \/ worker'[w].pc = "reread"
        BY <1>0, <1>5, GotoKeepsType DEF ClaimForEvent, Claim, WorkerPCs
    <2> QED
        BY <2>1, <2>2, <2>3 DEF Knows, Typing, TypeOK
<1>6. CASE Reread(w)
    <2>1. worker'[w].p = worker[w].p /\ worker'[w].e = worker[w].e
        BY <1>0, <1>6, GotoKeepsType DEF Reread, WorkerPCs
    <2>2. /\ worker'[w].pc \in {"read", "charge", "failed"}
          /\ worker'[w].pc = "charge" => event[worker[w].p] = worker[w].e
        BY <1>0, <1>6, GotoKeepsType DEF Reread, WorkerPCs
    <2>3. event' = event
        BY <1>6 DEF Reread, rowVars
    <2> QED
        BY <2>1, <2>2, <2>3 DEF Knows
<1>7. CASE AttachEvent(w) \/ ChargeWallet(w) \/ FinishApproved(w) \/ Confirm(w) \/ FinishAgain(w)
             \/ WorkerRaises(w) \/ WorkerExcept(w) \/ WorkerRelease(w)
    <2>1. PICK pc \in WorkerPCs \ {"charge", "decide"} : Goto(w, pc)
        BY <1>7 DEF AttachEvent, ChargeWallet, FinishApproved, Confirm, FinishAgain,
           WorkerRaises, WorkerExcept, WorkerRelease, WorkerPCs
    <2> QED
        BY <1>0, <1>2, <2>1, GotoKeepsType
<1>8. CASE Return(w) \/ WorkerCrash(w)
    BY <1>0, <1>2, <1>8 DEF Return, WorkerCrash, Idle
<1>9. CASE \E p \in Payments, e \in Events : CallApprove(w, p, e)
    <2>1. PICK p \in Payments, e \in Events : CallApprove(w, p, e)
        BY <1>9
    <2>2. worker'[w].pc = "read"
        BY <1>0, <2>1 DEF CallApprove, Idle
    <2> QED
        BY <1>2, <2>2
<1>10. CASE \E v \in Workers \ {w} :
              WorkerStep(v) \/ WorkerCrash(v) \/ \E p \in Payments, e \in Events : CallApprove(v, p, e)
    <2>1. PICK v \in Workers \ {w} :
              WorkerStep(v) \/ WorkerCrash(v) \/ \E p \in Payments, e \in Events : CallApprove(v, p, e)
        BY <1>10
    <2>2. \/ \E pc \in WorkerPCs : Goto(v, pc)
          \/ ReadPayment(v) \/ Return(v) \/ WorkerCrash(v)
          \/ \E p \in Payments, e \in Events : CallApprove(v, p, e)
        BY <2>1 DEF WorkerStep, AttachEvent, JoinClaim, ClaimForEvent, Reread, ChargeWallet,
           FinishApproved, Confirm, FinishAgain, WorkerRaises, WorkerExcept, WorkerRelease,
           WorkerPCs
    <2>3. worker'[w] = worker[w]
        BY <1>0, <2>1, <2>2, OthersStay
    <2> QED
        BY <1>1, <2>3
<1>11. CASE UNCHANGED worker
    BY <1>1, <1>11
<1> QED
    BY <1>3, <1>4, <1>5, <1>6, <1>7, <1>8, <1>9, <1>10, <1>11
    DEF Next, WorkerStep, AdminStep, AdminCharge, AdminFinish, AdminRaises, AdminExcept,
        AdminRelease, RecoveryStep, AdminRestart, RecoverLook, RecoverSettle, RecoverDone,
        CreatePayment, AdminClaim, AdminReject, AdminCrash, workersAndCrashes, adminAndHistory

LEMMA NextDeposits == Typing /\ Deposits /\ [Next]_vars => Deposits'
<1>1. ASSUME Typing, Deposits, [Next]_vars PROVE DepositSpentOnce'
    BY <1>1, FundedByItsEvent, LinksStayUnique DEF DepositSpentOnce, Deposits
<1>2. ASSUME Typing, Deposits, Next PROVE Deposits'
    BY <1>1, <1>2, WorkersKnow DEF Deposits, Knows
<1>3. ASSUME Typing, Deposits, UNCHANGED vars PROVE Deposits'
    BY <1>1, <1>3 DEF vars, Deposits
<1> QED
    BY <1>2, <1>3

\* No interleaving of workers, buttons and recoveries spends one bank deposit
\* on two payments, or attaches it to a payment it did not pay for.
THEOREM TopupDepositSpentOnce == Spec => []DepositSpentOnce
<1>1. Init => Deposits
    BY TopupAssumption DEF Init, Deposits, DepositSpentOnce, Idle
<1>2. Deposits => DepositSpentOnce
    BY DEF Deposits
<1> QED
    BY <1>1, <1>2, NextDeposits, SpecTyping, PTL DEF Spec

-----------------------------------------------------------------------------
\* The decision of one payment, by the statements that write the status.
LEMMA DecidedStays ==
    ASSUME Typing, [Next]_vars, NEW p \in Payments, status[p] \in {"approved", "rejected"}
    PROVE  status'[p] = status[p]
<1>0. status \in [Payments -> Statuses]
    BY DEF Typing, TypeOK
<1>1. CASE \E w \in Workers : FinishApproved(w) \/ FinishAgain(w) \/ WorkerRelease(w)
    BY <1>0, <1>1
    DEF FinishApproved, FinishAgain, WorkerRelease, TryFinish, Finishable, Finish, rowVars
<1>2. CASE AdminFinish \/ AdminRelease \/ RecoverSettle
    BY <1>0, <1>2
    DEF AdminFinish, AdminRelease, RecoverSettle, TryFinish, Finishable, Finish, rowVars
<1>3. CASE \E w \in Workers : ClaimForEvent(w)
    BY <1>0, <1>3 DEF ClaimForEvent, ClaimableBy, Claimable, Claim, rowVars
<1>4. CASE \E q \in Payments : CreatePayment(q) \/ AdminClaim(q) \/ AdminReject(q)
    BY <1>0, <1>4 DEF CreatePayment, AdminClaim, Claimable, Claim, AdminReject
<1> QED
    BY <1>1, <1>2, <1>3, <1>4
    DEF Next, vars, WorkerStep, ReadPayment, AttachEvent, JoinClaim, Reread, ChargeWallet,
        Confirm, WorkerRaises, WorkerExcept, Return, AdminStep, AdminCharge, AdminRaises,
        AdminExcept, RecoveryStep, AdminRestart, RecoverLook, RecoverDone, CallApprove,
        WorkerCrash, AdminCrash, rowVars

\* Neither a stale read, a late message, a repeated button nor a recovery
\* takes back an approval or a rejection.
THEOREM TopupDecisionIsFinal == Spec => DecisionIsFinal
<1>1. Typing /\ [Next]_vars =>
          [\A p \in Payments :
              status[p] \in {"approved", "rejected"} => status'[p] = status[p]]_vars
    BY DecidedStays
<1> QED
    BY <1>1, SpecTyping, PTL DEF Spec, DecisionIsFinal

-----------------------------------------------------------------------------
(***************************************************************************)
(* The saga implements its promise as long as no database call raises and  *)
(* no recovery overlaps a worker.  What makes the credit and the decision  *)
(* look like one step is that a row whose credit is in the ledger is       *)
(* claimed or approved, and that whoever is about to credit a payment      *)
(* still has it claimed.                                                   *)
(***************************************************************************)
Claimed(p) == status[p] \in {"processing", "approved"}

\* What a worker relies on.
CalmWorker(w) ==
    /\ worker[w].pc # "release"
    /\ worker[w].pc = "except" => Paid(worker[w].p)
    /\ \/ worker[w].pc = "charge"
       \/ worker[w].pc = "decide" /\ worker[w].seen.status = "processing"
       => Claimed(worker[w].p)

\* What AdminBot relies on.
CalmAdmin ==
    /\ InRecovery => WorkersIdle
    /\ admin.pc \notin {"except", "release"}
    /\ admin.pc = "charge" => Claimed(admin.p)
    /\ admin.pc = "settle" /\ Paid(admin.p) => admin.credited

\* How rows and ledger agree.
CalmRows ==
    \A p \in Payments : HasTx(p) => Paid(p) /\ Claimed(p)

Calm == CalmRows /\ CalmAdmin /\ \A w \in Workers : CalmWorker(w)

\* What writes the status: a row is created, refused, claimed or approved, or
\* given back by the recovery when it has seen no credit.
LEMMA StatusStep ==
    ASSUME ~Faults, Typing, Calm, [Next]_vars
    PROVE  \/ UNCHANGED status
           \/ \E p \in Payments :
                 /\ UNCHANGED walletVars /\ ~RecoverSettle
                 /\ \/ status[p] = "none" /\ status' = [status EXCEPT ![p] = "pending"]
                    \/ status[p] = "pending" /\ status' = [status EXCEPT ![p] = "rejected"]
                    \/ \E s \in {"processing", "approved"} :
                          /\ status[p] \in {"pending", "processing"}
                          /\ status' = [status EXCEPT ![p] = s]
           \/ /\ UNCHANGED walletVars /\ RecoverSettle
              /\ Claimed(admin.p) /\ status[admin.p] # "approved"
              /\ \/ status' = [status EXCEPT ![admin.p] = "approved"]
                 \/ ~admin.credited /\ status' = [status EXCEPT ![admin.p] = "pending"]
<1>1. CASE \E p \in Payments : CreatePayment(p)
    BY <1>1 DEF CreatePayment, RecoverSettle, AdminAt, adminAndHistory
<1>2. CASE \E p \in Payments : AdminReject(p)
    BY <1>2 DEF AdminReject, RecoverSettle
<1>3. CASE \E p \in Payments : AdminClaim(p)
    BY <1>3 DEF AdminClaim, Claimable, Claim, RecoverSettle
<1>4. CASE \E w \in Workers : ClaimForEvent(w)
    <2>1. PICK w \in Workers : ClaimForEvent(w)
        BY <1>4
    <2>2. worker[w].p \in Payments /\ ~WorkersIdle
        BY <2>1 DEF ClaimForEvent, At, Typing, WorkersBusy, WorkersIdle
    <2> QED
        BY <2>1, <2>2
        DEF ClaimForEvent, ClaimableBy, Claimable, Claim, rowVars, RecoverSettle, Calm, CalmAdmin,
            InRecovery, RecoveryPCs
<1>5. CASE \E w \in Workers : FinishApproved(w) \/ FinishAgain(w) \/ WorkerRelease(w)
    <2>1. PICK w \in Workers : FinishApproved(w) \/ FinishAgain(w) \/ WorkerRelease(w)
        BY <1>5
    <2>2. worker[w].p \in Payments /\ ~WorkersIdle /\ ~WorkerRelease(w)
        BY <2>1 DEF FinishApproved, FinishAgain, WorkerRelease, At, Typing, WorkersBusy,
           WorkersIdle, Calm, CalmWorker
    <2> QED
        BY <2>1, <2>2
        DEF FinishApproved, FinishAgain, TryFinish, Finishable, Finish, rowVars, RecoverSettle,
            Calm, CalmAdmin, InRecovery, RecoveryPCs
<1>6. CASE AdminFinish
    BY <1>6 DEF AdminFinish, TryFinish, Finishable, Finish, rowVars, RecoverSettle, Typing, AdminBusy
<1>7. CASE RecoverSettle
    BY <1>7 DEF RecoverSettle, TryFinish, Finishable, Finish, rowVars, Claimed
<1>8. CASE AdminRelease
    BY <1>8 DEF AdminRelease, Calm, CalmAdmin
<1> QED
    BY <1>1, <1>2, <1>3, <1>4, <1>5, <1>6, <1>7, <1>8
    DEF Next, vars, WorkerStep, ReadPayment, AttachEvent, JoinClaim, Reread, ChargeWallet,
        Confirm, WorkerRaises, WorkerExcept, Return, AdminStep, AdminCharge, AdminRaises,
        AdminExcept, RecoveryStep, AdminRestart, RecoverLook, RecoverDone, CallApprove,
        WorkerCrash, AdminCrash, rowVars

\* A payment that is claimed or approved stays so, but for the recovery.
LEMMA ClaimedStays ==
    ASSUME ~Faults, Typing, Calm, [Next]_vars, NEW p \in Payments, Claimed(p),
           ~(RecoverSettle /\ p = admin.p /\ ~admin.credited)
    PROVE  Claimed(p)'
<1>0. status \in [Payments -> Statuses] /\ (RecoverSettle => admin.p \in Payments)
    BY DEF Typing, TypeOK, AdminBusy, RecoverSettle
<1> QED
    BY <1>0, StatusStep DEF Claimed

\* What writes the wallet: the credit of a claimed payment that has none.
LEMMA WalletStep ==
    ASSUME Typing, Calm, [Next]_vars
    PROVE  \/ UNCHANGED walletVars
           \/ \E p \in Payments :
                 Claimed(p) /\ ~HasTx(p) /\ Post(CreditOf(p)) /\ UNCHANGED <<status, event, claim>>
<1>1. CASE \E w \in Workers : ChargeWallet(w)
    <2>1. PICK w \in Workers : ChargeWallet(w)
        BY <1>1
    <2>2. worker[w].p \in Payments /\ Claimed(worker[w].p)
        BY <2>1 DEF ChargeWallet, At, Typing, WorkersBusy, Calm, CalmWorker
    <2> QED
        BY <2>1, <2>2, CreditIsTx DEF ChargeWallet, Charge, OnceOk, Postable, rowVars
<1>2. CASE AdminCharge
    <2>1. admin.p \in Payments /\ Claimed(admin.p)
        BY <1>2 DEF AdminCharge, Typing, AdminBusy, Calm, CalmAdmin
    <2> QED
        BY <1>2, <2>1, CreditIsTx DEF AdminCharge, Charge, OnceOk, Postable, rowVars
<1> QED
    BY <1>1, <1>2
    DEF Next, vars, walletVars, WorkerStep, ReadPayment, AttachEvent, JoinClaim, ClaimForEvent,
        Reread, FinishApproved, Confirm, FinishAgain, WorkerRaises, WorkerExcept, WorkerRelease,
        Return, AdminStep, AdminFinish, AdminRaises, AdminExcept, AdminRelease, RecoveryStep,
        AdminRestart, RecoverLook, RecoverSettle, RecoverDone, CreatePayment, AdminClaim,
        AdminReject, CallApprove, WorkerCrash, AdminCrash

LEMMA RowsStayCalm ==
    ASSUME ~Faults, Typing, Calm, [Next]_vars
    PROVE  CalmRows'
<1> SUFFICES ASSUME NEW p \in Payments, HasTx(p)' PROVE Paid(p)' /\ Claimed(p)'
    BY DEF CalmRows
<1>0. WalletTypeOK
    BY DEF Typing, TypeOK
<1>1. CASE HasTx(p)
    <2>1. Paid(p) /\ Claimed(p)
        BY <1>1 DEF Calm, CalmRows
    <2>2. ~(RecoverSettle /\ p = admin.p /\ ~admin.credited)
        BY <2>1 DEF RecoverSettle, Calm, CalmAdmin
    <2> QED
        BY <2>1, <2>2, PaidForGood, ClaimedStays
<1>2. CASE ~HasTx(p)
    <2>1. ~UNCHANGED walletVars
        BY <1>2 DEF HasTx, walletVars
    <2>2. PICK q \in Payments : Claimed(q) /\ Post(CreditOf(q)) /\ UNCHANGED status
        BY <2>1, WalletStep
    <2>3. p = q
        BY <1>0, <1>2, <2>2, CreditIsTx, PostHasTx
    <2>4. TxIs(p, CreditOf(p))'
        BY <1>0, <2>2, <2>3, CreditIsTx, PostKeepsTx DEF CreditOf
    <2> QED
        BY <2>2, <2>3, <2>4 DEF Paid, Claimed
<1> QED
    BY <1>1, <1>2

\* A worker that does nothing, or comes to rest, relies on nothing new.
LEMMA WorkersStayCalm ==
    ASSUME ~Faults, Typing, Credits, Calm, Next, NEW w \in Workers
    PROVE  CalmWorker(w)'
<1>0. worker \in [Workers -> WorkerRec] /\ WorkersBusy /\ CalmWorker(w) /\ RowsOK
    BY TypeParts DEF Typing, Calm
<1>1. CASE worker'[w] = worker[w]
    <2>1. CASE At(w, "idle")
        BY <1>1, <2>1 DEF CalmWorker, At
    <2>2. CASE ~At(w, "idle")
        <3>1. worker[w].p \in Payments /\ ~RecoverSettle
            BY <1>0, <2>2 DEF At, WorkersBusy, RecoverSettle, Calm, CalmAdmin, WorkersIdle,
               InRecovery, RecoveryPCs
        <3>2. PICK p \in Payments : p = worker[w].p
            BY <3>1
        <3>3. (Paid(p) => Paid(p)') /\ (Claimed(p) => Claimed(p)')
            BY <3>1, PaidForGood, ClaimedStays
        <3> QED
            BY <1>0, <1>1, <3>2, <3>3 DEF CalmWorker
    <2> QED
        BY <2>1, <2>2
<1>2. CASE worker'[w].pc \notin {"release", "except", "charge", "decide"}
    BY <1>2 DEF CalmWorker
<1>3. CASE ReadPayment(w)
    BY <1>0, <1>3 DEF ReadPayment, Row, CalmWorker, Claimed, rowVars, WorkerRec
<1>4. CASE JoinClaim(w)
    <2>1. /\ worker'[w].p = worker[w].p
          /\ worker'[w].pc \in {"charge", "failed"}
          /\ worker'[w].pc = "charge" => worker[w].seen.status = "processing"
        BY <1>0, <1>4, GotoKeepsType DEF JoinClaim, WorkerPCs
    <2> QED
        BY <1>0, <1>4, <2>1 DEF JoinClaim, At, CalmWorker, Claimed, rowVars
<1>5. CASE ClaimForEvent(w)
    <2>1. worker[w].p \in Payments
        BY <1>0, <1>5 DEF ClaimForEvent, At, WorkersBusy
    <2>2. /\ worker'[w].p = worker[w].p
          /\ \/ worker'[w].pc = "charge" /\ status' = [status EXCEPT ![worker[w].p] = "processing"]
             \/ worker'[w].pc = "reread"
        BY <1>0, <1>5, GotoKeepsType DEF ClaimForEvent, Claim, WorkerPCs
    <2> QED
        BY <1>0, <2>1, <2>2 DEF CalmWorker, Claimed, RowsOK
<1>6. CASE Reread(w)
    <2>1. /\ worker'[w].p = worker[w].p
          /\ worker'[w].pc \in {"read", "charge", "failed"}
          /\ worker'[w].pc = "charge" => Finishable(worker[w].p)
        BY <1>0, <1>6, GotoKeepsType DEF Reread, WorkerPCs
    <2> QED
        BY <1>6, <2>1 DEF Reread, CalmWorker, Claimed, Finishable, rowVars
<1>7. CASE FinishAgain(w)
    <2>1. worker'[w].p = worker[w].p /\ worker'[w].pc \in {"ok", "except"}
        BY <1>0, <1>7, GotoKeepsType DEF FinishAgain, WorkerPCs
    <2>2. Paid(worker[w].p)
        BY <1>7 DEF FinishAgain, At, Credits
    <2> QED
        BY <1>7, <2>1, <2>2 DEF FinishAgain, CalmWorker, Paid, TxIs, CreditOf, walletVars
<1>8. CASE WorkerExcept(w)
    <2>1. HasTx(worker[w].p)
        BY <1>0, <1>8 DEF WorkerExcept, At, CalmWorker, Paid, TxIs, HasTx
    <2> QED
        BY <1>0, <1>2, <1>8, <2>1, GotoKeepsType DEF WorkerExcept, WorkerPCs
<1>9. CASE AttachEvent(w) \/ ChargeWallet(w) \/ FinishApproved(w) \/ Confirm(w)
             \/ WorkerRaises(w) \/ WorkerRelease(w)
    <2>1. PICK pc \in {"ok", "failed", "finish", "confirm", "retry"} : Goto(w, pc)
        BY <1>0, <1>9 DEF AttachEvent, ChargeWallet, FinishApproved, Confirm, WorkerRaises,
           WorkerRelease, At, CalmWorker
    <2> QED
        BY <1>0, <1>2, <2>1, GotoKeepsType DEF WorkerPCs
<1>10. CASE Return(w) \/ WorkerCrash(w)
    BY <1>0, <1>2, <1>10 DEF Return, WorkerCrash, Idle
<1>11. CASE \E p \in Payments, e \in Events : CallApprove(w, p, e)
    <2>1. PICK p \in Payments, e \in Events : CallApprove(w, p, e)
        BY <1>11
    <2>2. worker'[w].pc = "read"
        BY <1>0, <2>1 DEF CallApprove, Idle
    <2> QED
        BY <1>2, <2>2
<1>12. CASE \E v \in Workers \ {w} :
              WorkerStep(v) \/ WorkerCrash(v) \/ \E p \in Payments, e \in Events : CallApprove(v, p, e)
    <2>1. PICK v \in Workers \ {w} :
              WorkerStep(v) \/ WorkerCrash(v) \/ \E p \in Payments, e \in Events : CallApprove(v, p, e)
        BY <1>12
    <2>2. \/ \E pc \in WorkerPCs : Goto(v, pc)
          \/ ReadPayment(v) \/ Return(v) \/ WorkerCrash(v)
          \/ \E p \in Payments, e \in Events : CallApprove(v, p, e)
        BY <2>1 DEF WorkerStep, AttachEvent, JoinClaim, ClaimForEvent, Reread, ChargeWallet,
           FinishApproved, Confirm, FinishAgain, WorkerRaises, WorkerExcept, WorkerRelease,
           WorkerPCs
    <2>3. worker'[w] = worker[w]
        BY <1>0, <2>1, <2>2, OthersStay
    <2> QED
        BY <1>1, <2>3
<1>13. CASE UNCHANGED worker
    BY <1>1, <1>13
<1> QED
    BY <1>3, <1>4, <1>5, <1>6, <1>7, <1>8, <1>9, <1>10, <1>11, <1>12, <1>13
    DEF Next, WorkerStep, AdminStep, AdminCharge, AdminFinish, AdminRaises, AdminExcept,
        AdminRelease, RecoveryStep, AdminRestart, RecoverLook, RecoverSettle, RecoverDone,
        CreatePayment, AdminClaim, AdminReject, AdminCrash, workersAndCrashes, adminAndHistory

\* No worker is called into a recovery, and none begins while a worker is busy.
LEMMA RecoveryStaysAlone ==
    ASSUME ~OverlappingRecovery, Typing, Calm, Next
    PROVE  (InRecovery => WorkersIdle)'
<1>0. InRecovery => WorkersIdle
    BY DEF Calm, CalmAdmin
<1>1. CASE UNCHANGED admin
    <2>1. CASE InRecovery
        <3>1. UNCHANGED worker
            BY <1>0, <2>1
            DEF Next, WorkersIdle, At, WorkerStep, ReadPayment, AttachEvent, JoinClaim,
                ClaimForEvent, Reread, ChargeWallet, FinishApproved, Confirm, FinishAgain,
                WorkerRaises, WorkerExcept, WorkerRelease, Return, WorkerCrash, CallApprove,
                AdminStep, AdminCharge, AdminFinish, AdminRaises, AdminExcept, AdminRelease,
                RecoveryStep, AdminRestart, RecoverLook, RecoverSettle, RecoverDone,
                CreatePayment, AdminClaim, AdminReject, AdminCrash, workersAndCrashes,
                adminAndHistory
        <3> QED
            BY <1>0, <2>1, <3>1 DEF WorkersIdle, At
    <2>2. CASE ~InRecovery
        BY <1>1, <2>2 DEF InRecovery
    <2> QED
        BY <2>1, <2>2
<1>2. CASE AdminFinish \/ AdminRestart
    BY <1>2 DEF AdminFinish, AdminRestart, RecoveryMayStart, WorkersIdle, At, workersAndCrashes,
       AdminGoto, AdminAt, InRecovery, RecoveryPCs
<1>3. CASE RecoverSettle \/ RecoverDone \/ \E p \in Payments : RecoverLook(p)
    BY <1>0, <1>3 DEF RecoverSettle, RecoverDone, RecoverLook, workersAndCrashes, InRecovery,
       RecoveryPCs, WorkersIdle, At
<1>4. CASE AdminCharge \/ AdminRaises \/ AdminExcept \/ AdminRelease \/ AdminCrash
              \/ \E p \in Payments : AdminClaim(p)
    BY <1>0, <1>4 DEF AdminCharge, AdminRaises, AdminExcept, AdminRelease, AdminCrash,
       AdminClaim, AdminGoto, AdminAt, InRecovery, RecoveryPCs
<1> QED
    BY <1>1, <1>2, <1>3, <1>4
    DEF Next, WorkerStep, ReadPayment, AttachEvent, JoinClaim, ClaimForEvent, Reread, ChargeWallet,
        FinishApproved, Confirm, FinishAgain, WorkerRaises, WorkerExcept, WorkerRelease, Return,
        AdminStep, RecoveryStep, CreatePayment, AdminReject, CallApprove, WorkerCrash,
        adminAndHistory

LEMMA AdminStaysCalm ==
    ASSUME ~Faults, ~OverlappingRecovery, Typing, Credits, Calm, Next
    PROVE  CalmAdmin'
<1>0. CalmAdmin /\ AdminBusy /\ RowsOK /\ (InRecovery => WorkersIdle)'
    BY TypeParts, RecoveryStaysAlone DEF Calm, Typing
<1> SUFFICES /\ admin'.pc \notin {"except", "release"}
             /\ admin'.pc = "charge" => Claimed(admin.p)'
             /\ admin'.pc = "settle" /\ Paid(admin.p)' => admin'.credited
    BY <1>0 DEF CalmAdmin
<1>1. CASE UNCHANGED admin
    <2>1. CASE admin.pc = "charge"
        <3>1. admin.p \in Payments /\ ~RecoverSettle
            BY <1>0, <2>1 DEF AdminBusy, RecoverSettle
        <3>2. PICK p \in Payments : p = admin.p
            BY <3>1
        <3>3. Claimed(p)'
            BY <1>0, <2>1, <3>1, <3>2, ClaimedStays DEF CalmAdmin
        <3> QED
            BY <1>1, <2>1, <3>2, <3>3
    <2>2. CASE admin.pc = "settle"
        <3>1. ~ \E w \in Workers : ChargeWallet(w)
            BY <1>0, <2>2 DEF CalmAdmin, InRecovery, RecoveryPCs, WorkersIdle, At, ChargeWallet
        <3>2. ~AdminCharge
            BY <2>2 DEF AdminCharge
        <3>3. UNCHANGED walletVars
            BY <3>1, <3>2
            DEF Next, WorkerStep, ReadPayment, AttachEvent, JoinClaim, ClaimForEvent, Reread,
                FinishApproved, Confirm, FinishAgain, WorkerRaises, WorkerExcept, WorkerRelease,
                Return, AdminStep, AdminFinish, AdminRaises, AdminExcept, AdminRelease,
                RecoveryStep, AdminRestart, RecoverLook, RecoverSettle, RecoverDone,
                CreatePayment, AdminClaim, AdminReject, CallApprove, WorkerCrash, AdminCrash
        <3> QED
            BY <1>0, <1>1, <2>2, <3>3 DEF CalmAdmin, Paid, TxIs, CreditOf, walletVars
    <2>3. CASE admin.pc \notin {"charge", "settle"}
        BY <1>0, <1>1, <2>3 DEF CalmAdmin
    <2> QED
        BY <2>1, <2>2, <2>3
<1>2. CASE \E p \in Payments : AdminClaim(p)
    BY <1>0, <1>2 DEF AdminClaim, Claim, AdminAt, Claimed, RowsOK
<1>3. CASE \E p \in Payments : RecoverLook(p)
    <2>1. PICK p \in Payments : RecoverLook(p)
        BY <1>3
    <2>2. admin'.pc = "settle" /\ admin'.p = p /\ admin'.credited = TxIs(p, CreditOf(p))
        BY <2>1, TypeParts DEF RecoverLook, Typing, AdminRec
    <2>3. Paid(admin.p)' => TxIs(p, CreditOf(p))
        BY <2>1, <2>2 DEF RecoverLook, Paid, TxIs, CreditOf, walletVars
    <2> QED
        BY <2>1, <2>2, <2>3, TypeParts DEF RecoverLook, Typing, AdminRec
<1>4. CASE AdminCharge \/ AdminFinish \/ RecoverDone \/ AdminRestart \/ AdminCrash
    BY <1>4 DEF AdminCharge, AdminFinish, RecoverDone, AdminRestart, AdminCrash, AdminGoto, AdminAt,
       StartRecovery
<1>5. CASE RecoverSettle
    BY <1>5 DEF RecoverSettle, AdminAt
<1>6. CASE AdminRaises \/ AdminExcept \/ AdminRelease
    BY <1>0, <1>6 DEF AdminRaises, AdminExcept, AdminRelease, CalmAdmin
<1> QED
    BY <1>1, <1>2, <1>3, <1>4, <1>5, <1>6
    DEF Next, WorkerStep, ReadPayment, AttachEvent, JoinClaim, ClaimForEvent, Reread, ChargeWallet,
        FinishApproved, Confirm, FinishAgain, WorkerRaises, WorkerExcept, WorkerRelease, Return,
        AdminStep, RecoveryStep, CreatePayment, AdminReject, CallApprove, WorkerCrash,
        adminAndHistory

LEMMA NextCalm ==
    ASSUME ~Faults, ~OverlappingRecovery
    PROVE  Typing /\ Credits /\ Calm /\ [Next]_vars => Calm'
<1>1. ASSUME Typing, Credits, Calm, Next PROVE Calm'
    BY <1>1, RowsStayCalm, AdminStaysCalm, WorkersStayCalm DEF Calm
<1>2. ASSUME Calm, UNCHANGED vars PROVE Calm'
    BY <1>2 DEF vars, walletVars, Calm, CalmRows, CalmAdmin, CalmWorker, Claimed, Paid, TxIs, HasTx,
       CreditOf, InRecovery, WorkersIdle, At
<1> QED
    BY <1>1, <1>2

LEMMA InitCalm == Init => Calm
BY DEF Init, WalletInit, Calm, CalmRows, CalmAdmin, CalmWorker, HasTx, Idle, AdminAt, InRecovery,
   RecoveryPCs

-----------------------------------------------------------------------------
(* The steps of the saga, seen from outside.                               *)

\* The steps that write neither the wallet nor the rows change nothing, and
\* neither do a claim, an approval and a claim given back.
LEMMA DecidedBy ==
    ASSUME NEW p \in Payments, UNCHANGED ledger,
           status'[p] = status[p] \/ (status[p] \in {"pending", "processing", "approved"}
                                      /\ status'[p] \in {"pending", "processing", "approved"})
    PROVE  Decided(p)' = Decided(p)
BY DEF Decided, HasTx

LEMMA StepKeepsPromise ==
    ASSUME ~Faults, Typing, Calm, [Next]_vars
    PROVE  [Promise!Next]_<<[p \in Payments |-> Decided(p)], balance>>
<1> DEFINE decision == [p \in Payments |-> Decided(p)]
<1>0. status \in [Payments -> Statuses] /\ WalletTypeOK
    BY DEF Typing, TypeOK
<1>1. CASE UNCHANGED walletVars /\ \E p \in Payments :
             status[p] = "none" /\ status' = [status EXCEPT ![p] = "pending"]
    <2>1. PICK p \in Payments : status[p] = "none" /\ status' = [status EXCEPT ![p] = "pending"]
        BY <1>1
    <2>2. ~HasTx(p)
        BY <2>1 DEF Calm, CalmRows, Claimed
    <2>3. Decided(p) = "none" /\ Decided(p)' = "open"
        BY <1>0, <1>1, <2>1, <2>2 DEF Decided, HasTx, walletVars
    <2>4. \A q \in Payments \ {p} : Decided(q)' = Decided(q)
        BY <1>0, <1>1, <2>1, DecidedBy DEF walletVars
    <2>5. Promise!Request(p)
        BY <1>1, <2>3, <2>4 DEF Promise!Request, walletVars
    <2> QED
        BY <2>5 DEF Promise!Next
<1>2. CASE UNCHANGED walletVars /\ \E p \in Payments :
             status[p] = "pending" /\ status' = [status EXCEPT ![p] = "rejected"]
    <2>1. PICK p \in Payments : status[p] = "pending" /\ status' = [status EXCEPT ![p] = "rejected"]
        BY <1>2
    <2>2. ~HasTx(p)
        BY <2>1 DEF Calm, CalmRows, Claimed
    <2>3. Decided(p) = "open" /\ Decided(p)' = "refused"
        BY <1>0, <1>2, <2>1, <2>2 DEF Decided
    <2>4. \A q \in Payments \ {p} : Decided(q)' = Decided(q)
        BY <1>0, <1>2, <2>1, DecidedBy DEF walletVars
    <2>5. Promise!Refuse(p)
        BY <1>2, <2>3, <2>4 DEF Promise!Refuse, walletVars
    <2> QED
        BY <2>5 DEF Promise!Next
<1>3. CASE \E p \in Payments : Claimed(p) /\ ~HasTx(p) /\ Post(CreditOf(p)) /\ UNCHANGED status
    <2>1. PICK p \in Payments : Claimed(p) /\ ~HasTx(p) /\ Post(CreditOf(p)) /\ UNCHANGED status
        BY <1>3
    <2>2. \A q \in Payments : HasTx(q)' <=> HasTx(q) \/ q = p
        BY <1>0, <2>1, CreditIsTx, PostHasTx
    <2>3. Decided(p) = "open" /\ Decided(p)' = "paid"
        BY <2>1, <2>2 DEF Decided, Claimed
    <2>4. \A q \in Payments \ {p} : Decided(q)' = Decided(q)
        BY <2>1, <2>2 DEF Decided
    <2>5. balance' = [balance EXCEPT ![AgentOf[p]] = @ + AmountOf[p]]
        BY <2>1 DEF Post, CreditOf, Entry, Signed
    <2>6. Promise!Pay(p)
        BY <2>3, <2>4, <2>5 DEF Promise!Pay
    <2> QED
        BY <2>6 DEF Promise!Next
<1>4. CASE /\ UNCHANGED walletVars
           /\ \A p \in Payments :
                 status'[p] = status[p] \/ (status[p] \in {"pending", "processing", "approved"}
                                            /\ status'[p] \in {"pending", "processing", "approved"})
    <2>1. \A p \in Payments : Decided(p)' = Decided(p)
        BY <1>4, DecidedBy DEF walletVars
    <2> QED
        BY <1>4, <2>1 DEF walletVars
<1> QED
    BY <1>0, <1>1, <1>2, <1>3, <1>4, WalletStep, StatusStep DEF Claimed, Typing, AdminBusy, RecoverSettle

\* Without database errors, and with recoveries that wait for the workers, a
\* representative sees what was promised: the credit and the decision are one
\* step, and a request is paid or refused once, whatever crashes.
THEOREM TopupKeepsPromise ==
    ASSUME ~Faults, ~OverlappingRecovery
    PROVE  Spec => KeepsPromise
<1>1. Init => Promise!Init
    BY DEF Init, WalletInit, Promise!Init, Decided
<1>2. Init => Credits
    BY DEF Init, Credits, ApprovedIsCredited, Idle, AdminAt
<1>3. Typing /\ Credits /\ Calm /\ [Next]_vars =>
          [Promise!Next]_<<[p \in Payments |-> Decided(p)], balance>>
    BY StepKeepsPromise
<1> QED
    BY <1>1, <1>2, <1>3, InitCalm, NextCalm, NextCredits, SpecTyping, PTL
    DEF Spec, KeepsPromise, Promise!Spec

-----------------------------------------------------------------------------
(* The sum of a function over a finite set.  What the fold computes is     *)
(* unfolded into a function g on the subsets of the set, and its facts are *)
(* proved by induction on their size: the least number for which one fails *)
(* does not exist.                                                         *)

\* A set of numbers has a least one.
LEMMA Least ==
    ASSUME NEW T, T \subseteq Nat, T # {}
    PROVE  \E n \in T : \A m \in T : n <= m
<1>1. PICK R : R = OpToRel(<, Nat)
    OBVIOUS
<1>2. IsWellFoundedOn(R, Nat)
    BY <1>1, NatLessThanWellFounded
<1>3. PICK n \in T : \A m \in T : <<m, n>> \notin R
    BY <1>2, WFMin
<1>4. \A m \in T : ~(m < n)
    BY <1>1, <1>3 DEF OpToRel
<1> QED
    BY <1>4

\* Induction on the size of the subsets of a finite set.
LEMMA SmallerFirst ==
    ASSUME NEW S, IsFiniteSet(S), NEW X,
           \A s \in SUBSET S : (\A t \in SUBSET s : t # s => t \in X) => s \in X
    PROVE  \A s \in SUBSET S : s \in X
<1> DEFINE T == {Cardinality(s) : s \in (SUBSET S) \ X}
<1>1. SUFFICES ASSUME \E s \in SUBSET S : s \notin X PROVE FALSE
    OBVIOUS
<1>2. \A s \in SUBSET S : IsFiniteSet(s) /\ Cardinality(s) \in Nat
    BY FS_Subset, FS_CardinalityType
<1>3. T \subseteq Nat
    BY <1>2
<1> T # {}
    BY <1>1
<1>4. PICK n \in T : \A m \in T : n <= m
    BY <1>3, Least
<1>5. PICK s \in (SUBSET S) \ X : Cardinality(s) = n
    BY <1>4
<1>6. ASSUME NEW t \in SUBSET s, t # s, t \notin X
      PROVE  FALSE
    <2>1. Cardinality(t) < n
        BY <1>2, <1>5, <1>6, FS_Subset, FS_CardinalityType
    <2>2. Cardinality(t) \in T
        BY <1>6
    <2>3. n <= Cardinality(t)
        BY <1>4, <2>2
    <2>4. n \in Nat /\ Cardinality(t) \in Nat
        BY <1>2, <1>3, <1>4
    <2> QED
        BY <2>1, <2>3, <2>4
<1>7. s \in X
    BY <1>6
<1> QED
    BY <1>5, <1>7

Pick(s) == CHOOSE x \in s : TRUE
Body(f, g, s) == IF s = {} THEN 0 ELSE f[Pick(s)] + g[s \ {Pick(s)}]

\* g is the fold, on every subset of S.
Folds(f, S, g) == g = [s \in SUBSET S |-> Body(f, g, s)]

\* g is the fold on the subsets of at most n elements.
FoldsUpTo(f, S, n, g) == \A s \in SUBSET S : Cardinality(s) <= n => g[s] = Body(f, g, s)

LEMMA FoldsFurther ==
    ASSUME NEW S, IsFiniteSet(S), NEW f, NEW n \in Nat, NEW g, FoldsUpTo(f, S, n, g)
    PROVE  \E h : FoldsUpTo(f, S, n + 1, h)
<1>1. PICK h : h = [s \in SUBSET S |-> Body(f, g, s)]
    OBVIOUS
<1>2. ASSUME NEW s \in SUBSET S, Cardinality(s) <= n + 1
      PROVE  h[s] = Body(f, h, s)
    <2>1. CASE s = {}
        BY <1>1, <2>1 DEF Body
    <2>2. CASE s # {}
        <3>1. PICK x : x = Pick(s)
            OBVIOUS
        <3>2. x \in s
            BY <2>2, <3>1 DEF Pick
        <3>3. s \ {x} \in SUBSET S /\ Cardinality(s \ {x}) <= n
            BY <1>2, <3>2, FS_Subset, FS_RemoveElement, FS_CardinalityType
        <3>4. h[s \ {x}] = g[s \ {x}]
            BY <1>1, <3>3 DEF FoldsUpTo
        <3> QED
            BY <1>1, <2>2, <3>1, <3>4 DEF Body
    <2> QED
        BY <2>1, <2>2
<1> QED
    BY <1>2 DEF FoldsUpTo

LEMMA FoldExists ==
    ASSUME NEW S, IsFiniteSet(S), NEW f
    PROVE  \E g : Folds(f, S, g)
<1> DEFINE T == {n \in Nat : ~ \E g : FoldsUpTo(f, S, n, g)}
<1>1. T = {}
    <2>1. SUFFICES ASSUME T # {} PROVE FALSE
        OBVIOUS
    <2>2. PICK n \in T : \A m \in T : n <= m
        BY <2>1, Least
    <2>3. n # 0
        <3>1. PICK g : g = [s \in SUBSET S |-> 0]
            OBVIOUS
        <3>2. ASSUME NEW s \in SUBSET S, Cardinality(s) <= 0
              PROVE  s = {}
            BY <3>2, FS_Subset, FS_CardinalityType, FS_EmptySet
        <3>3. FoldsUpTo(f, S, 0, g)
            BY <3>1, <3>2 DEF FoldsUpTo, Body
        <3> QED
            BY <2>2, <3>3
    <2>4. n - 1 \in Nat /\ n - 1 \notin T
        BY <2>2, <2>3
    <2>5. PICK g : FoldsUpTo(f, S, n - 1, g)
        BY <2>4
    <2>6. \E h : FoldsUpTo(f, S, (n - 1) + 1, h)
        BY <2>4, <2>5, FoldsFurther
    <2>7. (n - 1) + 1 = n
        BY <2>2
    <2> QED
        BY <2>2, <2>6, <2>7
<1>2. Cardinality(S) \in Nat
    BY FS_CardinalityType
<1>3. PICK g : FoldsUpTo(f, S, Cardinality(S), g)
    BY <1>1, <1>2
<1>4. \A s \in SUBSET S : Cardinality(s) <= Cardinality(S)
    BY FS_Subset
<1>5. \A s \in SUBSET S : g[s] = Body(f, g, s)
    BY <1>3, <1>4 DEF FoldsUpTo
<1>6. PICK h : h = [s \in SUBSET S |-> g[s]]
    OBVIOUS
<1>7. ASSUME NEW s \in SUBSET S
      PROVE  g[s] = Body(f, h, s)
    <2>1. CASE s = {}
        BY <1>5, <2>1 DEF Body
    <2>2. CASE s # {}
        BY <1>5, <1>6, <2>2 DEF Body
    <2> QED
        BY <2>1, <2>2
<1> QED
    BY <1>6, <1>7 DEF Folds

\* g adds f up over every subset of S, whichever element is taken first.
SumsUp(f, S, g) ==
    \A s \in SUBSET S :
        /\ g[s] \in Nat
        /\ s = {} => g[s] = 0
        /\ \A x \in s : g[s] = f[x] + g[s \ {x}]

LEMMA FoldsSumUp ==
    ASSUME NEW S, IsFiniteSet(S), NEW f, \A x \in S : f[x] \in Nat, NEW g, Folds(f, S, g)
    PROVE  SumsUp(f, S, g)
<1> DEFINE X == {s \in SUBSET S : /\ g[s] \in Nat
                                  /\ s = {} => g[s] = 0
                                  /\ \A x \in s : g[s] = f[x] + g[s \ {x}]}
<1>1. \A s \in SUBSET S : g[s] = Body(f, g, s)
    BY DEF Folds
<1>2. ASSUME NEW s \in SUBSET S, \A t \in SUBSET s : t # s => t \in X
      PROVE  s \in X
    <2>1. CASE s = {}
        BY <1>1, <2>1 DEF Body
    <2>2. CASE s # {}
        <3>1. PICK y : y = Pick(s)
            OBVIOUS
        <3>2. y \in s
            BY <2>2, <3>1 DEF Pick
        <3>3. g[s] = f[y] + g[s \ {y}]
            BY <1>1, <2>2, <3>1 DEF Body
        <3>4. ASSUME NEW x \in s
              PROVE  s \ {x} \in X
            <4>1. s \ {x} \in SUBSET s /\ s \ {x} # s
                OBVIOUS
            <4> QED
                BY <1>2, <4>1
        <3>5. f[y] \in Nat /\ g[s \ {y}] \in Nat
            BY <3>2, <3>4
        <3>6. ASSUME NEW x \in s, x # y
              PROVE  g[s] = f[x] + g[s \ {x}]
            <4>1. s \ {x} \in X /\ s \ {y} \in X
                BY <3>2, <3>4
            <4>2. y \in s \ {x} /\ x \in s \ {y}
                BY <3>2, <3>6
            <4>3. g[s \ {y}] = f[x] + g[(s \ {y}) \ {x}]
                BY <4>1, <4>2
            <4>4. g[s \ {x}] = f[y] + g[(s \ {x}) \ {y}]
                BY <4>1, <4>2
            <4>5. (s \ {x}) \ {y} = (s \ {y}) \ {x}
                OBVIOUS
            <4>6. (s \ {x}) \ {y} \in X
                <5>1. (s \ {x}) \ {y} \in SUBSET s /\ (s \ {x}) \ {y} # s
                    BY <3>6
                <5> QED
                    BY <1>2, <5>1
            <4>7. f[x] \in Nat /\ f[y] \in Nat /\ g[(s \ {x}) \ {y}] \in Nat
                BY <3>2, <4>6
            <4>8. PICK u : u = g[(s \ {x}) \ {y}]
                OBVIOUS
            <4>9. g[s \ {y}] = f[x] + u /\ g[s \ {x}] = f[y] + u /\ u \in Nat
                BY <4>3, <4>4, <4>5, <4>7, <4>8
            <4> HIDE DEF X
            <4> QED
                BY <3>3, <4>7, <4>9
        <3>7. g[s] \in Nat
            BY <3>3, <3>5
        <3>8. \A x \in s : g[s] = f[x] + g[s \ {x}]
            BY <3>3, <3>6
        <3> QED
            BY <2>2, <3>7, <3>8
    <2> QED
        BY <2>1, <2>2
<1> HIDE DEF X
<1>3. \A s \in SUBSET S : s \in X
    BY <1>2, SmallerFirst
<1> QED
    BY <1>3 DEF X, SumsUp

\* A larger set and larger terms do not make a smaller sum.
LEMMA SumsGrow ==
    ASSUME NEW T, IsFiniteSet(T), NEW S \in SUBSET T, NEW f, NEW g, NEW h, NEW k,
           SumsUp(f, S, g), SumsUp(h, T, k),
           \A x \in T : h[x] \in Nat, \A x \in S : f[x] \in Nat /\ f[x] <= h[x]
    PROVE  g[S] <= k[T]
<1> DEFINE X == {s \in SUBSET T : g[s \cap S] <= k[s]}
<1>1. ASSUME NEW s \in SUBSET T, \A t \in SUBSET s : t # s => t \in X
      PROVE  s \in X
    <2>1. CASE s = {}
        <3>1. s \cap S = {} /\ {} \in SUBSET S /\ {} \in SUBSET T
            BY <2>1
        <3>2. g[s \cap S] = 0 /\ k[s] = 0
            BY <2>1, <3>1 DEF SumsUp
        <3> QED
            BY <3>2
    <2>2. ASSUME NEW x \in s
          PROVE  s \in X
        <3>1. s \ {x} \in X
            BY <1>1, s \ {x} \in SUBSET s, s \ {x} # s
        <3>2. g[(s \ {x}) \cap S] <= k[s \ {x}]
            BY <3>1
        <3>3. k[s] = h[x] + k[s \ {x}] /\ k[s \ {x}] \in Nat /\ h[x] \in Nat
            BY s \ {x} \in SUBSET T DEF SumsUp
        <3>4. CASE x \in S
            <4>1. x \in s \cap S /\ s \cap S \in SUBSET S /\ (s \cap S) \ {x} \in SUBSET S
                BY <3>4
            <4>2. g[s \cap S] = f[x] + g[(s \cap S) \ {x}] /\ g[(s \cap S) \ {x}] \in Nat
                BY <4>1 DEF SumsUp
            <4>3. (s \cap S) \ {x} = (s \ {x}) \cap S
                OBVIOUS
            <4>4. f[x] \in Nat /\ f[x] <= h[x]
                BY <3>4
            <4>5. g[s \cap S] <= k[s]
                <5>1. PICK u, v : u = g[(s \ {x}) \cap S] /\ v = k[s \ {x}]
                    OBVIOUS
                <5>2. u \in Nat /\ v \in Nat /\ u <= v /\ g[s \cap S] = f[x] + u /\ k[s] = h[x] + v
                    BY <3>2, <3>3, <4>2, <4>3, <5>1
                <5> HIDE DEF X
                <5> QED
                    BY <3>3, <4>4, <5>2
            <4> QED
                BY <4>5
        <3>5. CASE x \notin S
            <4>1. (s \ {x}) \cap S = s \cap S /\ s \cap S \in SUBSET S
                BY <3>5
            <4>2. g[s \cap S] \in Nat
                BY <4>1 DEF SumsUp
            <4>3. g[s \cap S] <= k[s]
                <5>1. PICK u, v : u = g[s \cap S] /\ v = k[s \ {x}]
                    OBVIOUS
                <5>2. u \in Nat /\ v \in Nat /\ u <= v /\ k[s] = h[x] + v
                    BY <3>2, <3>3, <4>1, <4>2, <5>1
                <5> HIDE DEF X
                <5> QED
                    BY <3>3, <5>1, <5>2
            <4> QED
                BY <4>3
        <3> QED
            BY <3>4, <3>5
    <2> QED
        BY <2>1, <2>2
<1> HIDE DEF X
<1>2. T \in X
    BY <1>1, SmallerFirst
<1>3. T \cap S = S
    OBVIOUS
<1> QED
    BY <1>2, <1>3 DEF X

LEMMA SumFolds ==
    ASSUME NEW S, IsFiniteSet(S), NEW f, DOMAIN f = S
    PROVE  \E g : Folds(f, S, g) /\ SumFunction(f) = g[S]
<1>1. SumFunction(f) = (CHOOSE g : g = [s \in SUBSET S |->
                     IF s = {} THEN 0
                     ELSE f[CHOOSE x \in s : TRUE] + g[s \ {CHOOSE x \in s : TRUE}]])[S]
    BY DEF SumFunction, SumFunctionOnSet, FoldFunctionOnSet, MapThenFoldSet
<1>2. PICK h : h = CHOOSE g : g = [s \in SUBSET S |->
                     IF s = {} THEN 0
                     ELSE f[CHOOSE x \in s : TRUE] + g[s \ {CHOOSE x \in s : TRUE}]]
    OBVIOUS
<1>3. \E g : g = [s \in SUBSET S |->
                     IF s = {} THEN 0
                     ELSE f[CHOOSE x \in s : TRUE] + g[s \ {CHOOSE x \in s : TRUE}]]
    <2>1. PICK g : Folds(f, S, g)
        BY FoldExists
    <2>2. g = [s \in SUBSET S |->
                 IF s = {} THEN 0
                 ELSE f[CHOOSE x \in s : TRUE] + g[s \ {CHOOSE x \in s : TRUE}]]
        BY <2>1 DEF Folds, Body, Pick
    <2> QED
        BY <2>2
<1>4. h = [s \in SUBSET S |->
              IF s = {} THEN 0
              ELSE f[CHOOSE x \in s : TRUE] + h[s \ {CHOOSE x \in s : TRUE}]]
    BY <1>2, <1>3
<1>5. Folds(f, S, h)
    BY <1>4 DEF Folds, Body, Pick
<1> QED
    BY <1>1, <1>2, <1>5

LEMMA SumAddsUp ==
    ASSUME NEW S, IsFiniteSet(S), NEW f, DOMAIN f = S, \A x \in S : f[x] \in Nat
    PROVE  \E g : SumsUp(f, S, g) /\ SumFunction(f) = g[S]
BY SumFolds, FoldsSumUp

\* One term taken out.
LEMMA SumTakes ==
    ASSUME NEW T, IsFiniteSet(T), NEW x \in T, NEW h, NEW f, DOMAIN h = T, DOMAIN f = T \ {x},
           \A y \in T : h[y] \in Nat, \A y \in T \ {x} : f[y] = h[y]
    PROVE  SumFunction(h) = h[x] + SumFunction(f)
<1> DEFINE S == T \ {x}
<1>1. IsFiniteSet(S) /\ S \in SUBSET T /\ S \in SUBSET S
    BY FS_Subset
<1>2. \A y \in S : h[y] \in Nat /\ f[y] \in Nat /\ f[y] = h[y] /\ f[y] <= h[y] /\ h[y] <= f[y]
    OBVIOUS
<1>3. PICK g : SumsUp(f, S, g) /\ SumFunction(f) = g[S]
    BY <1>1, <1>2, SumAddsUp
<1>4. PICK k : SumsUp(h, T, k) /\ SumFunction(h) = k[T]
    BY SumAddsUp
<1>5. SumsUp(h, S, k)
    BY <1>1, <1>4 DEF SumsUp
<1>6. g[S] <= k[S]
    BY <1>1, <1>2, <1>3, <1>5, SumsGrow
<1>7. k[S] <= g[S]
    BY <1>1, <1>2, <1>3, <1>5, SumsGrow
<1>8. k[T] = h[x] + k[S] /\ k[S] \in Nat
    BY <1>1, <1>4 DEF SumsUp
<1>9. g[S] \in Nat
    BY <1>1, <1>3 DEF SumsUp
<1> QED
    BY <1>3, <1>4, <1>6, <1>7, <1>8, <1>9

-----------------------------------------------------------------------------
(***************************************************************************)
(* The balance.  A wallet is written by the credit of one payment that has *)
(* none, so the sum gains that payment and no other; and a ledger holds    *)
(* the credits of finitely many.                                           *)
(***************************************************************************)
Credited(a) == {q \in Payments : AgentOf[q] = a /\ HasTx(q)}
Balanced == CreditedOnce /\ IsFiniteSet({q \in Payments : HasTx(q)})

LEMMA CreditStep ==
    ASSUME Typing, [Next]_vars
    PROVE  UNCHANGED walletVars \/ \E p \in Payments : ~HasTx(p) /\ Post(CreditOf(p))
<1>1. CASE \E w \in Workers : ChargeWallet(w)
    BY <1>1, CreditIsTx DEF ChargeWallet, At, Typing, WorkersBusy, Charge, OnceOk, Postable
<1>2. CASE AdminCharge
    BY <1>2, CreditIsTx DEF AdminCharge, Typing, AdminBusy, Charge, OnceOk, Postable
<1> QED
    BY <1>1, <1>2
    DEF Next, vars, walletVars, WorkerStep, ReadPayment, AttachEvent, JoinClaim, ClaimForEvent,
        Reread, FinishApproved, Confirm, FinishAgain, WorkerRaises, WorkerExcept, WorkerRelease,
        Return, AdminStep, AdminFinish, AdminRaises, AdminExcept, AdminRelease, RecoveryStep,
        AdminRestart, RecoverLook, RecoverSettle, RecoverDone, CreatePayment, AdminClaim,
        AdminReject, CallApprove, WorkerCrash, AdminCrash

LEMMA CreditKeepsBalance ==
    ASSUME WalletTypeOK, Balanced, NEW p \in Payments, ~HasTx(p), Post(CreditOf(p))
    PROVE  Balanced'
<1>1. \A q \in Payments : HasTx(q)' <=> HasTx(q) \/ q = p
    BY CreditIsTx, PostHasTx
<1>2. balance' = [balance EXCEPT ![AgentOf[p]] = @ + AmountOf[p]]
    BY DEF Post, CreditOf, Entry, Signed
<1>3. IsFiniteSet({q \in Payments : HasTx(q)})'
    <2>1. {q \in Payments : HasTx(q)'} = {q \in Payments : HasTx(q)} \cup {p}
        BY <1>1
    <2> QED
        BY <2>1, FS_AddElement DEF Balanced
<1>4. ASSUME NEW a \in Agents
      PROVE  balance'[a] = SumFunction([q \in Credited(a)' |-> AmountOf[q]])
    <2>1. PICK h, f : h = [q \in Credited(a)' |-> AmountOf[q]] /\ f = [q \in Credited(a) |-> AmountOf[q]]
        OBVIOUS
    <2>2. balance[a] = SumFunction(f) /\ balance[a] \in Int
        BY <2>1 DEF Balanced, CreditedOnce, Credited, WalletTypeOK
    <2>3. CASE AgentOf[p] = a
        <3>1. /\ p \in Credited(a)' /\ Credited(a) = Credited(a)' \ {p}
              /\ \A q \in Credited(a)' : q \in Payments
            BY <1>1, <2>3 DEF Credited
        <3>2. IsFiniteSet(Credited(a)')
            BY <1>3, FS_Subset DEF Credited
        <3>3. SumFunction(h) = AmountOf[p] + SumFunction(f)
            <4>1. PICK T : T = Credited(a)'
                OBVIOUS
            <4>2. /\ IsFiniteSet(T) /\ p \in T /\ DOMAIN h = T /\ DOMAIN f = T \ {p}
                  /\ \A q \in T : h[q] \in Nat
                  /\ \A q \in T \ {p} : f[q] = h[q]
                  /\ h[p] = AmountOf[p]
                BY <2>1, <3>1, <3>2, <4>1, TopupAssumption
            <4> QED
                BY <4>2, SumTakes
        <3>4. balance'[a] = balance[a] + AmountOf[p]
            BY <1>2, <2>3 DEF WalletTypeOK
        <3> QED
            BY <2>1, <2>2, <3>3, <3>4, TopupAssumption
    <2>4. CASE AgentOf[p] # a
        <3>1. Credited(a)' = Credited(a)
            BY <1>1, <2>4 DEF Credited
        <3>2. balance'[a] = balance[a]
            BY <1>2, <2>4, TopupAssumption DEF WalletTypeOK
        <3> QED
            BY <2>1, <2>2, <3>1, <3>2
    <2> QED
        BY <2>3, <2>4
<1> QED
    BY <1>3, <1>4 DEF Balanced, CreditedOnce, Credited

LEMMA InitBalanced == Init => Balanced
<1>1. ASSUME Init, NEW a \in Agents
      PROVE  balance[a] = SumFunction([p \in {q \in Payments : AgentOf[q] = a /\ HasTx(q)} |-> AmountOf[p]])
    <2>1. {q \in Payments : AgentOf[q] = a /\ HasTx(q)} = {}
        BY <1>1 DEF Init, WalletInit, HasTx
    <2>2. PICK f : f = [p \in {q \in Payments : AgentOf[q] = a /\ HasTx(q)} |-> AmountOf[p]]
        OBVIOUS
    <2>3. DOMAIN f = {}
        BY <2>1, <2>2
    <2>4. PICK g : SumsUp(f, {}, g) /\ SumFunction(f) = g[{}]
        BY <2>3, FS_EmptySet, SumAddsUp
    <2>5. g[{}] = 0
        BY <2>4 DEF SumsUp
    <2> QED
        BY <1>1, <2>2, <2>4, <2>5 DEF Init, WalletInit
<1>2. Init => {q \in Payments : HasTx(q)} = {}
    BY DEF Init, WalletInit, HasTx
<1> QED
    BY <1>1, <1>2, FS_EmptySet DEF Balanced, CreditedOnce

LEMMA NextBalanced == Typing /\ Balanced /\ [Next]_vars => Balanced'
<1>1. ASSUME Balanced, UNCHANGED walletVars PROVE Balanced'
    BY <1>1 DEF walletVars, Balanced, CreditedOnce, HasTx
<1> QED
    BY <1>1, CreditStep, CreditKeepsBalance DEF Typing, TypeOK

\* Whatever crashes, raises, overlaps or is recovered, a balance is the sum of
\* the representative's credited payments, each counted once.
THEOREM TopupCreditedOnce == Spec => []CreditedOnce
<1>1. Balanced => CreditedOnce
    BY DEF Balanced
<1> QED
    BY <1>1, InitBalanced, NextBalanced, SpecTyping, PTL DEF Spec
=============================================================================
