----------------------------- MODULE WalletTopup -----------------------------
(***************************************************************************)
(* A representative tops up the wholesale wallet by card-to-card transfer. *)
(* The request is a row of agent_payments (AgentBot/agent_bot.db), the     *)
(* money is in agency.db: no transaction spans the two files, so an        *)
(* approval is a saga -- claim the row, credit the wallet under a key made *)
(* of the payment id, finish the row.                                      *)
(*                                                                         *)
(* Three kinds of process run it against the same files:                   *)
(*   - Workers: approve_wallet_charge_from_sms, on the threads of the SMS  *)
(*     webhook (in the UserBot process) and in AgentBot;                   *)
(*   - AdminBot: approve and reject buttons, one handler at a time, and    *)
(*     the recovery it runs at start-up and when it cannot finish a row;   *)
(*   - AgentBot: creates the rows.                                         *)
(*                                                                         *)
(* An action is one database transaction and the code up to the next one.  *)
(***************************************************************************)
EXTENDS AgentWallet, Functions

CONSTANTS
    Payments,   \* the ids of agent_payments
    AgentOf,    \* the representative of a payment
    AmountOf,   \* its final amount, marker included
    Events,     \* bank messages, by their event id
    NoEvent,    \* no bank message attached
    Manual,     \* credited by the admin's decision
    Fits,       \* <<e, p>>: amount, card and time of message e fit payment p
    Workers,    \* concurrent callers of approve_wallet_charge_from_sms
    NoPayment,
    Faults,     \* a database call may raise ("database is locked")
    OverlappingRecovery, \* a recovery may run while a worker is under way
    MaxCrashes  \* bound on crashes of a process

ASSUME TopupAssumption ==
    /\ Keys = Payments
    /\ AgentOf \in [Payments -> Agents]
    /\ AmountOf \in [Payments -> Nat \ {0}]
    /\ Fits \subseteq Events \X Payments
    /\ NoEvent \notin Events /\ Manual \notin Events /\ NoEvent # Manual
    /\ NoPayment \notin Payments
    /\ Faults \in BOOLEAN /\ OverlappingRecovery \in BOOLEAN
    /\ MaxCrashes \in Nat

VARIABLES
    \* agent_payments
    status,     \* "none" before the row exists
    claim,      \* processing_key
    event,      \* sms_event_id
    \* one record per worker, one for AdminBot
    worker,
    admin,
    crashes,
    funded      \* history: whose call posted the credit of a payment

rowVars == <<status, claim, event>>
vars == <<balance, ledger, status, claim, event, worker, admin, crashes, funded>>

Statuses == {"none", "pending", "processing", "approved", "rejected"}
OptEvents == Events \cup {NoEvent}
Rows == [status : Statuses, claim : Payments \cup {NoKey}, event : OptEvents]

Row(p) == [status |-> status[p], claim |-> claim[p], event |-> event[p]]
CreditOf(p) == Entry(AgentOf[p], AmountOf[p], "charge", p)

-----------------------------------------------------------------------------
(* agent_payments: the statements of AgentBot/database.py.                 *)

\* The unique index on sms_event_id.
Unlinked(e, p) == \A q \in Payments \ {p} : event[q] # e

\* claim_payment_processing, with and without a bank event
Claimable(p) == status[p] = "pending"

\* Mutant: sms_event_id has no unique index.
Mutant_ClaimableBy(p, e) == Claimable(p) /\ event[p] \in {NoEvent, e}

ClaimableBy(p, e) == Claimable(p) /\ event[p] \in {NoEvent, e} /\ Unlinked(e, p)

Claim(p, e) ==
    /\ status' = [status EXCEPT ![p] = "processing"]
    /\ claim' = [claim EXCEPT ![p] = p]
    /\ event' = [event EXCEPT ![p] = e]

\* Mutant: WHERE status='processing' AND processing_key=? is missing.
Mutant_Finishable(p) == status[p] # "none"

\* finish_payment_processing: False when the row is not claimed under p's key
Finishable(p) == status[p] = "processing" /\ claim[p] = p

\* Mutant: the target status is not one of the known ones.
Mutant_Finish(p, final) ==
    /\ status' = [status EXCEPT ![p] = "finished"]
    /\ claim' = [claim EXCEPT ![p] = NoKey]
    /\ UNCHANGED event

Finish(p, final) ==
    /\ status' = [status EXCEPT ![p] = final]
    /\ claim' = [claim EXCEPT ![p] = NoKey]
    /\ UNCHANGED event

TryFinish(p, final) == IF Finishable(p) THEN Finish(p, final) ELSE UNCHANGED rowVars

\* attach_payment_sms_event
Attachable(p, e) == status[p] = "approved" /\ event[p] = NoEvent /\ Unlinked(e, p)

-----------------------------------------------------------------------------
(* approve_wallet_charge_from_sms, one worker.                             *)

WorkerPCs == {"idle", "read", "decide", "reread", "charge", "finish", "confirm",
              "retry", "except", "release", "ok", "failed"}
Idle == [pc |-> "idle", p |-> NoPayment, e |-> NoEvent,
         seen |-> [status |-> "none", claim |-> NoKey, event |-> NoEvent]]

At(w, pc) == worker[w].pc = pc
\* The row that was read is not used beyond the branch it decides.
Goto(w, pc) == worker' = [worker EXCEPT ![w].pc = pc, ![w].seen = Idle.seen]
WorkersIdle == \A w \in Workers : At(w, "idle")

adminAndHistory == <<admin, crashes, funded>>

RecoveryPCs == {"recover", "settle"}
InRecovery == admin.pc \in RecoveryPCs

CallApprove(w, p, e) ==
    /\ At(w, "idle")
    /\ <<e, p>> \in Fits
    /\ status[p] \in {"pending", "processing", "approved"}
    /\ OverlappingRecovery \/ ~InRecovery
    /\ worker' = [worker EXCEPT ![w] = [Idle EXCEPT !.pc = "read", !.p = p, !.e = e]]
    /\ UNCHANGED <<walletVars, rowVars, adminAndHistory>>

ReadPayment(w) ==
    /\ At(w, "read")
    /\ worker' = [worker EXCEPT ![w].pc = "decide", ![w].seen = Row(worker[w].p)]
    /\ UNCHANGED <<walletVars, rowVars, adminAndHistory>>

\* status == "approved": link the late message to the payment
AttachEvent(w) ==
    LET p == worker[w].p
        e == worker[w].e
    IN /\ At(w, "decide")
       /\ worker[w].seen.status = "approved"
       /\ IF TxIs(p, CreditOf(p)) /\ Attachable(p, e)
            THEN event' = [event EXCEPT ![p] = e] /\ Goto(w, "ok")
            ELSE /\ Goto(w, IF TxIs(p, CreditOf(p)) /\ event[p] = e THEN "ok" ELSE "failed")
                 /\ UNCHANGED event
       /\ UNCHANGED <<walletVars, status, claim, adminAndHistory>>

\* status == "processing": only the message that made the claim may resume it
JoinClaim(w) ==
    LET seen == worker[w].seen
    IN /\ At(w, "decide")
       /\ seen.status \notin {"pending", "approved"}
       /\ Goto(w, IF seen.status = "processing" /\ seen.claim = worker[w].p
                     /\ seen.event = worker[w].e
                    THEN "charge" ELSE "failed")
       /\ UNCHANGED <<walletVars, rowVars, adminAndHistory>>

ClaimForEvent(w) ==
    LET p == worker[w].p
        e == worker[w].e
    IN /\ At(w, "decide")
       /\ worker[w].seen.status = "pending"
       /\ IF ClaimableBy(p, e)
            THEN Claim(p, e) /\ Goto(w, "charge")
            ELSE UNCHANGED rowVars /\ Goto(w, "reread")
       /\ UNCHANGED <<walletVars, adminAndHistory>>

Reread(w) ==
    LET p == worker[w].p
    IN /\ At(w, "reread")
       /\ Goto(w, IF status[p] = "approved" THEN "read"
                  ELSE IF Finishable(p) /\ event[p] = worker[w].e THEN "charge"
                  ELSE "failed")
       /\ UNCHANGED <<walletVars, rowVars, adminAndHistory>>

\* Mutant: charge_wallet, which has no key, in place of charge_wallet_once.
Mutant_Charge(p, by) ==
    /\ Post(CreditOf(p))
    /\ funded' = [funded EXCEPT ![p] = by]

\* charge_wallet_once under the payment's own key
Charge(p, by) ==
    /\ OnceOk(CreditOf(p))
    /\ funded' = IF HasTx(p) THEN funded ELSE [funded EXCEPT ![p] = by]

ChargeWallet(w) ==
    /\ At(w, "charge")
    /\ Charge(worker[w].p, worker[w].e)
    /\ Goto(w, "finish")
    /\ UNCHANGED <<rowVars, admin, crashes>>

FinishApproved(w) ==
    LET p == worker[w].p
    IN /\ At(w, "finish")
       /\ TryFinish(p, "approved")
       /\ Goto(w, IF Finishable(p) THEN "ok" ELSE "confirm")
       /\ UNCHANGED <<walletVars, adminAndHistory>>

Confirm(w) ==
    /\ At(w, "confirm")
    /\ Goto(w, IF status[worker[w].p] = "approved" THEN "ok" ELSE "retry")
    /\ UNCHANGED <<walletVars, rowVars, adminAndHistory>>

FinishAgain(w) ==
    LET p == worker[w].p
    IN /\ At(w, "retry")
       /\ TryFinish(p, "approved")
       /\ Goto(w, IF Finishable(p) THEN "ok" ELSE "except")
       /\ UNCHANGED <<walletVars, adminAndHistory>>

\* A call of the try block raises.
WorkerRaises(w) ==
    /\ Faults
    /\ worker[w].pc \in {"charge", "finish", "confirm", "retry"}
    /\ Goto(w, "except")
    /\ UNCHANGED <<walletVars, rowVars, adminAndHistory>>

\* except: give the claim back, unless the wallet was credited
WorkerExcept(w) ==
    /\ At(w, "except")
    /\ Goto(w, IF HasTx(worker[w].p) THEN "failed" ELSE "release")
    /\ UNCHANGED <<walletVars, rowVars, adminAndHistory>>

WorkerRelease(w) ==
    /\ At(w, "release")
    /\ TryFinish(worker[w].p, "pending")
    /\ Goto(w, "failed")
    /\ UNCHANGED <<walletVars, adminAndHistory>>

\* The caller takes the result.
Return(w) ==
    /\ worker[w].pc \in {"ok", "failed"}
    /\ worker' = [worker EXCEPT ![w] = Idle]
    /\ UNCHANGED <<walletVars, rowVars, adminAndHistory>>

WorkerCrash(w) ==
    /\ ~At(w, "idle")
    /\ crashes < MaxCrashes
    /\ crashes' = crashes + 1
    /\ worker' = [worker EXCEPT ![w] = Idle]
    /\ UNCHANGED <<walletVars, rowVars, admin, funded>>

WorkerStep(w) ==
    \/ ReadPayment(w) \/ AttachEvent(w) \/ JoinClaim(w) \/ ClaimForEvent(w)
    \/ Reread(w) \/ ChargeWallet(w) \/ FinishApproved(w) \/ Confirm(w)
    \/ FinishAgain(w) \/ WorkerRaises(w) \/ WorkerExcept(w) \/ WorkerRelease(w)
    \/ Return(w)

-----------------------------------------------------------------------------
(* AdminBot: AdminBot/agencies.py, one handler at a time.                  *)

AdminPCs == {"down", "idle", "charge", "finish", "except", "release"} \cup RecoveryPCs

AdminAt(pc, p) == [pc |-> pc, p |-> p, todo |-> {}, credited |-> FALSE]
AdminGoto(pc) == admin' = AdminAt(pc, IF pc = "idle" THEN NoPayment ELSE admin.p)
workersAndCrashes == <<worker, crashes>>

\* approve_agent_payment, up to the claim
AdminClaim(p) ==
    /\ admin.pc = "idle"
    /\ Claimable(p)
    /\ Claim(p, event[p])
    /\ admin' = AdminAt("charge", p)
    /\ UNCHANGED <<walletVars, workersAndCrashes, funded>>

AdminCharge ==
    /\ admin.pc = "charge"
    /\ Charge(admin.p, Manual)
    /\ AdminGoto("finish")
    /\ UNCHANGED <<rowVars, workersAndCrashes>>

Processing == {p \in Payments : status[p] = "processing"}

\* The rows to recover are read once, when the recovery starts.
StartRecovery == admin' = [AdminAt("recover", NoPayment) EXCEPT !.todo = Processing]
RecoveryMayStart == OverlappingRecovery \/ WorkersIdle

\* A row that cannot be finished is left to the recovery, started at once.
AdminFinish ==
    LET p == admin.p
    IN /\ admin.pc = "finish"
       /\ TryFinish(p, "approved")
       /\ IF Finishable(p) THEN AdminGoto("idle")
                           ELSE RecoveryMayStart /\ StartRecovery
       /\ UNCHANGED <<walletVars, workersAndCrashes, funded>>

AdminRaises ==
    /\ Faults
    /\ admin.pc \in {"charge", "finish"}
    /\ AdminGoto("except")
    /\ UNCHANGED <<walletVars, rowVars, workersAndCrashes, funded>>

AdminExcept ==
    /\ admin.pc = "except"
    /\ AdminGoto(IF HasTx(admin.p) THEN "idle" ELSE "release")
    /\ UNCHANGED <<walletVars, rowVars, workersAndCrashes, funded>>

AdminRelease ==
    /\ admin.pc = "release"
    /\ TryFinish(admin.p, "pending")
    /\ AdminGoto("idle")
    /\ UNCHANGED <<walletVars, workersAndCrashes, funded>>

\* Mutant: the rejection does not expect the status it has read.
Mutant_AdminReject(p) ==
    /\ admin.pc = "idle"
    /\ status[p] \in {"pending", "processing"}
    /\ status' = [status EXCEPT ![p] = "rejected"]
    /\ UNCHANGED <<walletVars, claim, event, admin, workersAndCrashes, funded>>

\* reject_agent_payment
AdminReject(p) ==
    /\ admin.pc = "idle"
    /\ status[p] = "pending"
    /\ status' = [status EXCEPT ![p] = "rejected"]
    /\ UNCHANGED <<walletVars, claim, event, admin, workersAndCrashes, funded>>

AdminCrash ==
    /\ admin.pc # "down"
    /\ crashes < MaxCrashes
    /\ crashes' = crashes + 1
    /\ admin' = AdminAt("down", NoPayment)
    /\ UNCHANGED <<walletVars, rowVars, worker, funded>>

\* The service manager starts AdminBot again; main() recovers first.
AdminRestart ==
    /\ admin.pc = "down"
    /\ RecoveryMayStart
    /\ StartRecovery
    /\ UNCHANGED <<walletVars, rowVars, workersAndCrashes, funded>>

\* Mutant: a claimed row is taken to be credited without asking the ledger.
Mutant_RecoverTrusting(p) ==
    /\ admin.pc = "recover"
    /\ p \in admin.todo
    /\ admin' = [admin EXCEPT !.pc = "settle", !.p = p, !.credited = TRUE]
    /\ UNCHANGED <<walletVars, rowVars, workersAndCrashes, funded>>

\* recover_processing_agent_wallet_payments, one row: the ledger is read ...
RecoverLook(p) ==
    /\ admin.pc = "recover"
    /\ p \in admin.todo
    /\ admin' = [admin EXCEPT !.pc = "settle", !.p = p, !.credited = TxIs(p, CreditOf(p))]
    /\ UNCHANGED <<walletVars, rowVars, workersAndCrashes, funded>>

\* Mutant: only credited rows are settled, the others are left for review.
Mutant_RecoverSettle ==
    LET p == admin.p
    IN /\ admin.pc = "settle"
       /\ IF admin.credited THEN TryFinish(p, "approved") ELSE UNCHANGED rowVars
       /\ admin' = [AdminAt("recover", NoPayment) EXCEPT !.todo = admin.todo \ {p}]
       /\ UNCHANGED <<walletVars, workersAndCrashes, funded>>

\* ... and then the row is finished as the ledger said.
RecoverSettle ==
    LET p == admin.p
    IN /\ admin.pc = "settle"
       /\ TryFinish(p, IF admin.credited THEN "approved" ELSE "pending")
       /\ admin' = [AdminAt("recover", NoPayment) EXCEPT !.todo = admin.todo \ {p}]
       /\ UNCHANGED <<walletVars, workersAndCrashes, funded>>

RecoverDone ==
    /\ admin.pc = "recover"
    /\ admin.todo = {} \/ Faults  \* a call that raises ends the recovery
    /\ AdminGoto("idle")
    /\ UNCHANGED <<walletVars, rowVars, workersAndCrashes, funded>>

RecoveryStep ==
    \/ AdminRestart
    \/ \E p \in Payments : RecoverLook(p)
    \/ RecoverSettle
    \/ RecoverDone

AdminStep ==
    \/ AdminCharge \/ AdminFinish \/ AdminRaises \/ AdminExcept \/ AdminRelease
    \/ RecoveryStep

-----------------------------------------------------------------------------
\* create_wallet_charge_payment, at the end of the AgentBot dialogue
CreatePayment(p) ==
    /\ status[p] = "none"
    /\ status' = [status EXCEPT ![p] = "pending"]
    /\ UNCHANGED <<walletVars, claim, event, worker, adminAndHistory>>

Init ==
    /\ WalletInit
    /\ status = [p \in Payments |-> "none"]
    /\ claim = [p \in Payments |-> NoKey]
    /\ event = [p \in Payments |-> NoEvent]
    /\ worker = [w \in Workers |-> Idle]
    /\ admin = AdminAt("down", NoPayment)
    /\ crashes = 0
    /\ funded = [p \in Payments |-> NoEvent]

Next ==
    \/ \E p \in Payments : CreatePayment(p) \/ AdminClaim(p) \/ AdminReject(p)
    \/ \E w \in Workers :
          \/ \E p \in Payments, e \in Events : CallApprove(w, p, e)
          \/ WorkerStep(w)
          \/ WorkerCrash(w)
    \/ AdminStep
    \/ AdminCrash

Spec == Init /\ [][Next]_vars

(***************************************************************************)
(* A running handler goes on and a stopped AdminBot is started again       *)
(* (Restart=always in its service unit).  Nobody has to create, approve or *)
(* reject anything, and no bank message has to arrive.                     *)
(***************************************************************************)
FairSpec ==
    /\ Spec
    /\ \A w \in Workers : WF_vars(WorkerStep(w))
    /\ WF_vars(AdminStep)

-----------------------------------------------------------------------------
TypeOK ==
    /\ WalletTypeOK
    /\ status \in [Payments -> Statuses]
    /\ claim \in [Payments -> Payments \cup {NoKey}]
    /\ event \in [Payments -> OptEvents]
    /\ worker \in [Workers -> [pc : WorkerPCs, p : Payments \cup {NoPayment},
                               e : OptEvents, seen : Rows]]
    /\ admin \in [pc : AdminPCs, p : Payments \cup {NoPayment},
                  todo : SUBSET Payments, credited : BOOLEAN]
    /\ crashes \in 0..MaxCrashes
    /\ funded \in [Payments -> OptEvents \cup {Manual}]

(***************************************************************************)
(* approve_wallet_charge_from_sms promises to "credit one representative   *)
(* wallet exactly once": whatever crashes, raises, is retried or recovered *)
(* at the same time, the balance is the sum of the payments that have a    *)
(* credit, each counted once.                                              *)
(***************************************************************************)
CreditedOnce ==
    \A a \in Agents :
        balance[a] = SumFunction([p \in {q \in Payments : AgentOf[q] = a /\ HasTx(q)}
                                    |-> AmountOf[p]])

(***************************************************************************)
(* No payment is shown as approved before its money is in the wallet.      *)
(***************************************************************************)
ApprovedIsCredited ==
    \A p \in Payments : status[p] = "approved" => TxIs(p, CreditOf(p))

(***************************************************************************)
(* One bank deposit pays for one payment: a message that moved money is    *)
(* the one attached to the payment it moved the money for, and it is       *)
(* attached to no other, whether that one was credited by a message or by  *)
(* the admin.                                                              *)
(***************************************************************************)
DepositSpentOnce ==
    \A p \in Payments :
        /\ funded[p] \in Events => event[p] = funded[p]
        /\ event[p] # NoEvent => Unlinked(event[p], p)

(***************************************************************************)
(* A decision is final: no retry, late message or recovery reopens it.     *)
(***************************************************************************)
DecisionIsFinal ==
    [][\A p \in Payments :
          status[p] \in {"approved", "rejected"} => status'[p] = status[p]]_vars

\* What a payment's row and its key in the ledger amount to, seen from outside.
Decided(p) ==
    CASE status[p] = "none"     -> "none"
      [] status[p] = "rejected" -> "refused"
      [] status[p] \notin {"none", "rejected"} -> IF HasTx(p) THEN "paid" ELSE "open"

Promise == INSTANCE TopupPromise WITH decision <- [p \in Payments |-> Decided(p)]

(***************************************************************************)
(* The saga implements what a representative is promised: seen from        *)
(* outside, the credit and the decision are one step, although the code    *)
(* writes them to two databases.                                           *)
(***************************************************************************)
KeepsPromise == Promise!Spec

(***************************************************************************)
(* A claim left behind by a crash does not outlive the next start of       *)
(* AdminBot, although the process that made it may be gone for good.       *)
(***************************************************************************)
RecoveryEndsClaims ==
    \A p \in Payments :
        (admin.pc = "down" /\ status[p] = "processing") ~> status[p] # "processing"
=============================================================================
