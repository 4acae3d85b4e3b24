----------------------------- MODULE SmsWebhook -----------------------------
(***************************************************************************)
(* The central bank-message webhook of sub_http_server.  A telephone       *)
(* forwards every message of the bank; a message tells of one deposit and  *)
(* may be sent again, under its own event id or a new one.  A thread of    *)
(* the server looks for the one payment the deposit was made for -- a card *)
(* payment of a user (userbot.db) or a top-up of a representative          *)
(* (agent_bot.db) -- and approves it, one transaction per look and per     *)
(* write.  Without a payment the message is kept; UserBot looks at the     *)
(* kept ones when a user sends a receipt, AgentBot when a representative   *)
(* does.  The administrator approves and un-approves by hand.  Exceptions  *)
(* that the code catches let a request go on without one of its writes.    *)
(*                                                                         *)
(* Whether a message fits a payment are the constants SameAmount (amount   *)
(* and time) and Fits (the card too).  Manual approvals are all recent.    *)
(***************************************************************************)
EXTENDS Integers, FiniteSets

CONSTANTS
    Payments,      \* card payments of users
    DirectBuy,     \* those whose flow is direct_buy
    Charges,       \* top-ups of representatives
    Events,        \* event ids
    Deposits,
    DepositOf,     \* event id -> the deposit its message tells of
    NoReference,   \* deposits whose message carries no reference number
    SameAmount,    \* <<event, payment or top-up>>: the amount and the time agree
    Fits,          \* those whose card agrees too
    Workers,       \* threads of the server
    Nothing,
    MaxSends,      \* bound on requests
    MaxUpsets      \* bound on buttons pressed in AdminBot and on crashes

Targets == Payments \cup Charges

ASSUME SmsAssumption ==
    /\ IsFiniteSet(Targets) /\ IsFiniteSet(Events)
    /\ Payments \cap Charges = {} /\ DirectBuy \subseteq Payments
    /\ DepositOf \in [Events -> Deposits] /\ NoReference \subseteq Deposits
    /\ Fits \subseteq SameAmount /\ SameAmount \subseteq Events \X Targets
    /\ Nothing \notin Targets \cup Events \cup Deposits
    /\ {MaxSends, MaxUpsets} \subseteq Nat

VARIABLES
    status,   \* userbot_payments.status, agent_payments.status
    smsOf,    \* sms_event_id in their meta: the message that approved them
    event,    \* userbot_sms_webhook_events: status and matched payment
    worker,   \* the requests in work
    receipt,  \* try_approve_payment_from_unmatched_sms, in UserBot
    topup,    \* try_approve_wallet_charge_from_unmatched_sms, in AgentBot
    sends, upsets, \* counters for the bounds
    uses,     \* history: the targets a deposit approved or was attached to
    met,      \* history: pairs of deposits, or a deposit and a target, worked
              \* on at the same time; <<d, d>> also when work on d was cut short
    raised,   \* history: deposits a top-up took in a call that raised
    unwritten, \* history: approved payments whose message was not written
    undone,   \* history: targets the administrator took an approval or a
              \* rejection back from
    stopped   \* history: payments whose receipt stopped at a second copy of a
              \* message that was used

rowVars == <<status, smsOf>>
history == <<uses, met, undone, stopped, raised, unwritten>>
vars == <<rowVars, event, worker, receipt, topup, sends, upsets, history>>

PaymentStatuses == {"none", "pending", "processing", "approved", "rejected"}
OpenStatuses == {"none", "received", "no_pending_match", "ambiguous", "approve_failed"}
MatchedStatuses == {"approved", "approved_duplicate", "sms_reused"}
EventRows ==
    [status : OpenStatuses, matched : {Nothing}] \cup [status : MatchedStatuses, matched : Targets]
WorkerPCs == {"idle", "approved", "prior", "manual", "attach", "charges", "late", "pending",
              "scope", "charge", "approve", "patch", "mark"}

Row(s, m) == [status |-> s, matched |-> m]
NoRow == Row("none", Nothing)
Idle == [pc |-> "idle", e |-> Nothing, p |-> Nothing, found |-> {}, row |-> NoRow, owed |-> {}]
NoReceipt == [pc |-> "idle", p |-> Nothing, e |-> Nothing, todo |-> {}, row |-> NoRow]
NoTopup == [pc |-> "idle", p |-> Nothing, e |-> Nothing, row |-> NoRow]

At(w, pc) == worker[w].pc = pc
E(w) == worker[w].e
Goto(w, pc) == worker' = [worker EXCEPT ![w].pc = pc]
With(w, pc, p) == worker' = [worker EXCEPT ![w].pc = pc, ![w].p = p]
\* The request ends with this row for its event.
Decide(w, s, m) == worker' = [worker EXCEPT ![w].pc = "mark", ![w].row = Row(s, m)]
Use(e, p) == uses' = [uses EXCEPT ![DepositOf[e]] = @ \cup {p}]

FitFor(e, S) == {p \in S : <<e, p>> \in Fits}
Alike(e, S) == {p \in S : <<e, p>> \in SameAmount}
TheOne(S) == CHOOSE p \in S : TRUE

-----------------------------------------------------------------------------
(* What the looks find.                                                    *)

\* Reference and sender agree, or the sender alone when neither message has a
\* reference.
SameTransfer(e, f) ==
    \/ DepositOf[e] = DepositOf[f]
    \/ DepositOf[e] \in NoReference /\ DepositOf[f] \in NoReference

\* find_approved_card_payment_by_sms_event
ApprovedBy(e) ==
    {p \in Payments : status[p] = "approved" /\ smsOf[p] # Nothing /\ SameTransfer(e, smsOf[p])}

\* Mutant: the search for an earlier message is left out.
Mutant_Prior(e) == {}

\* find_prior_approved_sms_webhook_event: the same text under another id
Prior(e) ==
    {f \in Events \ {e} : event[f].status = "approved" /\ DepositOf[f] = DepositOf[e]}

\* Mutant: a payment approved by hand is not looked for.
Mutant_Manual(e) == {}

\* find_recently_admin_approved_card_payments, whatever the card
Manual(e) ==
    {p \in Alike(e, Payments \ DirectBuy) : status[p] = "approved" /\ smsOf[p] = Nothing}

\* find_recently_approved_wallet_charge_payments
ManualCharges(e) == {c \in FitFor(e, Charges) : status[c] = "approved" /\ smsOf[c] = Nothing}

\* find_pending_card_payments_by_amount, find_pending_wallet_charge_payments_by_amount
Pending(e, S) == {p \in FitFor(e, S) : status[p] \in {"pending", "processing"}}

\* Mutant: a message that found several payments is not kept for later ones.
Mutant_Kept == {}

\* The messages the two receipts look at.
Kept == {e \in Events : event[e].status = "no_pending_match"}

-----------------------------------------------------------------------------
(* A request.                                                              *)

Busy == {E(w) : w \in {v \in Workers : ~At(v, "idle")}}
\* What else is being worked on when a request for e starts.
Meets(e) ==
    LET d == DepositOf[e]
        requests == {DepositOf[f] : f \in Busy}
        receipts == {receipt.p, topup.p} \ {Nothing}
    IN {<<d, x>> : x \in requests \cup receipts} \cup {<<x, d>> : x \in requests}

Retryable == {"received", "no_pending_match", "ambiguous"}

\* _handle_sms_webhook: the event is recorded; one that was decided is not
\* looked at again.
Send(w, e) ==
    /\ At(w, "idle")
    /\ sends < MaxSends
    /\ event[e].status \in Retryable \cup {"none"}
    /\ sends' = sends + 1
    /\ event' = IF event[e].status = "none" THEN [event EXCEPT ![e] = Row("received", Nothing)] ELSE event
    /\ worker' = [worker EXCEPT ![w] =
          [Idle EXCEPT !.pc = "approved", !.e = e,
                       !.owed = {p \in Alike(e, Payments) : status[p] = "approved" /\ smsOf[p] = Nothing}]]
    /\ met' = met \cup Meets(e)
    /\ UNCHANGED <<rowVars, receipt, topup, upsets, uses, undone, stopped, raised, unwritten>>

others == <<event, receipt, topup, sends, upsets>>
requestOnly == <<rowVars, others, history>>

LookApproved(w) ==
    /\ At(w, "approved")
    /\ \/ ApprovedBy(E(w)) = {} /\ Goto(w, "prior")
       \/ \E p \in ApprovedBy(E(w)) : Decide(w, "approved", p)
    /\ UNCHANGED requestOnly

LookPrior(w) ==
    /\ At(w, "prior")
    /\ \/ Prior(E(w)) = {} /\ Goto(w, "manual")
       \/ \E f \in Prior(E(w)) : Decide(w, "approved_duplicate", event[f].matched)
    /\ UNCHANGED requestOnly

LookManual(w) ==
    /\ At(w, "manual")
    /\ \/ Manual(E(w)) = {} /\ Goto(w, "charges")
       \/ \E p \in Manual(E(w)) : With(w, "attach", p)
    /\ UNCHANGED requestOnly

\* attach_sms_event_to_approved_payment
Attach(w) ==
    LET p == worker[w].p
    IN /\ At(w, "attach")
       /\ smsOf' = [smsOf EXCEPT ![p] = E(w)]
       /\ Use(E(w), p)
       /\ Decide(w, "approved", p)
       /\ UNCHANGED <<status, others, met, undone, stopped, raised, unwritten>>

\* An exception of the write is swallowed: the request ends all the same.
AttachSwallowed(w) ==
    /\ At(w, "attach")
    /\ Decide(w, "approved", worker[w].p)
    /\ unwritten' = unwritten \cup {worker[w].p}
    /\ UNCHANGED <<rowVars, others, uses, met, undone, stopped, raised>>

\* The top-ups approved by hand: none, several, or one.  An exception is logged
\* and passed over.
LookCharges(w) ==
    LET M == ManualCharges(E(w))
    IN /\ At(w, "charges")
       /\ \/ Goto(w, "pending")
          \/ Cardinality(M) > 1 /\ Decide(w, "ambiguous", Nothing)
          \/ Cardinality(M) = 1 /\ With(w, "late", TheOne(M))
       /\ UNCHANGED requestOnly

LookPending(w) ==
    /\ At(w, "pending")
    /\ worker' = [worker EXCEPT ![w].pc = "scope", ![w].found = Pending(E(w), Payments)]
    /\ UNCHANGED requestOnly

\* The pending top-ups; an exception counts as none.
LookScope(w) ==
    LET found == worker[w].found
    IN /\ At(w, "scope")
       /\ \E C \in {Pending(E(w), Charges), {}} :
            \/ found = {} /\ C = {} /\ Decide(w, "no_pending_match", Nothing)
            \/ Cardinality(found \cup C) > 1 /\ Decide(w, "ambiguous", Nothing)
            \/ \E c \in C : found \cup C = {c} /\ With(w, "charge", c)
            \/ \E p \in found : found \cup C = {p} /\ With(w, "approve", p)
       /\ UNCHANGED requestOnly

\* approve_wallet_charge_from_sms, in one step (WalletTopup has its parts): a
\* message is attached to one top-up and a top-up takes one message.
Takes(c, e) ==
    /\ status[c] \in {"pending", "processing", "approved"} /\ smsOf[c] \in {Nothing, e}
    /\ \A other \in Charges \ {c} : smsOf[other] # e
Take(c, e) ==
    /\ status' = [status EXCEPT ![c] = "approved"]
    /\ smsOf' = [smsOf EXCEPT ![c] = e]
    /\ Use(e, c)
\* It raises: before its first write, when the top-up has its message and is
\* released without the money, or with the money -- in processing, for the next
\* recovery, or approved.
TakeRaises(c, e) ==
    \/ UNCHANGED <<rowVars, uses, raised>>
    \/ /\ Takes(c, e)
       /\ smsOf' = [smsOf EXCEPT ![c] = e]
       /\ \/ UNCHANGED <<status, uses, raised>>
          \/ /\ status' \in {[status EXCEPT ![c] = st] : st \in {"processing", "approved"}}
             /\ Use(e, c)
             /\ raised' = raised \cup {DepositOf[e]}

\* For a top-up approved by hand ("late") and for a pending one.
ApproveCharge(w) ==
    LET c == worker[w].p
        e == E(w)
    IN /\ At(w, "late") \/ At(w, "charge")
       /\ IF Takes(c, e)
            THEN Take(c, e) /\ Decide(w, "approved", c)
            ELSE UNCHANGED <<rowVars, uses>> /\ Decide(w, "approve_failed", Nothing)
       /\ UNCHANGED <<others, met, undone, stopped, raised, unwritten>>

\* An exception: the look at the manual approvals goes on to the pending ones,
\* the other one ends the request.
ChargeRaises(w) ==
    /\ \/ At(w, "late") /\ Goto(w, "pending")
       \/ At(w, "charge") /\ Decide(w, "approve_failed", Nothing)
    /\ TakeRaises(worker[w].p, E(w))
    /\ UNCHANGED <<others, met, undone, stopped, unwritten>>

\* approve_pending_card_payment_from_sms: the status ...  It is not looked at
\* again: an approved payment counts as approved, a rejected one is approved.
Approve(w) ==
    LET p == worker[w].p
    IN /\ At(w, "approve")
       /\ status' = [status EXCEPT ![p] = "approved"]
       /\ Use(E(w), p)
       /\ Goto(w, "patch")
       /\ UNCHANGED <<smsOf, others, met, undone, stopped, raised, unwritten>>

\* ... and then the meta.
Patch(w) ==
    LET p == worker[w].p
    IN /\ At(w, "patch")
       /\ smsOf' = [smsOf EXCEPT ![p] = E(w)]
       /\ Decide(w, "approved", p)
       /\ UNCHANGED <<status, others, history>>

\* Mutant: the match of an earlier attempt is kept.
Mutant_Mark(w) ==
    /\ At(w, "mark")
    /\ event' = [event EXCEPT ![E(w)].status = worker[w].row.status]
    /\ worker' = [worker EXCEPT ![w] = Idle]
    /\ UNCHANGED <<rowVars, receipt, topup, sends, upsets, history>>

\* update_sms_webhook_event: whatever the event has become.
Mark(w) ==
    /\ At(w, "mark")
    /\ event' = [event EXCEPT ![E(w)] = worker[w].row]
    /\ worker' = [worker EXCEPT ![w] = Idle]
    /\ UNCHANGED <<rowVars, receipt, topup, sends, upsets, history>>

\* A request is cut short: a transaction raises, or the server dies.
Dies(w) ==
    /\ ~At(w, "idle")
    /\ upsets < MaxUpsets
    /\ upsets' = upsets + 1
    /\ worker' = [worker EXCEPT ![w] = Idle]
    /\ met' = met \cup {<<DepositOf[E(w)], DepositOf[E(w)]>>}
    /\ UNCHANGED <<rowVars, event, receipt, topup, sends, uses, undone, stopped, raised, unwritten>>

-----------------------------------------------------------------------------
(* A receipt: a payment is made and the kept messages are looked at.       *)

Working(w) == ~At(w, "idle")
receiptOnly == <<worker, topup, sends, upsets, undone, raised, unwritten>>
\* The deposits with a kept message: two receipts may take them at once.
BothLook(r, p) == IF r.pc = "idle" THEN {} ELSE {<<DepositOf[f], p>> : f \in Kept}

CreatePayment(p) ==
    /\ receipt.pc = "idle"
    /\ status[p] = "none"
    /\ status' = [status EXCEPT ![p] = "pending"]
    /\ receipt' = [NoReceipt EXCEPT !.pc = "look", !.p = p]
    /\ met' = met \cup {<<DepositOf[f], p>> : f \in Busy} \cup BothLook(topup, topup.p)
    /\ UNCHANGED <<receiptOnly, smsOf, event, uses, stopped>>

ReceiptLook ==
    /\ receipt.pc = "look"
    /\ receipt' = IF status[receipt.p] = "pending" THEN [receipt EXCEPT !.pc = "each", !.todo = Kept] ELSE NoReceipt
    /\ UNCHANGED <<receiptOnly, rowVars, event, uses, met, stopped>>

\* One kept message: a second copy, of the amount, of one that was used ends
\* the search.
ReceiptConsider(e) ==
    LET again == Prior(e) # {} /\ <<e, receipt.p>> \in SameAmount
    IN
    /\ receipt.pc = "each"
    /\ e \in receipt.todo
    /\ receipt' =
         IF again
           THEN [receipt EXCEPT !.pc = "mark", !.e = e,
                                !.row = Row("sms_reused", event[TheOne(Prior(e))].matched)]
           ELSE IF <<e, receipt.p>> \in Fits
                  THEN [receipt EXCEPT !.pc = "approve", !.e = e]
                  ELSE [receipt EXCEPT !.todo = @ \ {e}]
    /\ stopped' = IF again THEN stopped \cup {receipt.p} ELSE stopped
    /\ UNCHANGED <<receiptOnly, rowVars, event, uses, met>>

ReceiptFindsNone ==
    /\ receipt.pc = "each"
    /\ receipt.todo = {}
    /\ receipt' = NoReceipt
    /\ UNCHANGED <<receiptOnly, rowVars, event, uses, met, stopped>>

ReceiptApprove ==
    /\ receipt.pc = "approve"
    /\ status' = [status EXCEPT ![receipt.p] = "approved"]
    /\ Use(receipt.e, receipt.p)
    /\ receipt' = [receipt EXCEPT !.pc = "patch"]
    /\ UNCHANGED <<receiptOnly, smsOf, event, met, stopped>>

ReceiptPatch ==
    /\ receipt.pc = "patch"
    /\ smsOf' = [smsOf EXCEPT ![receipt.p] = receipt.e]
    /\ receipt' = [receipt EXCEPT !.pc = "mark", !.row = Row("approved", receipt.p)]
    /\ UNCHANGED <<receiptOnly, status, event, uses, met, stopped>>

ReceiptMark ==
    /\ receipt.pc = "mark"
    /\ event' = [event EXCEPT ![receipt.e] = receipt.row]
    /\ receipt' = NoReceipt
    /\ UNCHANGED <<receiptOnly, rowVars, uses, met, stopped>>

ReceiptDies ==
    /\ receipt.pc # "idle"
    /\ upsets < MaxUpsets
    /\ upsets' = upsets + 1
    /\ receipt' = NoReceipt
    /\ met' = met \cup {<<d, receipt.p>> : d \in Deposits}
    /\ UNCHANGED <<rowVars, event, worker, topup, sends, uses, undone, stopped, raised, unwritten>>

-----------------------------------------------------------------------------
(* The receipt of a representative: a top-up is made and the kept messages *)
(* are looked at.                                                          *)

topupOnly == <<worker, receipt, sends, upsets, undone, stopped, unwritten>>

\* create_wallet_charge_payment
CreateCharge(c) ==
    /\ topup.pc = "idle"
    /\ status[c] = "none"
    /\ status' = [status EXCEPT ![c] = "pending"]
    /\ topup' = [NoTopup EXCEPT !.pc = "look", !.p = c]
    /\ met' = met \cup {<<DepositOf[f], c>> : f \in Busy} \cup BothLook(receipt, c)
    /\ UNCHANGED <<topupOnly, smsOf, event, uses, raised>>

\* The messages that fit and are no second copies: it takes the only one.
TopupLook ==
    LET eligible == {e \in Kept : <<e, topup.p>> \in Fits /\ Prior(e) = {}}
    IN /\ topup.pc = "look"
       /\ topup' = IF status[topup.p] = "pending" /\ Cardinality(eligible) = 1
                     THEN [topup EXCEPT !.pc = "take", !.e = TheOne(eligible)]
                     ELSE NoTopup
       /\ UNCHANGED <<topupOnly, rowVars, event, uses, met, raised>>

TopupTake ==
    /\ topup.pc = "take"
    /\ IF Takes(topup.p, topup.e)
         THEN /\ Take(topup.p, topup.e)
              /\ topup' = [topup EXCEPT !.pc = "mark", !.row = Row("approved", topup.p)]
         ELSE /\ UNCHANGED <<rowVars, uses>>
              /\ topup' = [topup EXCEPT !.pc = "mark", !.row = Row("approve_failed", Nothing)]
    /\ UNCHANGED <<topupOnly, event, met, raised>>

TopupMark ==
    /\ topup.pc = "mark"
    /\ event' = [event EXCEPT ![topup.e] = topup.row]
    /\ topup' = NoTopup
    /\ UNCHANGED <<topupOnly, rowVars, uses, met, raised>>

\* It raises, which the handler catches, or AgentBot stops.
TopupStops ==
    /\ topup.pc # "idle"
    /\ topup' = NoTopup
    /\ \/ topup.pc = "look" /\ UNCHANGED <<rowVars, uses, raised>>
       \/ topup.pc = "take" /\ TakeRaises(topup.p, topup.e)
       \/ /\ topup.pc = "mark" /\ UNCHANGED <<rowVars, uses>>
          /\ raised' = IF topup.row.status = "approved" THEN raised \cup {DepositOf[topup.e]} ELSE raised
    /\ UNCHANGED <<topupOnly, event, met>>

\* recover_processing_agent_wallet_payments, when AdminBot starts
Recover(c) ==
    /\ status[c] = "processing"
    /\ status' = [status EXCEPT ![c] = "approved"]
    /\ UNCHANGED <<topupOnly, smsOf, event, topup, uses, met, raised>>

-----------------------------------------------------------------------------
(* AdminBot.                                                               *)

\* A payment is set to any status; a top-up is decided once.
AdminSet(p, target) ==
    /\ upsets < MaxUpsets
    /\ upsets' = upsets + 1
    /\ status[p] \notin {"none", target}
    /\ p \in Charges => status[p] = "pending"
    /\ status' = [status EXCEPT ![p] = target]
    /\ undone' = IF status[p] = "pending" THEN undone ELSE undone \cup {p}
    /\ worker' = [w \in Workers |-> [worker[w] EXCEPT !.owed = @ \ {p}]]
    /\ UNCHANGED <<smsOf, event, receipt, topup, sends, uses, met, stopped, raised, unwritten>>

-----------------------------------------------------------------------------
Init ==
    /\ status = [p \in Targets |-> "none"]
    /\ smsOf = [p \in Targets |-> Nothing]
    /\ event = [e \in Events |-> NoRow]
    /\ worker = [w \in Workers |-> Idle]
    /\ receipt = NoReceipt /\ topup = NoTopup
    /\ sends = 0 /\ upsets = 0
    /\ uses = [d \in Deposits |-> {}] /\ met = {} /\ undone = {} /\ stopped = {}
    /\ raised = {} /\ unwritten = {}

RequestStep(w) ==
    \/ LookApproved(w) \/ LookPrior(w) \/ LookManual(w) \/ Attach(w) \/ AttachSwallowed(w)
    \/ LookCharges(w) \/ LookPending(w) \/ LookScope(w) \/ ApproveCharge(w) \/ ChargeRaises(w)
    \/ Approve(w) \/ Patch(w) \/ Mark(w)

ReceiptStep ==
    \/ ReceiptLook \/ \E e \in Events : ReceiptConsider(e)
    \/ ReceiptFindsNone \/ ReceiptApprove \/ ReceiptPatch \/ ReceiptMark

Next ==
    \/ \E w \in Workers, e \in Events : Send(w, e)
    \/ \E w \in Workers : RequestStep(w) \/ Dies(w)
    \/ \E p \in Payments : CreatePayment(p)
    \/ ReceiptStep
    \/ ReceiptDies
    \/ \E c \in Charges : CreateCharge(c) \/ Recover(c)
    \/ TopupLook \/ TopupTake \/ TopupMark \/ TopupStops
    \/ \E p \in Targets : \E target \in {"pending", "approved", "rejected"} : AdminSet(p, target)

Spec == Init /\ [][Next]_vars

-----------------------------------------------------------------------------
TypeOK ==
    /\ status \in [Targets -> PaymentStatuses]
    /\ smsOf \in [Targets -> Events \cup {Nothing}]
    /\ event \in [Events -> EventRows]
    /\ worker \in [Workers -> [pc : WorkerPCs, e : Events \cup {Nothing}, p : Targets \cup {Nothing},
                               found : SUBSET Payments, row : EventRows, owed : SUBSET Payments]]
    /\ receipt \in [pc : {"idle", "look", "each", "approve", "patch", "mark"},
                    p : Payments \cup {Nothing}, e : Events \cup {Nothing},
                    todo : SUBSET Events, row : EventRows]
    /\ topup \in [pc : {"idle", "look", "take", "mark"}, p : Charges \cup {Nothing},
                  e : Events \cup {Nothing}, row : EventRows]
    /\ sends \in 0..MaxSends /\ upsets \in 0..MaxUpsets
    /\ uses \in [Deposits -> SUBSET Targets]
    /\ met \in SUBSET (Deposits \X (Deposits \cup Targets))
    /\ undone \in SUBSET Targets /\ stopped \in SUBSET Payments
    /\ raised \in SUBSET Deposits /\ unwritten \in SUBSET Payments

Met(d, x) == <<d, x>> \in met

\* A deposit pays for one thing: however often its message is sent, under one
\* id or several, kept, retried or matched by hand -- unless two requests for it
\* overlapped, one was cut short, it was handled or kept while a receipt was
\* looked at, or a top-up took it in a call that raised.
SpentOnce ==
    \A d \in Deposits : Cardinality(uses[d]) > 1 =>
        Met(d, d) \/ (\E p \in Targets : Met(d, p)) \/ d \in raised

\* No deposit is swallowed: two deposits with a reference number do not end as
\* the messages of one payment, unless they were handled together, the payment
\* was un-approved, or its first message was not written to it.
NotSwallowed ==
    \A e, f \in Events :
        /\ event[e].status = "approved" /\ event[f].status = "approved"
        /\ event[e].matched = event[f].matched /\ event[e].matched \notin undone \cup unwritten
        /\ {DepositOf[e], DepositOf[f]} \cap NoReference = {}
        => LET d == DepositOf[e]
               c == DepositOf[f]
           IN \/ d = c \/ Met(d, c) \/ Met(d, event[e].matched) \/ Met(c, event[e].matched)

\* A deposit pays for one thing, and a thing is paid for by one deposit.
OneDepositPerPayment == SpentOnce /\ NotSwallowed

\* A payment that was approved by hand before the message came, and still has
\* none, is not passed over for one that is pending.  (A direct purchase is:
\* the code does not look for it.)
ManualKeepsItsMessage ==
    \A w \in Workers : At(w, "patch") =>
        \A q \in worker[w].owed \ (DirectBuy \cup {worker[w].p}) :
            status[q] = "approved" => smsOf[q] # Nothing

\* When nothing is being worked on, no payment waits beside a kept message that
\* fits it, unless message and receipt crossed, its receipt was cut short or
\* stopped at a second copy of a used message, or it was made pending again by
\* hand.
NoLostMatch ==
    (\A w \in Workers : At(w, "idle")) /\ receipt.pc = "idle" =>
        \A e \in Events, p \in Payments :
            /\ event[e].status = "no_pending_match" /\ status[p] = "pending" /\ <<e, p>> \in Fits
            /\ p \notin undone
            => Met(DepositOf[e], p) \/ p \in stopped
=============================================================================
