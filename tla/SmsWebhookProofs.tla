--------------------------- MODULE SmsWebhookProofs ---------------------------
(***************************************************************************)
(* The central webhook, for any number of payments, deposits, event ids    *)
(* and threads, and any number of requests, deaths and buttons.            *)
(***************************************************************************)
EXTENDS SmsWebhook, FiniteSetTheorems, TLAPS

WorkerRec == [pc : WorkerPCs, e : Events \cup {Nothing}, p : Targets \cup {Nothing},
              found : SUBSET Payments, row : EventRows, owed : SUBSET Payments]
ReceiptPCs == {"idle", "look", "each", "approve", "patch", "mark"}
ReceiptRec == [pc : ReceiptPCs, p : Payments \cup {Nothing}, e : Events \cup {Nothing},
               todo : SUBSET Events, row : EventRows]
TopupRec == [pc : {"idle", "look", "take", "mark"}, p : Charges \cup {Nothing},
             e : Events \cup {Nothing}, row : EventRows]

-----------------------------------------------------------------------------
(***************************************************************************)
(* The inductive invariant, part by part.                                  *)
(***************************************************************************)
Of(w) == DepositOf[E(w)]
Works(w, d) == Working(w) /\ Of(w) = d

\* A request has an event, and a target of the right kind where it has one.
WorkerOK(w) ==
    /\ Working(w) => E(w) \in Events
    /\ worker[w].pc \in {"attach", "approve", "patch"} => worker[w].p \in Payments
    /\ worker[w].pc \in {"late", "charge"} => worker[w].p \in Charges

ReceiptOK ==
    /\ receipt.pc # "idle" => receipt.p \in Payments
    /\ receipt.pc \in {"approve", "patch", "mark"} => receipt.e \in Events
    /\ receipt.pc = "mark" => receipt.row.status \in {"approved", "sms_reused"}

TopupOK ==
    /\ topup.pc # "idle" => topup.p \in Charges
    /\ topup.pc \in {"take", "mark"} => topup.e \in Events
    /\ topup.pc = "mark" => topup.row.status \in {"approved", "approve_failed"}

\* Who works at the same time is on record.
MetOK ==
    \A w \in Workers : Working(w) =>
        /\ \A v \in Workers \ {w} : Working(v) => Met(Of(w), Of(v))
        /\ receipt.pc # "idle" => Met(Of(w), receipt.p)
        /\ topup.pc # "idle" => Met(Of(w), topup.p)

\* A deposit of which no two requests overlapped, none was cut short and none
\* overlapped with a receipt, and which no top-up took in a call that raised.
Clean(d) == ~Met(d, d) /\ (\A p \in Targets : ~Met(d, p)) /\ d \notin raised

\* The use of a deposit is in the books, or about to be written there.
InBooks(d) == \E e \in Events : DepositOf[e] = d /\ event[e].status = "approved"
Booking(w) == At(w, "patch") \/ (At(w, "mark") /\ worker[w].row.status = "approved")
ReceiptBooks == receipt.pc = "patch" \/ (receipt.pc = "mark" /\ receipt.row.status = "approved")
TopupBooks == topup.pc = "mark" /\ topup.row.status = "approved"
Deciding(w) ==
    worker[w].pc \in {"manual", "attach", "charges", "late", "pending", "scope", "charge", "approve"}

\* What is used is used once, and booked.
BookedOK(d) ==
    /\ \A p, q \in uses[d] : p = q
    /\ uses[d] # {} => \/ InBooks(d)
                       \/ \E w \in Workers : Works(w, d) /\ Booking(w)
                       \/ ReceiptBooks /\ DepositOf[receipt.e] = d
                       \/ TopupBooks /\ DepositOf[topup.e] = d

\* A request that decides works on a deposit that is not used.
RequestsOK(d) ==
    \A w \in Workers : Works(w, d) =>
        /\ event[E(w)].status \in Retryable
        /\ Deciding(w) => uses[d] = {}

\* So does a receipt, and its message is kept.
ReceiptsOK(d) ==
    /\ receipt.pc = "each" =>
           \A e \in receipt.todo : DepositOf[e] = d => event[e].status = "no_pending_match"
    /\ receipt.pc \in {"approve", "patch", "mark"} /\ DepositOf[receipt.e] = d =>
           /\ event[receipt.e].status = "no_pending_match"
           /\ receipt.pc = "approve" => uses[d] = {}
    /\ topup.pc \in {"take", "mark"} /\ DepositOf[topup.e] = d =>
           /\ event[topup.e].status = "no_pending_match"
           /\ topup.pc = "take" => uses[d] = {}

\* Two receipts do not look at the same kept message.
KeptFor(d) == \E e \in Events : DepositOf[e] = d /\ event[e].status = "no_pending_match"
ApartLooks(d) == receipt.pc # "idle" /\ topup.pc # "idle" => ~KeptFor(d)

SpentOK(d) == Clean(d) => BookedOK(d) /\ RequestsOK(d) /\ ReceiptsOK(d) /\ ApartLooks(d)

SpentsOK == \A d \in Deposits : SpentOK(d)

Past == {"charges", "late", "pending", "scope", "charge", "approve", "patch"}
\* A payment that is owed the message stays approved, and once the look at the
\* payments approved by hand has found none, has a message.
OwedOK(w) ==
    \A q \in worker[w].owed :
        /\ status[q] = "approved" /\ <<E(w), q>> \in SameAmount
        /\ worker[w].pc \in Past => q \in DirectBuy \/ smsOf[q] # Nothing

\* A kept message and a pending payment it fits: the receipt of the payment is
\* still to come to the message.
Waits(e, p) ==
    /\ status[p] = "pending" /\ <<e, p>> \in Fits
    /\ p \notin undone \cup stopped /\ ~Met(DepositOf[e], p)

MatchOK(e, p) ==
    event[e].status = "no_pending_match" /\ Waits(e, p) =>
        /\ receipt.p = p
        /\ \/ receipt.pc \in {"look", "approve"}
           \/ receipt.pc = "each" /\ e \in receipt.todo

\* A request that is about to keep its message has seen the pending payments.
KeepOK(w) ==
    /\ At(w, "scope") => \A p \in Payments : Waits(E(w), p) => p \in worker[w].found
    /\ At(w, "mark") /\ worker[w].row.status = "no_pending_match"
         => \A p \in Payments : ~Waits(E(w), p)

MatchesOK == \A e \in Events, p \in Payments : MatchOK(e, p)
WorkersOK == \A w \in Workers : WorkerOK(w)
OwedsOK == \A w \in Workers : Working(w) => OwedOK(w)
KeepsOK == \A w \in Workers : KeepOK(w)

Inv ==
    /\ WorkersOK /\ ReceiptOK /\ TopupOK /\ MetOK
    /\ SpentsOK /\ OwedsOK
    /\ MatchesOK /\ KeepsOK

-----------------------------------------------------------------------------
(***************************************************************************)
(* Which deposit a target is taken for: in the books, by a request or a    *)
(* receipt that has approved it or found it approved, or in the target's   *)
(* own row.                                                                *)
(***************************************************************************)
SaysApproved(row, p) == row.status = "approved" /\ row.matched = p

BookedFor(d, p) == \E e \in Events : DepositOf[e] = d /\ SaysApproved(event[e], p)
TakenBy(w, p) ==
    \/ At(w, "patch") /\ worker[w].p = p
    \/ At(w, "mark") /\ SaysApproved(worker[w].row, p)
TakenByReceipt(p) ==
    \/ receipt.pc = "patch" /\ receipt.p = p
    \/ receipt.pc = "mark" /\ SaysApproved(receipt.row, p)
TakenByTopup(p) == topup.pc = "mark" /\ SaysApproved(topup.row, p)
Carries(d, p) == smsOf[p] # Nothing /\ DepositOf[smsOf[p]] = d

Holds(d, p) ==
    \/ BookedFor(d, p)
    \/ \E w \in Workers : Works(w, d) /\ TakenBy(w, p)
    \/ TakenByReceipt(p) /\ DepositOf[receipt.e] = d
    \/ TakenByTopup(p) /\ DepositOf[topup.e] = d
    \/ Carries(d, p)

\* Its message was written to it, or the write failed.
Written(p) == smsOf[p] # Nothing \/ p \in unwritten

\* What is said to be approved was approved, and has a message when it is said.
HeldOK(p) ==
    /\ p \in Payments =>
           \A d \in Deposits : Holds(d, p) => status[p] = "approved" \/ p \in undone
    /\ p \in undone => status[p] # "none"
    /\ \A e \in Events : SaysApproved(event[e], p) => Written(p)
    /\ \A w \in Workers : At(w, "mark") /\ SaysApproved(worker[w].row, p) => Written(p)
    /\ receipt.pc = "mark" /\ SaysApproved(receipt.row, p) => smsOf[p] # Nothing /\ receipt.p = p
    /\ TakenByTopup(p) => smsOf[p] # Nothing

Excused(d, c, p) ==
    \/ p \in undone \cup unwritten \/ {d, c} \cap NoReference # {}
    \/ (Met(d, c) /\ Met(c, d)) \/ Met(d, p) \/ Met(c, p)

\* The payments a request may be about to approve.
Aims(w, p) ==
    \/ worker[w].pc \in {"attach", "approve"} /\ worker[w].p = p
    \/ At(w, "scope") /\ p \in worker[w].found

AimOK(w) ==
    \A p \in Payments : Aims(w, p) =>
        \A d \in Deposits \ {Of(w)} : Holds(d, p) => Excused(d, Of(w), p)

AttachOK(w) == At(w, "attach") => status[worker[w].p] = "approved" \/ worker[w].p \in undone

ReceiptAimOK ==
    receipt.pc # "idle" => \A d \in Deposits : Holds(d, receipt.p) =>
        \/ Met(d, receipt.p) \/ receipt.p \in undone
        \/ receipt.pc \in {"patch", "mark"} /\ DepositOf[receipt.e] = d

ApartOK ==
    \A p \in Targets : \A d, c \in Deposits : d # c /\ Holds(d, p) /\ Holds(c, p) => Excused(d, c, p)

HeldsOK == \A p \in Targets : HeldOK(p)
AimsOK == \A w \in Workers : Working(w) => AimOK(w) /\ AttachOK(w)

Claims == HeldsOK /\ AimsOK /\ ReceiptAimOK /\ ApartOK

-----------------------------------------------------------------------------
(* Who writes what.                                                        *)

USE DEF Next, RequestStep, ReceiptStep, Send, LookApproved, LookPrior, LookManual, Attach,
        AttachSwallowed, LookCharges, LookPending, LookScope, Takes, Take, TakeRaises,
        ApproveCharge, ChargeRaises, Approve, Patch, Mark, Dies,
        CreatePayment, ReceiptLook, ReceiptConsider, ReceiptFindsNone, ReceiptApprove, ReceiptPatch,
        ReceiptMark, ReceiptDies, CreateCharge, TopupLook, TopupTake, TopupMark, TopupStops, Recover,
        AdminSet, vars, rowVars, others, history, requestOnly, receiptOnly, topupOnly

LEMMA SmsWriters ==
    ASSUME [Next]_vars
    PROVE  \/ smsOf' = smsOf
           \/ \E w \in Workers : Working(w) /\ \E p : smsOf' = [smsOf EXCEPT ![p] = E(w)]
           \/ receipt.pc = "patch" /\ smsOf' = [smsOf EXCEPT ![receipt.p] = receipt.e]
           \/ topup.pc = "take" /\ smsOf' = [smsOf EXCEPT ![topup.p] = topup.e]
BY DEF Working, At

LEMMA EventWriters ==
    ASSUME [Next]_vars
    PROVE  \/ event' = event
           \/ \E e \in Events : event' = [event EXCEPT ![e] = Row("received", Nothing)]
           \/ \E w \in Workers : event' = [event EXCEPT ![E(w)] = worker[w].row]
           \/ event' = [event EXCEPT ![receipt.e] = receipt.row]
           \/ event' = [event EXCEPT ![topup.e] = topup.row]
OBVIOUS

LEMMA ReceiptWriters ==
    ASSUME [Next]_vars
    PROVE  \/ receipt' = receipt \/ receipt' = NoReceipt
           \/ \E p \in Payments : CreatePayment(p)
           \/ ReceiptStep
OBVIOUS

LEMMA TopupWriters ==
    ASSUME [Next]_vars
    PROVE  \/ topup' = topup \/ topup' = NoTopup
           \/ \E c \in Charges : CreateCharge(c)
           \/ TopupLook \/ TopupTake
OBVIOUS

LEMMA MetWriters ==
    ASSUME [Next]_vars
    PROVE  \/ met' = met
           \/ \E e \in Events : met' = met \cup Meets(e)
           \/ \E w \in Workers : Working(w) /\ met' = met \cup {<<DepositOf[E(w)], DepositOf[E(w)]>>}
           \/ \E p \in Payments :
                  met' = met \cup {<<DepositOf[f], p>> : f \in Busy} \cup BothLook(topup, topup.p)
           \/ \E c \in Charges :
                  met' = met \cup {<<DepositOf[f], c>> : f \in Busy} \cup BothLook(receipt, c)
           \/ receipt.pc # "idle" /\ met' = met \cup {<<d, receipt.p>> : d \in Deposits}
BY DEF Working

LEMMA UndoneWriters ==
    ASSUME [Next]_vars
    PROVE  /\ undone' = undone \/ \E p \in Targets : undone' = undone \cup {p}
           /\ stopped' = stopped \/ (receipt.pc = "each" /\ stopped' = stopped \cup {receipt.p})
<1>1. undone' = undone \/ \E p \in Targets : undone' = undone \cup {p}
    OBVIOUS
<1>2. stopped' = stopped \/ (receipt.pc = "each" /\ stopped' = stopped \cup {receipt.p})
    OBVIOUS
<1> QED
    BY <1>1, <1>2

LEMMA RaisedWriters ==
    ASSUME [Next]_vars
    PROVE  /\ \/ raised' = raised
              \/ \E w \in Workers : Working(w) /\ raised' = raised \cup {DepositOf[E(w)]}
              \/ topup.pc \in {"take", "mark"} /\ raised' = raised \cup {DepositOf[topup.e]}
           /\ unwritten' = unwritten
              \/ \E w \in Workers : At(w, "attach") /\ unwritten' = unwritten \cup {worker[w].p}
<1>1. \/ raised' = raised
      \/ \E w \in Workers : Working(w) /\ raised' = raised \cup {DepositOf[E(w)]}
      \/ topup.pc \in {"take", "mark"} /\ raised' = raised \cup {DepositOf[topup.e]}
    BY DEF Working, At
<1>2. \/ unwritten' = unwritten
      \/ \E w \in Workers : At(w, "attach") /\ unwritten' = unwritten \cup {worker[w].p}
    OBVIOUS
<1> QED
    BY <1>1, <1>2

LEMMA UndoneChanges ==
    ASSUME [Next]_vars
    PROVE  \/ undone' = undone
           \/ \E p \in Targets : status[p] # "none" /\ undone' = undone \cup {p}
OBVIOUS

LEMMA CountWriters ==
    ASSUME [Next]_vars
    PROVE  /\ sends' = sends \/ (sends < MaxSends /\ sends' = sends + 1)
           /\ upsets' = upsets \/ (upsets < MaxUpsets /\ upsets' = upsets + 1)
<1>1. sends' = sends \/ (sends < MaxSends /\ sends' = sends + 1)
    OBVIOUS
<1>2. upsets' = upsets \/ (upsets < MaxUpsets /\ upsets' = upsets + 1)
    OBVIOUS
<1> QED
    BY <1>1, <1>2

HIDE DEF Next, RequestStep, ReceiptStep, Send, LookApproved, LookPrior, LookManual, Attach,
         AttachSwallowed, LookCharges, LookPending, LookScope, Takes, Take, TakeRaises,
         ApproveCharge, ChargeRaises, Approve, Patch, Mark, Dies,
         CreatePayment, ReceiptLook, ReceiptConsider, ReceiptFindsNone, ReceiptApprove, ReceiptPatch,
         ReceiptMark, ReceiptDies, CreateCharge, TopupLook, TopupTake, TopupMark, TopupStops, Recover,
         AdminSet, vars, rowVars, others, history, requestOnly, receiptOnly, topupOnly

LEMMA WorkerWriters ==
    ASSUME [Next]_vars
    PROVE  \/ worker' = worker
           \/ \E w \in Workers, e \in Events : Send(w, e)
           \/ \E w \in Workers : RequestStep(w)
           \/ \E w \in Workers : worker' = [worker EXCEPT ![w] = Idle]
           \/ \E p : worker' = [w \in Workers |-> [worker[w] EXCEPT !.owed = @ \ {p}]]
<1>1. ReceiptStep => worker' = worker
    <2>1. \A e \in Events : ReceiptConsider(e) => worker' = worker
        BY DEF ReceiptConsider, receiptOnly
    <2>2. ReceiptLook \/ ReceiptFindsNone \/ ReceiptApprove \/ ReceiptPatch \/ ReceiptMark
          => worker' = worker
        BY DEF ReceiptLook, ReceiptFindsNone, ReceiptApprove, ReceiptPatch, ReceiptMark, receiptOnly
    <2> QED
        BY <2>1, <2>2 DEF ReceiptStep
<1>2. TopupLook \/ TopupTake \/ TopupMark \/ TopupStops => worker' = worker
    BY DEF TopupLook, TopupTake, TopupMark, TopupStops, topupOnly
<1>6. /\ \A p \in Payments : CreatePayment(p) => worker' = worker
      /\ \A c \in Charges : CreateCharge(c) \/ Recover(c) => worker' = worker
      /\ ReceiptDies => worker' = worker
    <2>1. ASSUME NEW p \in Payments, CreatePayment(p) PROVE worker' = worker
        BY <2>1 DEF CreatePayment, receiptOnly
    <2>2. ASSUME NEW c \in Charges, CreateCharge(c) PROVE worker' = worker
        BY <2>2 DEF CreateCharge, topupOnly
    <2>3. ASSUME NEW c \in Charges, Recover(c) PROVE worker' = worker
        BY <2>3 DEF Recover, topupOnly
    <2>4. ReceiptDies => worker' = worker
        BY DEF ReceiptDies
    <2> QED
        BY <2>1, <2>2, <2>3, <2>4
<1>3. ASSUME NEW p \in Targets, NEW target \in {"pending", "approved", "rejected"}, AdminSet(p, target)
      PROVE  worker' = [w \in Workers |-> [worker[w] EXCEPT !.owed = @ \ {p}]]
    BY <1>3 DEF AdminSet
<1>4. \A w \in Workers : Dies(w) => worker' = [worker EXCEPT ![w] = Idle]
    BY DEF Dies
<1>5. vars' = vars => worker' = worker
    BY DEF vars
<1> QED
    BY <1>1, <1>2, <1>6, <1>3, <1>4, <1>5 DEF Next

\* An approval, a payment or a top-up made, a top-up that raised, or the
\* administrator.
LEMMA StatusChanges ==
    ASSUME [Next]_vars
    PROVE  \/ status' = status
           \/ \E p : status' = [status EXCEPT ![p] = "approved"]
           \/ \E p \in Targets : status[p] = "none" /\ status' = [status EXCEPT ![p] = "pending"]
           \/ \E w \in Workers : /\ worker[w].pc \in {"late", "charge"}
                                 /\ status' = [status EXCEPT ![worker[w].p] = "processing"]
           \/ topup.pc = "take" /\ status' = [status EXCEPT ![topup.p] = "processing"]
           \/ \E p \in Targets : \E s \in {"pending", "approved", "rejected"} : AdminSet(p, s)
<1>1. ASSUME NEW w \in Workers, RequestStep(w)
      PROVE  \/ status' = status
             \/ \E p : status' = [status EXCEPT ![p] = "approved"]
             \/ /\ worker[w].pc \in {"late", "charge"}
                /\ status' = [status EXCEPT ![worker[w].p] = "processing"]
    <2>1. CASE ChargeRaises(w)
        BY <2>1 DEF ChargeRaises, TakeRaises, rowVars, At
    <2>2. CASE ApproveCharge(w)
        BY <2>2 DEF ApproveCharge, Take, rowVars
    <2> QED
        BY <1>1, <2>1, <2>2 DEF RequestStep, LookApproved, LookPrior, LookManual, Attach, AttachSwallowed,
           LookCharges, LookPending, LookScope, Approve, Patch, Mark, requestOnly, rowVars
<1>2. ReceiptStep => status' = status \/ \E p : status' = [status EXCEPT ![p] = "approved"]
    <2>1. \A e \in Events : ReceiptConsider(e) => status' = status
        BY DEF ReceiptConsider, rowVars
    <2>2. ReceiptLook \/ ReceiptFindsNone \/ ReceiptPatch \/ ReceiptMark => status' = status
        BY DEF ReceiptLook, ReceiptFindsNone, ReceiptPatch, ReceiptMark, rowVars
    <2>3. ReceiptApprove => \E p : status' = [status EXCEPT ![p] = "approved"]
        BY DEF ReceiptApprove
    <2> QED
        BY <2>1, <2>2, <2>3 DEF ReceiptStep
<1>3. \/ TopupLook \/ TopupTake \/ TopupMark \/ \E c \in Charges : Recover(c)
      => status' = status \/ \E p : status' = [status EXCEPT ![p] = "approved"]
    BY DEF TopupLook, TopupTake, Take, TopupMark, Recover, rowVars
<1>4. TopupStops => \/ status' = status
                    \/ \E p : status' = [status EXCEPT ![p] = "approved"]
                    \/ topup.pc = "take" /\ status' = [status EXCEPT ![topup.p] = "processing"]
    BY DEF TopupStops, TakeRaises, rowVars
<1>5. \/ \E p \in Payments : CreatePayment(p)
      \/ \E c \in Charges : CreateCharge(c)
      => \E p \in Targets : status[p] = "none" /\ status' = [status EXCEPT ![p] = "pending"]
    <2>1. ASSUME NEW p \in Payments, CreatePayment(p)
          PROVE  p \in Targets /\ status[p] = "none" /\ status' = [status EXCEPT ![p] = "pending"]
        BY <2>1 DEF CreatePayment, Targets
    <2>2. ASSUME NEW c \in Charges, CreateCharge(c)
          PROVE  c \in Targets /\ status[c] = "none" /\ status' = [status EXCEPT ![c] = "pending"]
        BY <2>2 DEF CreateCharge, Targets
    <2> QED
        BY <2>1, <2>2
<1>6. ASSUME NEW w \in Workers, NEW e \in Events, Send(w, e) PROVE status' = status
    BY <1>6 DEF Send, rowVars
<1>7. (\E w \in Workers : Dies(w)) \/ vars' = vars => status' = status
    BY DEF Dies, vars, rowVars
<1>8. ReceiptDies => status' = status
    BY DEF ReceiptDies, rowVars
<1> QED
    BY <1>1, <1>2, <1>3, <1>4, <1>5, <1>6, <1>7, <1>8 DEF Next

LEMMA StatusWriters ==
    ASSUME [Next]_vars
    PROVE  \/ status' = status
           \/ \E p : \E s \in PaymentStatuses : status' = [status EXCEPT ![p] = s]
<1>1. {"none", "pending", "processing", "approved", "rejected"} \subseteq PaymentStatuses
    BY DEF PaymentStatuses
<1>2. ASSUME NEW p \in Targets, NEW target \in {"pending", "approved", "rejected"}, AdminSet(p, target)
      PROVE  status' = [status EXCEPT ![p] = target]
    BY <1>2 DEF AdminSet
<1> HIDE DEF PaymentStatuses
<1> QED
    BY <1>1, <1>2, StatusChanges

LEMMA UsesWriters ==
    ASSUME [Next]_vars
    PROVE  \/ uses' = uses
           \/ \E w \in Workers : RequestStep(w) /\ Use(E(w), worker[w].p)
           \/ receipt.pc = "approve" /\ Use(receipt.e, receipt.p)
           \/ topup.pc = "take" /\ Use(topup.e, topup.p)
<1>1. ASSUME NEW w \in Workers, RequestStep(w)
      PROVE  uses' = uses \/ Use(E(w), worker[w].p)
    <2>1. CASE ChargeRaises(w)
        BY <2>1 DEF ChargeRaises, TakeRaises
    <2>2. CASE ApproveCharge(w)
        BY <2>2 DEF ApproveCharge, Take
    <2> QED
        BY <1>1, <2>1, <2>2 DEF RequestStep, LookApproved, LookPrior, LookManual, Attach, AttachSwallowed,
           LookCharges, LookPending, LookScope, Approve, Patch, Mark, requestOnly, history
<1>2. ReceiptStep => uses' = uses \/ (receipt.pc = "approve" /\ Use(receipt.e, receipt.p))
    <2>1. \A e \in Events : ReceiptConsider(e) => uses' = uses
        BY DEF ReceiptConsider
    <2>2. ReceiptLook \/ ReceiptFindsNone \/ ReceiptPatch \/ ReceiptMark => uses' = uses
        BY DEF ReceiptLook, ReceiptFindsNone, ReceiptPatch, ReceiptMark
    <2>3. ReceiptApprove => receipt.pc = "approve" /\ Use(receipt.e, receipt.p)
        BY DEF ReceiptApprove
    <2> QED
        BY <2>1, <2>2, <2>3 DEF ReceiptStep
<1>3. \/ TopupLook \/ TopupTake \/ TopupMark \/ TopupStops
      => uses' = uses \/ (topup.pc = "take" /\ Use(topup.e, topup.p))
    BY DEF TopupLook, TopupTake, Take, TopupMark, TopupStops, TakeRaises
<1>4. ASSUME NEW w \in Workers, NEW e \in Events, Send(w, e) PROVE uses' = uses
    BY <1>4 DEF Send
<1>5. ASSUME NEW p \in Payments, CreatePayment(p) PROVE uses' = uses
    BY <1>5 DEF CreatePayment
<1>6. ASSUME NEW c \in Charges, CreateCharge(c) \/ Recover(c) PROVE uses' = uses
    BY <1>6 DEF CreateCharge, Recover
<1>7. ASSUME NEW p \in Targets, NEW target \in {"pending", "approved", "rejected"}, AdminSet(p, target)
      PROVE  uses' = uses
    BY <1>7 DEF AdminSet
<1>8. (\E w \in Workers : Dies(w)) \/ vars' = vars => uses' = uses
    BY DEF Dies, vars, history
<1>9. ReceiptDies => uses' = uses
    BY DEF ReceiptDies
<1> QED
    BY <1>1, <1>2, <1>3, <1>4, <1>5, <1>6, <1>7, <1>8, <1>9 DEF Next

-----------------------------------------------------------------------------
(* The helpers the actions are made of.                                    *)

LEMMA Sorts ==
    /\ MaxSends \in Nat /\ MaxUpsets \in Nat
    /\ Payments \subseteq Targets /\ Charges \subseteq Targets /\ Payments \cap Charges = {}
    /\ Nothing \notin Events /\ Nothing \notin Targets
    /\ DepositOf \in [Events -> Deposits]
    /\ Fits \subseteq SameAmount
BY SmsAssumption DEF Targets

LEMMA Rows ==
    /\ \A s \in OpenStatuses : Row(s, Nothing) \in EventRows
    /\ \A s \in MatchedStatuses, m \in Targets : Row(s, m) \in EventRows
    /\ \A s, m : Row(s, m).status = s /\ Row(s, m).matched = m
    /\ NoRow \in EventRows /\ NoRow.status = "none"
    /\ \A r \in EventRows :
          /\ r.status \in OpenStatuses \cup MatchedStatuses
          /\ r.status \in {"approved", "approved_duplicate", "sms_reused"} => r.matched \in Targets
BY DEF EventRows, Row, NoRow, OpenStatuses, MatchedStatuses

LEMMA Idles ==
    /\ Idle \in WorkerRec /\ Idle.pc = "idle" /\ Idle.owed = {}
    /\ NoReceipt \in ReceiptRec /\ NoReceipt.pc = "idle" /\ NoReceipt.p = Nothing
    /\ NoTopup \in TopupRec /\ NoTopup.pc = "idle"
<1>1. "idle" \in WorkerPCs /\ "idle" \in ReceiptPCs
    BY DEF WorkerPCs, ReceiptPCs
<1> QED
    BY <1>1, Rows DEF Idle, NoReceipt, NoTopup, WorkerRec, ReceiptRec, TopupRec

\* The request stays on its event.
Stays(w) ==
    /\ worker'[w].e = E(w) /\ worker'[w].owed = worker[w].owed
    /\ \A v \in Workers \ {w} : worker'[v] = worker[v]

LEMMA Types ==
    ASSUME TypeOK
    PROVE  /\ worker \in [Workers -> WorkerRec] /\ receipt \in ReceiptRec /\ topup \in TopupRec
           /\ status \in [Targets -> PaymentStatuses] /\ smsOf \in [Targets -> Events \cup {Nothing}]
           /\ event \in [Events -> EventRows] /\ uses \in [Deposits -> SUBSET Targets]
BY DEF TypeOK, WorkerRec, ReceiptRec, ReceiptPCs, TopupRec

LEMMA Goes ==
    ASSUME TypeOK, NEW w \in Workers, NEW pc \in WorkerPCs, Goto(w, pc)
    PROVE  /\ worker' \in [Workers -> WorkerRec] /\ Stays(w)
           /\ worker'[w].pc = pc /\ worker'[w].p = worker[w].p
           /\ worker'[w].found = worker[w].found /\ worker'[w].row = worker[w].row
<1>1. worker \in [Workers -> WorkerRec] /\ worker[w] \in WorkerRec
    BY Types
<1>2. [worker[w] EXCEPT !.pc = pc] \in WorkerRec
    BY <1>1 DEF WorkerRec
<1>3. worker' = [worker EXCEPT ![w] = [worker[w] EXCEPT !.pc = pc]]
    BY <1>1 DEF Goto
<1> QED
    BY <1>1, <1>2, <1>3 DEF WorkerRec, Stays, E

LEMMA GoesWith ==
    ASSUME TypeOK, NEW w \in Workers, NEW pc \in WorkerPCs, NEW p \in Targets, With(w, pc, p)
    PROVE  /\ worker' \in [Workers -> WorkerRec] /\ Stays(w)
           /\ worker'[w].pc = pc /\ worker'[w].p = p
<1>1. worker \in [Workers -> WorkerRec] /\ worker[w] \in WorkerRec
    BY Types
<1>2. [worker[w] EXCEPT !.pc = pc, !.p = p] \in WorkerRec
    BY <1>1 DEF WorkerRec
<1>3. worker' = [worker EXCEPT ![w] = [worker[w] EXCEPT !.pc = pc, !.p = p]]
    BY <1>1 DEF With
<1> QED
    BY <1>1, <1>2, <1>3 DEF WorkerRec, Stays, E

LEMMA Decides ==
    ASSUME TypeOK, NEW w \in Workers, NEW s, NEW m, Row(s, m) \in EventRows, Decide(w, s, m)
    PROVE  /\ worker' \in [Workers -> WorkerRec] /\ Stays(w)
           /\ worker'[w].pc = "mark" /\ worker'[w].row = Row(s, m)
<1>1. worker \in [Workers -> WorkerRec] /\ worker[w] \in WorkerRec /\ "mark" \in WorkerPCs
    BY Types DEF WorkerPCs
<1>2. [worker[w] EXCEPT !.pc = "mark", !.row = Row(s, m)] \in WorkerRec
    BY <1>1 DEF WorkerRec
<1>3. worker' = [worker EXCEPT ![w] = [worker[w] EXCEPT !.pc = "mark", !.row = Row(s, m)]]
    BY <1>1 DEF Decide
<1> QED
    BY <1>1, <1>2, <1>3 DEF WorkerRec, Stays, E

LEMMA Rests ==
    ASSUME TypeOK, NEW w \in Workers, worker' = [worker EXCEPT ![w] = Idle]
    PROVE  /\ worker' \in [Workers -> WorkerRec]
           /\ worker'[w].pc = "idle" /\ \A v \in Workers \ {w} : worker'[v] = worker[v]
BY Types, Idles

\* One of them.
LEMMA TheOneIn ==
    ASSUME NEW S, Cardinality(S) = 1
    PROVE  TheOne(S) \in S
<1>1. S # {}
    BY FS_EmptySet
<1> QED
    BY <1>1 DEF TheOne

-----------------------------------------------------------------------------
(* What a step of a request does.                                          *)

\* Everything but the requests.
restVars == <<rowVars, event, receipt, topup, sends, upsets, history>>

\* The looks: nothing but the request changes.
Look(w) ==
    LookApproved(w) \/ LookPrior(w) \/ LookManual(w) \/ LookCharges(w) \/ LookPending(w) \/ LookScope(w)

LEMMA LookApprovedMoves ==
    ASSUME TypeOK, NEW w \in Workers, LookApproved(w)
    PROVE  /\ worker' \in [Workers -> WorkerRec] /\ Stays(w) /\ At(w, "approved")
           /\ UNCHANGED restVars
           /\ \/ worker'[w].pc = "prior"
              \/ worker'[w].pc = "mark" /\ \E p \in ApprovedBy(E(w)) : worker'[w].row = Row("approved", p)
<1>1. At(w, "approved") /\ UNCHANGED restVars
    BY DEF LookApproved, requestOnly, others, restVars
<1>2. CASE Goto(w, "prior")
    BY <1>1, <1>2, Goes DEF WorkerPCs
<1>3. ASSUME NEW p \in ApprovedBy(E(w)), Decide(w, "approved", p)
      PROVE  /\ worker' \in [Workers -> WorkerRec] /\ Stays(w)
             /\ worker'[w].pc = "mark" /\ worker'[w].row = Row("approved", p)
    <2>1. Row("approved", p) \in EventRows
        BY Rows, Sorts DEF ApprovedBy, MatchedStatuses
    <2> QED
        BY <1>3, <2>1, Decides
<1> QED
    BY <1>1, <1>2, <1>3 DEF LookApproved

LEMMA LookPriorMoves ==
    ASSUME TypeOK, NEW w \in Workers, LookPrior(w)
    PROVE  /\ worker' \in [Workers -> WorkerRec] /\ Stays(w) /\ At(w, "prior")
           /\ UNCHANGED restVars
           /\ \/ worker'[w].pc = "manual" /\ Prior(E(w)) = {}
              \/ worker'[w].pc = "mark" /\ worker'[w].row.status = "approved_duplicate"
<1>1. At(w, "prior") /\ UNCHANGED restVars
    BY DEF LookPrior, requestOnly, others, restVars
<1>2. CASE Goto(w, "manual") /\ Prior(E(w)) = {}
    BY <1>1, <1>2, Goes DEF WorkerPCs
<1>3. ASSUME NEW f \in Prior(E(w)), Decide(w, "approved_duplicate", event[f].matched)
      PROVE  /\ worker' \in [Workers -> WorkerRec] /\ Stays(w)
             /\ worker'[w].pc = "mark" /\ worker'[w].row.status = "approved_duplicate"
    <2>1. event[f].matched \in Targets
        BY Types, Rows DEF Prior
    <2>2. Row("approved_duplicate", event[f].matched) \in EventRows
        BY <2>1, Rows DEF MatchedStatuses
    <2> QED
        BY <1>3, <2>2, Decides, Rows
<1> QED
    BY <1>1, <1>2, <1>3 DEF LookPrior

LEMMA LookManualMoves ==
    ASSUME TypeOK, NEW w \in Workers, LookManual(w)
    PROVE  /\ worker' \in [Workers -> WorkerRec] /\ Stays(w) /\ At(w, "manual")
           /\ UNCHANGED restVars
           /\ \/ worker'[w].pc = "charges" /\ Manual(E(w)) = {}
              \/ worker'[w].pc = "attach" /\ worker'[w].p \in Manual(E(w))
<1>1. At(w, "manual") /\ UNCHANGED restVars
    BY DEF LookManual, requestOnly, others, restVars
<1>2. CASE Goto(w, "charges") /\ Manual(E(w)) = {}
    BY <1>1, <1>2, Goes DEF WorkerPCs
<1>3. ASSUME NEW p \in Manual(E(w)), With(w, "attach", p)
      PROVE  /\ worker' \in [Workers -> WorkerRec] /\ Stays(w)
             /\ worker'[w].pc = "attach" /\ worker'[w].p = p
    <2>1. p \in Targets /\ "attach" \in WorkerPCs
        BY Sorts DEF Manual, Alike, WorkerPCs
    <2> QED
        BY <1>3, <2>1, GoesWith
<1> QED
    BY <1>1, <1>2, <1>3 DEF LookManual

LEMMA LookChargesMoves ==
    ASSUME TypeOK, NEW w \in Workers, LookCharges(w)
    PROVE  /\ worker' \in [Workers -> WorkerRec] /\ Stays(w) /\ At(w, "charges")
           /\ UNCHANGED restVars
           /\ \/ worker'[w].pc = "pending"
              \/ worker'[w].pc = "mark" /\ worker'[w].row = Row("ambiguous", Nothing)
              \/ worker'[w].pc = "late" /\ worker'[w].p \in Charges
<1>1. At(w, "charges") /\ UNCHANGED restVars
    BY DEF LookCharges, requestOnly, others, restVars
<1>2. CASE Goto(w, "pending")
    BY <1>1, <1>2, Goes DEF WorkerPCs
<1>3. CASE Decide(w, "ambiguous", Nothing)
    <2>1. Row("ambiguous", Nothing) \in EventRows
        BY Rows DEF OpenStatuses
    <2> QED
        BY <1>1, <1>3, <2>1, Decides
<1>4. CASE Cardinality(ManualCharges(E(w))) = 1 /\ With(w, "late", TheOne(ManualCharges(E(w))))
    <2>1. PICK c \in ManualCharges(E(w)) : c = TheOne(ManualCharges(E(w)))
        BY <1>4, TheOneIn
    <2>2. c \in Charges /\ c \in Targets /\ "late" \in WorkerPCs
        BY Sorts DEF ManualCharges, FitFor, WorkerPCs
    <2> QED
        BY <1>1, <1>4, <2>1, <2>2, GoesWith
<1> QED
    BY <1>1, <1>2, <1>3, <1>4 DEF LookCharges

LEMMA LookPendingMoves ==
    ASSUME TypeOK, NEW w \in Workers, LookPending(w)
    PROVE  /\ worker' \in [Workers -> WorkerRec] /\ Stays(w) /\ At(w, "pending")
           /\ UNCHANGED restVars
           /\ worker'[w].pc = "scope" /\ worker'[w].found = Pending(E(w), Payments)
<1>1. At(w, "pending") /\ UNCHANGED restVars
    BY DEF LookPending, requestOnly, others, restVars
<1> DEFINE found == Pending(E(w), Payments)
<1>2. worker \in [Workers -> WorkerRec] /\ worker[w] \in WorkerRec
    BY Types
<1>3. found \in SUBSET Payments /\ "scope" \in WorkerPCs
    BY DEF Pending, FitFor, WorkerPCs
<1>4. worker' = [worker EXCEPT ![w] = [worker[w] EXCEPT !.pc = "scope", !.found = found]]
    BY <1>2 DEF LookPending
<1> HIDE DEF found
<1>5. [worker[w] EXCEPT !.pc = "scope", !.found = found] \in WorkerRec
    BY <1>2, <1>3 DEF WorkerRec
<1>6. /\ worker' \in [Workers -> WorkerRec] /\ Stays(w)
      /\ worker'[w].pc = "scope" /\ worker'[w].found = found
    BY <1>2, <1>4, <1>5 DEF WorkerRec, Stays, E
<1> QED
    BY <1>1, <1>6 DEF found

LEMMA LookScopeMoves ==
    ASSUME TypeOK, NEW w \in Workers, LookScope(w)
    PROVE  /\ worker' \in [Workers -> WorkerRec] /\ Stays(w) /\ At(w, "scope")
           /\ UNCHANGED restVars
           /\ \/ /\ worker'[w].pc = "mark" /\ worker'[w].row = Row("no_pending_match", Nothing)
                 /\ worker[w].found = {}
              \/ worker'[w].pc = "mark" /\ worker'[w].row = Row("ambiguous", Nothing)
              \/ worker'[w].pc = "charge" /\ worker'[w].p \in Charges
              \/ worker'[w].pc = "approve" /\ worker'[w].p \in worker[w].found
<1>1. At(w, "scope") /\ UNCHANGED restVars
    BY DEF LookScope, requestOnly, others, restVars
<1>2. worker[w].found \subseteq Payments /\ {"charge", "approve"} \subseteq WorkerPCs
    BY Types DEF WorkerRec, WorkerPCs
<1>3. \/ worker[w].found = {} /\ Decide(w, "no_pending_match", Nothing)
      \/ Decide(w, "ambiguous", Nothing)
      \/ \E c \in Charges : With(w, "charge", c)
      \/ \E p \in worker[w].found : With(w, "approve", p)
    <2>1. \A C \in {Pending(E(w), Charges), {}} : C \subseteq Charges
        BY DEF Pending, FitFor
    <2> QED
        BY <2>1 DEF LookScope
<1>4. Row("no_pending_match", Nothing) \in EventRows /\ Row("ambiguous", Nothing) \in EventRows
    BY Rows DEF OpenStatuses
<1>5. ASSUME NEW c \in Charges, With(w, "charge", c)
      PROVE  /\ worker' \in [Workers -> WorkerRec] /\ Stays(w)
             /\ worker'[w].pc = "charge" /\ worker'[w].p = c
    BY <1>2, <1>5, Sorts, GoesWith
<1>6. ASSUME NEW p \in worker[w].found, With(w, "approve", p)
      PROVE  /\ worker' \in [Workers -> WorkerRec] /\ Stays(w)
             /\ worker'[w].pc = "approve" /\ worker'[w].p = p
    BY <1>2, <1>6, Sorts, GoesWith
<1> QED
    BY <1>1, <1>3, <1>4, <1>5, <1>6, Decides

\* The writes of a request.
LEMMA AttachMoves ==
    ASSUME TypeOK, WorkersOK, NEW w \in Workers, NEW p, p = worker[w].p, Attach(w)
    PROVE  /\ worker' \in [Workers -> WorkerRec] /\ Stays(w) /\ At(w, "attach") /\ p \in Payments
           /\ worker'[w].pc = "mark" /\ worker'[w].row = Row("approved", p)
           /\ smsOf' = [smsOf EXCEPT ![p] = E(w)]
           /\ uses' = [uses EXCEPT ![DepositOf[E(w)]] = @ \cup {p}]
           /\ UNCHANGED <<status, others, met, undone, stopped, raised, unwritten>>
<1>1. At(w, "attach") /\ p \in Payments /\ p \in Targets
    BY Sorts DEF Attach, WorkersOK, WorkerOK, At
<1>2. Row("approved", p) \in EventRows
    BY <1>1, Rows DEF MatchedStatuses
<1>3. /\ Decide(w, "approved", p) /\ smsOf' = [smsOf EXCEPT ![p] = E(w)]
      /\ uses' = [uses EXCEPT ![DepositOf[E(w)]] = @ \cup {p}]
      /\ UNCHANGED <<status, others, met, undone, stopped, raised, unwritten>>
    BY DEF Attach, Use
<1> QED
    BY <1>1, <1>2, <1>3, Decides

LEMMA AttachSwallowedMoves ==
    ASSUME TypeOK, WorkersOK, NEW w \in Workers, NEW p, p = worker[w].p, AttachSwallowed(w)
    PROVE  /\ worker' \in [Workers -> WorkerRec] /\ Stays(w) /\ At(w, "attach") /\ p \in Payments
           /\ worker'[w].pc = "mark" /\ worker'[w].row = Row("approved", p)
           /\ unwritten' = unwritten \cup {p}
           /\ UNCHANGED <<rowVars, others, uses, met, undone, stopped, raised>>
<1>1. At(w, "attach") /\ p \in Payments /\ p \in Targets
    BY Sorts DEF AttachSwallowed, WorkersOK, WorkerOK, At
<1>2. Row("approved", p) \in EventRows
    BY <1>1, Rows DEF MatchedStatuses
<1>3. /\ Decide(w, "approved", p) /\ unwritten' = unwritten \cup {p}
      /\ UNCHANGED <<rowVars, others, uses, met, undone, stopped, raised>>
    BY DEF AttachSwallowed
<1> QED
    BY <1>1, <1>2, <1>3, Decides

\* What a call that raised leaves of a top-up.
Left(c, e) ==
    \/ UNCHANGED <<rowVars, uses, raised>>
    \/ /\ smsOf[c] \in {Nothing, e} /\ smsOf' = [smsOf EXCEPT ![c] = e]
       /\ \/ UNCHANGED <<status, uses, raised>>
          \/ /\ \/ status' = [status EXCEPT ![c] = "processing"]
                \/ status' = [status EXCEPT ![c] = "approved"]
             /\ uses' = [uses EXCEPT ![DepositOf[e]] = @ \cup {c}]
             /\ raised' = raised \cup {DepositOf[e]}

LEMMA RaisesLeaves ==
    ASSUME NEW c, NEW e, TakeRaises(c, e)
    PROVE  Left(c, e)
BY DEF TakeRaises, Takes, Use, Left

LEMMA ApproveChargeMoves ==
    ASSUME TypeOK, WorkersOK, NEW w \in Workers, NEW c, c = worker[w].p, ApproveCharge(w)
    PROVE  /\ worker' \in [Workers -> WorkerRec] /\ Stays(w)
           /\ worker[w].pc \in {"late", "charge"} /\ c \in Charges
           /\ worker'[w].pc = "mark"
           /\ \/ /\ worker'[w].row = Row("approved", c)
                 /\ smsOf[c] \in {Nothing, E(w)}
                 /\ status' = [status EXCEPT ![c] = "approved"]
                 /\ smsOf' = [smsOf EXCEPT ![c] = E(w)]
                 /\ uses' = [uses EXCEPT ![DepositOf[E(w)]] = @ \cup {c}]
              \/ /\ worker'[w].row = Row("approve_failed", Nothing)
                 /\ UNCHANGED <<rowVars, uses>>
           /\ UNCHANGED <<others, met, undone, stopped, raised, unwritten>>
<1>1. worker[w].pc \in {"late", "charge"} /\ c \in Charges /\ c \in Targets
    BY Sorts DEF ApproveCharge, WorkersOK, WorkerOK, At
<1>2. Row("approved", c) \in EventRows /\ Row("approve_failed", Nothing) \in EventRows
    BY <1>1, Rows DEF MatchedStatuses, OpenStatuses
<1>3. /\ \/ /\ Decide(w, "approved", c)
            /\ smsOf[c] \in {Nothing, E(w)}
            /\ status' = [status EXCEPT ![c] = "approved"]
            /\ smsOf' = [smsOf EXCEPT ![c] = E(w)]
            /\ uses' = [uses EXCEPT ![DepositOf[E(w)]] = @ \cup {c}]
         \/ /\ Decide(w, "approve_failed", Nothing)
            /\ UNCHANGED <<rowVars, uses>>
      /\ UNCHANGED <<others, met, undone, stopped, raised, unwritten>>
    BY DEF ApproveCharge, Takes, Take, Use
<1> QED
    BY <1>1, <1>2, <1>3, Decides

LEMMA ChargeRaisesMoves ==
    ASSUME TypeOK, WorkersOK, NEW w \in Workers, NEW c, c = worker[w].p, ChargeRaises(w)
    PROVE  /\ worker' \in [Workers -> WorkerRec] /\ Stays(w)
           /\ worker[w].pc \in {"late", "charge"} /\ c \in Charges
           /\ \/ At(w, "late") /\ worker'[w].pc = "pending"
              \/ worker'[w].pc = "mark" /\ worker'[w].row = Row("approve_failed", Nothing)
           /\ Left(c, E(w))
           /\ UNCHANGED <<others, met, undone, stopped, unwritten>>
<1>1. worker[w].pc \in {"late", "charge"} /\ c \in Charges /\ c \in Targets
    BY Sorts DEF ChargeRaises, WorkersOK, WorkerOK, At
<1>2. Row("approve_failed", Nothing) \in EventRows /\ "pending" \in WorkerPCs
    BY Rows DEF OpenStatuses, WorkerPCs
<1>3. /\ (At(w, "late") /\ Goto(w, "pending")) \/ Decide(w, "approve_failed", Nothing)
      /\ Left(c, E(w))
      /\ UNCHANGED <<others, met, undone, stopped, unwritten>>
    BY RaisesLeaves DEF ChargeRaises
<1> QED
    BY <1>1, <1>2, <1>3, Decides, Goes

LEMMA ApproveMoves ==
    ASSUME TypeOK, WorkersOK, NEW w \in Workers, NEW p, p = worker[w].p, Approve(w)
    PROVE  /\ worker' \in [Workers -> WorkerRec] /\ Stays(w) /\ At(w, "approve") /\ p \in Payments
           /\ worker'[w].pc = "patch" /\ worker'[w].p = p
           /\ status' = [status EXCEPT ![p] = "approved"]
           /\ uses' = [uses EXCEPT ![DepositOf[E(w)]] = @ \cup {p}]
           /\ UNCHANGED <<smsOf, others, met, undone, stopped, raised, unwritten>>
<1>1. At(w, "approve") /\ p \in Payments /\ "patch" \in WorkerPCs
    BY DEF Approve, WorkersOK, WorkerOK, At, WorkerPCs
<1>2. /\ Goto(w, "patch") /\ status' = [status EXCEPT ![p] = "approved"]
      /\ uses' = [uses EXCEPT ![DepositOf[E(w)]] = @ \cup {p}]
      /\ UNCHANGED <<smsOf, others, met, undone, stopped, raised, unwritten>>
    BY DEF Approve, Use
<1> QED
    BY <1>1, <1>2, Goes

LEMMA PatchMoves ==
    ASSUME TypeOK, WorkersOK, NEW w \in Workers, NEW p, p = worker[w].p, Patch(w)
    PROVE  /\ worker' \in [Workers -> WorkerRec] /\ Stays(w) /\ At(w, "patch") /\ p \in Payments
           /\ worker'[w].pc = "mark" /\ worker'[w].row = Row("approved", p)
           /\ smsOf' = [smsOf EXCEPT ![p] = E(w)]
           /\ UNCHANGED <<status, others, history>>
<1>1. At(w, "patch") /\ p \in Payments /\ p \in Targets
    BY Sorts DEF Patch, WorkersOK, WorkerOK, At
<1>2. Row("approved", p) \in EventRows
    BY <1>1, Rows DEF MatchedStatuses
<1>3. /\ Decide(w, "approved", p) /\ smsOf' = [smsOf EXCEPT ![p] = E(w)]
      /\ UNCHANGED <<status, others, history>>
    BY DEF Patch
<1> QED
    BY <1>1, <1>2, <1>3, Decides

LEMMA MarkMoves ==
    ASSUME TypeOK, WorkersOK, NEW w \in Workers, Mark(w)
    PROVE  /\ worker' \in [Workers -> WorkerRec] /\ At(w, "mark") /\ E(w) \in Events
           /\ worker'[w].pc = "idle" /\ \A v \in Workers \ {w} : worker'[v] = worker[v]
           /\ event' = [event EXCEPT ![E(w)] = worker[w].row]
           /\ UNCHANGED <<rowVars, receipt, topup, sends, upsets, history>>
<1>1. At(w, "mark") /\ Working(w)
    BY DEF Mark, At, Working
<1>2. E(w) \in Events
    BY <1>1 DEF WorkersOK, WorkerOK
<1>3. /\ event' = [event EXCEPT ![E(w)] = worker[w].row] /\ worker' = [worker EXCEPT ![w] = Idle]
      /\ UNCHANGED <<rowVars, receipt, topup, sends, upsets, history>>
    BY DEF Mark
<1> QED
    BY <1>1, <1>2, <1>3, Rests

LEMMA DiesMoves ==
    ASSUME TypeOK, WorkersOK, NEW w \in Workers, Dies(w)
    PROVE  /\ worker' \in [Workers -> WorkerRec] /\ Working(w) /\ E(w) \in Events
           /\ worker'[w].pc = "idle" /\ \A v \in Workers \ {w} : worker'[v] = worker[v]
           /\ met' = met \cup {<<Of(w), Of(w)>>}
           /\ UNCHANGED <<rowVars, event, receipt, topup, sends, uses, undone, stopped, raised, unwritten>>
<1>1. Working(w)
    BY DEF Dies, At, Working
<1>2. E(w) \in Events
    BY <1>1 DEF WorkersOK, WorkerOK
<1>3. /\ worker' = [worker EXCEPT ![w] = Idle] /\ met' = met \cup {<<Of(w), Of(w)>>}
      /\ UNCHANGED <<rowVars, event, receipt, topup, sends, uses, undone, stopped, raised, unwritten>>
    BY DEF Dies, Of
<1> QED
    BY <1>1, <1>2, <1>3, Rests

\* A request begins.
LEMMA SendMoves ==
    ASSUME TypeOK, NEW w \in Workers, NEW e \in Events, Send(w, e)
    PROVE  /\ worker' \in [Workers -> WorkerRec] /\ ~Working(w)
           /\ \A v \in Workers \ {w} : worker'[v] = worker[v]
           /\ worker'[w].pc = "approved" /\ worker'[w].e = e
           /\ worker'[w].owed = {p \in Alike(e, Payments) : status[p] = "approved" /\ smsOf[p] = Nothing}
           /\ event[e].status \in Retryable \cup {"none"}
           /\ \/ event[e].status = "none" /\ event' = [event EXCEPT ![e] = Row("received", Nothing)]
              \/ event[e].status # "none" /\ event' = event
           /\ met' = met \cup Meets(e)
           /\ UNCHANGED <<rowVars, receipt, topup, upsets, uses, undone, stopped, raised, unwritten>>
<1> DEFINE owed == {p \in Alike(e, Payments) : status[p] = "approved" /\ smsOf[p] = Nothing}
<1>1. owed \in SUBSET Payments /\ "approved" \in WorkerPCs
    BY DEF Alike, WorkerPCs
<1>2. worker' = [worker EXCEPT ![w] = [Idle EXCEPT !.pc = "approved", !.e = e, !.owed = owed]]
    BY DEF Send
<1> HIDE DEF owed
<1>3. [Idle EXCEPT !.pc = "approved", !.e = e, !.owed = owed] \in WorkerRec
    BY <1>1, Idles DEF WorkerRec
<1>4. /\ worker' \in [Workers -> WorkerRec]
      /\ \A v \in Workers \ {w} : worker'[v] = worker[v]
      /\ worker'[w].pc = "approved" /\ worker'[w].e = e /\ worker'[w].owed = owed
    BY <1>2, <1>3, Types, Idles DEF WorkerRec
<1>5. /\ ~Working(w) /\ event[e].status \in Retryable \cup {"none"}
      /\ \/ event[e].status = "none" /\ event' = [event EXCEPT ![e] = Row("received", Nothing)]
         \/ event[e].status # "none" /\ event' = event
      /\ met' = met \cup Meets(e)
      /\ UNCHANGED <<rowVars, receipt, topup, upsets, uses, undone, stopped, raised, unwritten>>
    BY DEF Send, Working
<1> QED
    BY <1>4, <1>5 DEF owed

-----------------------------------------------------------------------------
(* What a step of a receipt does.                                          *)

LEMMA CreateMoves ==
    ASSUME TypeOK, NEW p \in Payments, CreatePayment(p)
    PROVE  /\ receipt' \in ReceiptRec /\ receipt.pc = "idle" /\ status[p] = "none"
           /\ receipt'.pc = "look" /\ receipt'.p = p
           /\ status' = [status EXCEPT ![p] = "pending"]
           /\ met' = met \cup {<<DepositOf[f], p>> : f \in Busy} \cup BothLook(topup, topup.p)
           /\ UNCHANGED <<smsOf, event, worker, topup, sends, upsets, uses, undone, stopped, raised,
                          unwritten>>
<1>1. /\ receipt.pc = "idle" /\ status[p] = "none"
      /\ receipt' = [NoReceipt EXCEPT !.pc = "look", !.p = p]
      /\ status' = [status EXCEPT ![p] = "pending"]
      /\ met' = met \cup {<<DepositOf[f], p>> : f \in Busy} \cup BothLook(topup, topup.p)
      /\ UNCHANGED <<smsOf, event, worker, topup, sends, upsets, uses, undone, stopped, raised, unwritten>>
    BY DEF CreatePayment, receiptOnly
<1>2. receipt' \in ReceiptRec /\ receipt'.pc = "look" /\ receipt'.p = p
    BY <1>1, Idles DEF ReceiptRec, ReceiptPCs
<1> QED
    BY <1>1, <1>2

\* Only the receipt's own state changes.
LEMMA ReceiptLookMoves ==
    ASSUME TypeOK, ReceiptLook
    PROVE  /\ receipt' \in ReceiptRec /\ receipt.pc = "look"
           /\ \/ /\ status[receipt.p] = "pending" /\ receipt'.pc = "each"
                 /\ receipt'.p = receipt.p /\ receipt'.todo = Kept
              \/ status[receipt.p] # "pending" /\ receipt'.pc = "idle"
           /\ UNCHANGED <<rowVars, event, worker, topup, sends, upsets, history>>
<1>1. /\ receipt.pc = "look"
      /\ \/ status[receipt.p] = "pending" /\ receipt' = [receipt EXCEPT !.pc = "each", !.todo = Kept]
         \/ status[receipt.p] # "pending" /\ receipt' = NoReceipt
      /\ UNCHANGED <<rowVars, event, worker, topup, sends, upsets, history>>
    BY DEF ReceiptLook, receiptOnly, history
<1>2. Kept \in SUBSET Events /\ receipt \in ReceiptRec
    BY Types DEF Kept
<1>3. ASSUME receipt' = [receipt EXCEPT !.pc = "each", !.todo = Kept]
      PROVE  /\ receipt' \in ReceiptRec /\ receipt'.pc = "each"
             /\ receipt'.p = receipt.p /\ receipt'.todo = Kept
    BY <1>2, <1>3 DEF ReceiptRec, ReceiptPCs
<1> QED
    BY <1>1, <1>3, Idles

LEMMA ReceiptConsiderMoves ==
    ASSUME TypeOK, NEW e \in Events, ReceiptConsider(e)
    PROVE  /\ receipt' \in ReceiptRec /\ receipt.pc = "each" /\ e \in receipt.todo
           /\ receipt'.p = receipt.p
           /\ \/ /\ Prior(e) # {} /\ receipt'.pc = "mark" /\ receipt'.e = e
                 /\ receipt'.row.status = "sms_reused" /\ stopped' = stopped \cup {receipt.p}
              \/ /\ Prior(e) = {} /\ <<e, receipt.p>> \in Fits /\ stopped' = stopped
                 /\ receipt'.pc = "approve" /\ receipt'.e = e
              \/ /\ <<e, receipt.p>> \notin Fits /\ stopped' = stopped
                 /\ receipt'.pc = "each" /\ receipt'.todo = receipt.todo \ {e}
           /\ UNCHANGED <<rowVars, event, worker, topup, sends, upsets, uses, met, undone, raised,
                          unwritten>>
<1>1. /\ receipt.pc = "each" /\ e \in receipt.todo
      /\ UNCHANGED <<rowVars, event, worker, topup, sends, upsets, uses, met, undone, raised, unwritten>>
    BY DEF ReceiptConsider, receiptOnly
<1>2. receipt \in ReceiptRec /\ {"mark", "approve"} \subseteq ReceiptPCs
    BY Types DEF ReceiptPCs
<1> DEFINE again == Prior(e) # {} /\ <<e, receipt.p>> \in SameAmount
<1>3. CASE again
    <2> DEFINE row == Row("sms_reused", event[TheOne(Prior(e))].matched)
    <2>1. PICK f \in Prior(e) : f = TheOne(Prior(e))
        BY <1>3 DEF TheOne
    <2>2. event[f].matched \in Targets
        BY Types, Rows DEF Prior
    <2>3. row \in EventRows /\ row.status = "sms_reused"
        BY <2>1, <2>2, Rows DEF MatchedStatuses
    <2>4. receipt' = [receipt EXCEPT !.pc = "mark", !.e = e, !.row = row]
          /\ stopped' = stopped \cup {receipt.p}
        BY <1>3 DEF ReceiptConsider
    <2> HIDE DEF row
    <2>5. /\ receipt' \in ReceiptRec /\ receipt'.p = receipt.p
          /\ receipt'.pc = "mark" /\ receipt'.e = e /\ receipt'.row = row
        BY <1>2, <2>3, <2>4 DEF ReceiptRec
    <2> QED
        BY <1>1, <1>3, <2>3, <2>4, <2>5
<1>4. CASE ~again /\ <<e, receipt.p>> \in Fits
    <2>1. receipt' = [receipt EXCEPT !.pc = "approve", !.e = e] /\ stopped' = stopped
        BY <1>4 DEF ReceiptConsider
    <2>2. /\ receipt' \in ReceiptRec /\ receipt'.p = receipt.p
          /\ receipt'.pc = "approve" /\ receipt'.e = e
        BY <1>2, <2>1 DEF ReceiptRec
    <2>3. Prior(e) = {}
        BY <1>4, Sorts
    <2> QED
        BY <1>1, <1>4, <2>1, <2>2, <2>3
<1>5. CASE ~again /\ <<e, receipt.p>> \notin Fits
    <2>1. receipt' = [receipt EXCEPT !.todo = receipt.todo \ {e}] /\ stopped' = stopped
        BY <1>2, <1>5 DEF ReceiptConsider, ReceiptRec
    <2>2. receipt' \in ReceiptRec /\ receipt'.p = receipt.p /\ receipt'.pc = "each"
          /\ receipt'.todo = receipt.todo \ {e}
        BY <1>1, <1>2, <2>1 DEF ReceiptRec
    <2> QED
        BY <1>1, <1>5, <2>1, <2>2
<1> QED
    BY <1>3, <1>4, <1>5

LEMMA ReceiptApproveMoves ==
    ASSUME TypeOK, ReceiptOK, NEW p, p = receipt.p, NEW e, e = receipt.e, ReceiptApprove
    PROVE  /\ receipt' \in ReceiptRec /\ receipt.pc = "approve" /\ p \in Payments /\ e \in Events
           /\ receipt'.pc = "patch" /\ receipt'.p = p /\ receipt'.e = e
           /\ status' = [status EXCEPT ![p] = "approved"]
           /\ uses' = [uses EXCEPT ![DepositOf[e]] = @ \cup {p}]
           /\ UNCHANGED <<smsOf, event, worker, topup, sends, upsets, met, undone, stopped, raised, unwritten>>
<1>1. /\ receipt.pc = "approve" /\ receipt' = [receipt EXCEPT !.pc = "patch"]
      /\ status' = [status EXCEPT ![p] = "approved"]
      /\ uses' = [uses EXCEPT ![DepositOf[e]] = @ \cup {p}]
      /\ UNCHANGED <<smsOf, event, worker, topup, sends, upsets, met, undone, stopped, raised, unwritten>>
    BY DEF ReceiptApprove, receiptOnly, Use
<1>2. receipt' \in ReceiptRec /\ receipt'.pc = "patch" /\ receipt'.p = p /\ receipt'.e = e
    BY <1>1, Types DEF ReceiptRec, ReceiptPCs
<1> QED
    BY <1>1, <1>2 DEF ReceiptOK

LEMMA ReceiptPatchMoves ==
    ASSUME TypeOK, ReceiptOK, NEW p, p = receipt.p, NEW e, e = receipt.e, ReceiptPatch
    PROVE  /\ receipt' \in ReceiptRec /\ receipt.pc = "patch" /\ p \in Payments /\ e \in Events
           /\ receipt'.pc = "mark" /\ receipt'.p = p /\ receipt'.e = e
           /\ receipt'.row = Row("approved", p)
           /\ smsOf' = [smsOf EXCEPT ![p] = e]
           /\ UNCHANGED <<status, event, worker, topup, sends, upsets, history>>
<1> DEFINE row == Row("approved", p)
<1>1. /\ receipt.pc = "patch" /\ receipt' = [receipt EXCEPT !.pc = "mark", !.row = row]
      /\ smsOf' = [smsOf EXCEPT ![p] = e]
      /\ UNCHANGED <<status, event, worker, topup, sends, upsets, history>>
    BY DEF ReceiptPatch, receiptOnly, history
<1>2. p \in Payments /\ e \in Events /\ row \in EventRows
    BY <1>1, Rows, Sorts DEF ReceiptOK, MatchedStatuses
<1> HIDE DEF row
<1>3. /\ receipt' \in ReceiptRec /\ receipt'.pc = "mark" /\ receipt'.p = p /\ receipt'.e = e
      /\ receipt'.row = row
    BY <1>1, <1>2, Types DEF ReceiptRec, ReceiptPCs
<1> QED
    BY <1>1, <1>2, <1>3 DEF row

LEMMA ReceiptMarkMoves ==
    ASSUME TypeOK, ReceiptOK, NEW e, e = receipt.e, ReceiptMark
    PROVE  /\ receipt' = NoReceipt /\ receipt.pc = "mark" /\ e \in Events
           /\ event' = [event EXCEPT ![e] = receipt.row]
           /\ receipt.row.status \in {"approved", "sms_reused"}
           /\ UNCHANGED <<rowVars, worker, topup, sends, upsets, history>>
BY DEF ReceiptMark, receiptOnly, history, ReceiptOK

\* What a step of a representative's receipt does.
LEMMA CreateChargeMoves ==
    ASSUME TypeOK, NEW c \in Charges, CreateCharge(c)
    PROVE  /\ topup' \in TopupRec /\ topup.pc = "idle" /\ status[c] = "none"
           /\ topup'.pc = "look" /\ topup'.p = c
           /\ status' = [status EXCEPT ![c] = "pending"]
           /\ met' = met \cup {<<DepositOf[f], c>> : f \in Busy} \cup BothLook(receipt, c)
           /\ UNCHANGED <<smsOf, event, worker, receipt, sends, upsets, uses, undone, stopped, raised,
                          unwritten>>
<1>1. /\ topup.pc = "idle" /\ status[c] = "none"
      /\ topup' = [NoTopup EXCEPT !.pc = "look", !.p = c]
      /\ status' = [status EXCEPT ![c] = "pending"]
      /\ met' = met \cup {<<DepositOf[f], c>> : f \in Busy} \cup BothLook(receipt, c)
      /\ UNCHANGED <<smsOf, event, worker, receipt, sends, upsets, uses, undone, stopped, raised, unwritten>>
    BY DEF CreateCharge, topupOnly
<1>2. topup' \in TopupRec /\ topup'.pc = "look" /\ topup'.p = c
    BY <1>1, Idles DEF TopupRec
<1> QED
    BY <1>1, <1>2

LEMMA TopupLookMoves ==
    ASSUME TypeOK, TopupLook
    PROVE  /\ topup' \in TopupRec /\ topup.pc = "look"
           /\ \/ topup' = NoTopup
              \/ /\ topup'.pc = "take" /\ topup'.p = topup.p /\ topup'.e \in Events
                 /\ event[topup'.e].status = "no_pending_match" /\ Prior(topup'.e) = {}
           /\ UNCHANGED <<rowVars, event, worker, receipt, sends, upsets, history>>
<1> DEFINE eligible == {e \in Kept : <<e, topup.p>> \in Fits /\ Prior(e) = {}}
<1>1. /\ topup.pc = "look"
      /\ \/ topup' = NoTopup
         \/ Cardinality(eligible) = 1 /\ topup' = [topup EXCEPT !.pc = "take", !.e = TheOne(eligible)]
      /\ UNCHANGED <<rowVars, event, worker, receipt, sends, upsets, history>>
    BY DEF TopupLook, topupOnly, history
<1>2. CASE topup' = NoTopup
    BY <1>1, <1>2, Idles
<1>3. CASE Cardinality(eligible) = 1 /\ topup' = [topup EXCEPT !.pc = "take", !.e = TheOne(eligible)]
    <2>1. TheOne(eligible) \in eligible
        BY <1>3, TheOneIn
    <2>2. PICK e \in Events : /\ e = TheOne(eligible) /\ event[e].status = "no_pending_match"
                              /\ Prior(e) = {}
        BY <2>1 DEF Kept
    <2>3. topup' = [topup EXCEPT !.pc = "take", !.e = e] /\ topup \in TopupRec
        BY <1>3, <2>2, Types
    <2>4. topup' \in TopupRec /\ topup'.pc = "take" /\ topup'.p = topup.p /\ topup'.e = e
        BY <2>3 DEF TopupRec
    <2> QED
        BY <1>1, <2>2, <2>4
<1> QED
    BY <1>1, <1>2, <1>3

LEMMA TopupTakeMoves ==
    ASSUME TypeOK, TopupOK, NEW c, c = topup.p, NEW e, e = topup.e, TopupTake
    PROVE  /\ topup' \in TopupRec /\ topup.pc = "take" /\ c \in Charges /\ e \in Events
           /\ topup'.pc = "mark" /\ topup'.p = c /\ topup'.e = e
           /\ \/ /\ topup'.row = Row("approved", c)
                 /\ smsOf[c] \in {Nothing, e}
                 /\ status' = [status EXCEPT ![c] = "approved"]
                 /\ smsOf' = [smsOf EXCEPT ![c] = e]
                 /\ uses' = [uses EXCEPT ![DepositOf[e]] = @ \cup {c}]
              \/ topup'.row = Row("approve_failed", Nothing) /\ UNCHANGED <<rowVars, uses>>
           /\ UNCHANGED <<event, worker, receipt, sends, upsets, met, undone, stopped, raised, unwritten>>
<1>1. /\ topup.pc = "take"
      /\ \/ /\ topup' = [topup EXCEPT !.pc = "mark", !.row = Row("approved", c)]
            /\ smsOf[c] \in {Nothing, e}
            /\ status' = [status EXCEPT ![c] = "approved"]
            /\ smsOf' = [smsOf EXCEPT ![c] = e]
            /\ uses' = [uses EXCEPT ![DepositOf[e]] = @ \cup {c}]
         \/ /\ topup' = [topup EXCEPT !.pc = "mark", !.row = Row("approve_failed", Nothing)]
            /\ UNCHANGED <<rowVars, uses>>
      /\ UNCHANGED <<event, worker, receipt, sends, upsets, met, undone, stopped, raised, unwritten>>
    BY DEF TopupTake, Takes, Take, Use, topupOnly
<1>2. c \in Charges /\ e \in Events /\ c \in Targets
    BY <1>1, Sorts DEF TopupOK
<1>3. ASSUME NEW row \in EventRows, topup' = [topup EXCEPT !.pc = "mark", !.row = row]
      PROVE  /\ topup' \in TopupRec /\ topup'.pc = "mark" /\ topup'.p = c /\ topup'.e = e
             /\ topup'.row = row
    BY <1>3, Types DEF TopupRec
<1>4. Row("approved", c) \in EventRows /\ Row("approve_failed", Nothing) \in EventRows
    BY <1>2, Rows DEF MatchedStatuses, OpenStatuses
<1>6. CASE topup' = [topup EXCEPT !.pc = "mark", !.row = Row("approved", c)]
           /\ smsOf[c] \in {Nothing, e}
           /\ status' = [status EXCEPT ![c] = "approved"]
           /\ smsOf' = [smsOf EXCEPT ![c] = e]
           /\ uses' = [uses EXCEPT ![DepositOf[e]] = @ \cup {c}]
    <2>1. /\ topup' \in TopupRec /\ topup'.pc = "mark" /\ topup'.p = c /\ topup'.e = e
          /\ topup'.row = Row("approved", c)
        BY <1>3, <1>4, <1>6, Zenon
    <2> QED
        BY <1>1, <1>2, <1>6, <2>1
<1>7. CASE topup' = [topup EXCEPT !.pc = "mark", !.row = Row("approve_failed", Nothing)]
           /\ UNCHANGED <<rowVars, uses>>
    <2>1. /\ topup' \in TopupRec /\ topup'.pc = "mark" /\ topup'.p = c /\ topup'.e = e
          /\ topup'.row = Row("approve_failed", Nothing)
        BY <1>3, <1>4, <1>7, Zenon
    <2> QED
        BY <1>1, <1>2, <1>7, <2>1
<1> QED
    BY <1>1, <1>6, <1>7

LEMMA TopupMarkMoves ==
    ASSUME TypeOK, TopupOK, NEW e, e = topup.e, TopupMark
    PROVE  /\ topup' = NoTopup /\ topup.pc = "mark" /\ e \in Events
           /\ event' = [event EXCEPT ![e] = topup.row]
           /\ topup.row.status \in {"approved", "approve_failed"}
           /\ UNCHANGED <<rowVars, worker, receipt, sends, upsets, history>>
BY DEF TopupMark, topupOnly, history, TopupOK

LEMMA TopupStopsMoves ==
    ASSUME TypeOK, TopupOK, NEW c, c = topup.p, NEW e, e = topup.e, TopupStops
    PROVE  /\ topup' = NoTopup /\ topup.pc # "idle" /\ c \in Charges
           /\ \/ topup.pc = "look" /\ UNCHANGED <<rowVars, uses, raised>>
              \/ topup.pc = "take" /\ Left(c, e)
              \/ /\ topup.pc = "mark" /\ UNCHANGED <<rowVars, uses>> /\ raised \subseteq raised'
                 /\ topup.row.status = "approved" => DepositOf[e] \in raised'
           /\ UNCHANGED <<event, worker, receipt, sends, upsets, met, undone, stopped, unwritten>>
BY RaisesLeaves DEF TopupStops, topupOnly, TopupOK

LEMMA RecoverMoves ==
    ASSUME NEW c \in Charges, Recover(c)
    PROVE  /\ status[c] = "processing" /\ status' = [status EXCEPT ![c] = "approved"]
           /\ UNCHANGED <<smsOf, event, worker, receipt, topup, sends, upsets, history>>
BY DEF Recover, topupOnly, history

LEMMA AdminMoves ==
    ASSUME TypeOK, NEW p \in Targets, NEW target \in {"pending", "approved", "rejected"},
           AdminSet(p, target)
    PROVE  /\ worker' \in [Workers -> WorkerRec]
           /\ \A w \in Workers :
                  /\ worker'[w].pc = worker[w].pc /\ worker'[w].e = E(w) /\ worker'[w].p = worker[w].p
                  /\ worker'[w].found = worker[w].found /\ worker'[w].row = worker[w].row
                  /\ worker'[w].owed = worker[w].owed \ {p}
           /\ status[p] \notin {"none", target} /\ status' = [status EXCEPT ![p] = target]
           /\ \/ status[p] = "pending" /\ undone' = undone
              \/ status[p] # "pending" /\ undone' = undone \cup {p}
           /\ UNCHANGED <<smsOf, event, receipt, topup, sends, uses, met, stopped, raised, unwritten>>
<1>1. /\ worker' = [w \in Workers |-> [worker[w] EXCEPT !.owed = worker[w].owed \ {p}]]
      /\ status[p] \notin {"none", target} /\ status' = [status EXCEPT ![p] = target]
      /\ \/ status[p] = "pending" /\ undone' = undone
         \/ status[p] # "pending" /\ undone' = undone \cup {p}
      /\ UNCHANGED <<smsOf, event, receipt, topup, sends, uses, met, stopped, raised, unwritten>>
    <2>1. \A w \in Workers : [worker[w] EXCEPT !.owed = @ \ {p}]
                               = [worker[w] EXCEPT !.owed = worker[w].owed \ {p}]
        BY Types DEF WorkerRec
    <2> QED
        BY <2>1 DEF AdminSet
<1>2. ASSUME NEW w \in Workers
      PROVE  /\ worker'[w] \in WorkerRec
             /\ worker'[w].pc = worker[w].pc /\ worker'[w].e = E(w) /\ worker'[w].p = worker[w].p
             /\ worker'[w].found = worker[w].found /\ worker'[w].row = worker[w].row
             /\ worker'[w].owed = worker[w].owed \ {p}
    <2>1. worker[w] \in WorkerRec
        BY Types
    <2>2. worker[w].owed \ {p} \in SUBSET Payments
        BY <2>1 DEF WorkerRec
    <2>3. worker'[w] = [worker[w] EXCEPT !.owed = worker[w].owed \ {p}]
        BY <1>1
    <2> QED
        BY <2>1, <2>2, <2>3 DEF WorkerRec, E
<1>3. worker' \in [Workers -> WorkerRec]
    BY <1>1, <1>2
<1> QED
    BY <1>1, <1>2, <1>3

LEMMA RequestMoves ==
    ASSUME TypeOK, WorkersOK, NEW w \in Workers, RequestStep(w)
    PROVE  /\ worker' \in [Workers -> WorkerRec] /\ Working(w)
           /\ \A v \in Workers \ {w} : worker'[v] = worker[v]
           /\ UNCHANGED <<receipt, topup, sends, upsets, met, undone, stopped>>
<1>1. CASE Look(w)
    <2>1. worker' \in [Workers -> WorkerRec] /\ Stays(w) /\ UNCHANGED restVars /\ ~At(w, "idle")
        BY <1>1, LookApprovedMoves, LookPriorMoves, LookManualMoves, LookChargesMoves,
           LookPendingMoves, LookScopeMoves DEF Look, At
    <2> QED
        BY <2>1 DEF Stays, restVars, history, Working
<1>2. CASE Attach(w) \/ AttachSwallowed(w) \/ ApproveCharge(w) \/ ChargeRaises(w) \/ Approve(w) \/ Patch(w)
    <2>1. /\ worker' \in [Workers -> WorkerRec] /\ Stays(w) /\ ~At(w, "idle")
          /\ UNCHANGED <<others, met, undone, stopped>>
        BY <1>2, AttachMoves, AttachSwallowedMoves, ApproveChargeMoves, ChargeRaisesMoves, ApproveMoves,
           PatchMoves DEF At, history
    <2> QED
        BY <2>1 DEF Stays, Working, others
<1>3. CASE Mark(w)
    BY <1>3, MarkMoves DEF At, history, Working
<1> QED
    BY <1>1, <1>2, <1>3 DEF RequestStep, Look

LEMMA TypeStep ==
    ASSUME TypeOK, WorkersOK, ReceiptOK, TopupOK, [Next]_vars
    PROVE  TypeOK'
<1>t. /\ worker \in [Workers -> WorkerRec] /\ receipt \in ReceiptRec /\ topup \in TopupRec
      /\ status \in [Targets -> PaymentStatuses] /\ smsOf \in [Targets -> Events \cup {Nothing}]
      /\ event \in [Events -> EventRows] /\ uses \in [Deposits -> SUBSET Targets]
    BY Types
<1>1. worker' \in [Workers -> WorkerRec]
    <2>1. ASSUME NEW p, worker' = [w \in Workers |-> [worker[w] EXCEPT !.owed = @ \ {p}]]
          PROVE  worker' \in [Workers -> WorkerRec]
        <3>1. ASSUME NEW w \in Workers PROVE [worker[w] EXCEPT !.owed = worker[w].owed \ {p}] \in WorkerRec
            <4>1. worker[w] \in WorkerRec /\ worker[w].owed \ {p} \in SUBSET Payments
                BY <1>t DEF WorkerRec
            <4> QED
                BY <4>1 DEF WorkerRec
        <3>2. \A w \in Workers : [worker[w] EXCEPT !.owed = @ \ {p}]
                                   = [worker[w] EXCEPT !.owed = worker[w].owed \ {p}]
            BY <1>t DEF WorkerRec
        <3> QED
            BY <2>1, <3>1, <3>2
    <2>2. CASE worker' = worker
        BY <1>t, <2>2
    <2> QED
        BY <2>1, <2>2, WorkerWriters, SendMoves, RequestMoves, Rests
<1>2. receipt' \in ReceiptRec
    <2>1. CASE ReceiptStep
        BY <2>1, ReceiptLookMoves, ReceiptConsiderMoves, ReceiptApproveMoves, ReceiptPatchMoves,
           ReceiptMarkMoves, Idles DEF ReceiptStep, ReceiptFindsNone
    <2> QED
        BY <1>t, <2>1, ReceiptWriters, CreateMoves, Idles
<1>u. topup' \in TopupRec
    BY <1>t, TopupWriters, CreateChargeMoves, TopupLookMoves, TopupTakeMoves, Idles
<1>3. status' \in [Targets -> PaymentStatuses]
    BY <1>t, StatusWriters
<1>4. smsOf' \in [Targets -> Events \cup {Nothing}]
    <2>1. \A w \in Workers : E(w) \in Events \cup {Nothing}
        BY <1>t DEF WorkerRec, E
    <2>2. receipt.e \in Events \cup {Nothing} /\ topup.e \in Events \cup {Nothing}
        BY <1>t DEF ReceiptRec, TopupRec
    <2> QED
        BY <1>t, <2>1, <2>2, SmsWriters
<1>5. event' \in [Events -> EventRows]
    <2>1. \A w \in Workers : worker[w].row \in EventRows
        BY <1>t DEF WorkerRec
    <2>2. receipt.row \in EventRows /\ topup.row \in EventRows
        BY <1>t DEF ReceiptRec, TopupRec
    <2>3. Row("received", Nothing) \in EventRows
        BY Rows DEF OpenStatuses
    <2> QED
        BY <1>t, <2>1, <2>2, <2>3, EventWriters
<1>6. uses' \in [Deposits -> SUBSET Targets]
    <2>1. ASSUME NEW w \in Workers, RequestStep(w), Use(E(w), worker[w].p), uses' # uses
          PROVE  worker[w].p \in Targets
        <3>1. CASE Look(w)
            BY <2>1, <3>1, LookApprovedMoves, LookPriorMoves, LookManualMoves, LookChargesMoves,
               LookPendingMoves, LookScopeMoves DEF Look, restVars, history
        <3>2. CASE ~Look(w)
            BY <2>1, <3>2, AttachMoves, AttachSwallowedMoves, ApproveChargeMoves, ChargeRaisesMoves,
               ApproveMoves, PatchMoves, MarkMoves, Sorts DEF RequestStep, Look, history
        <3> QED
            BY <3>1, <3>2
    <2>2. receipt.pc = "approve" => receipt.p \in Targets
        BY Sorts DEF ReceiptOK
    <2>3. topup.pc = "take" => topup.p \in Targets
        BY Sorts DEF TopupOK
    <2>4. uses' = uses \/ \E d : \E p \in Targets : uses' = [uses EXCEPT ![d] = @ \cup {p}]
        BY <2>1, <2>2, <2>3, UsesWriters DEF Use
    <2> QED
        BY <1>t, <2>4
<1>7. met' \in SUBSET (Deposits \X (Deposits \cup Targets))
    <2>0. met \in SUBSET (Deposits \X (Deposits \cup Targets))
        BY DEF TypeOK
    <2>1. \A w \in Workers : Working(w) => E(w) \in Events /\ DepositOf[E(w)] \in Deposits
        BY Sorts DEF WorkersOK, WorkerOK
    <2>2. Busy \subseteq Events /\ \A f \in Busy : DepositOf[f] \in Deposits
        BY <2>1, Sorts DEF Busy, Working
    <2>3. /\ receipt.pc # "idle" => receipt.p \in Targets
          /\ topup.pc # "idle" => topup.p \in Targets
          /\ {receipt.p, topup.p} \ {Nothing} \subseteq Targets
        BY <1>t, Sorts DEF ReceiptOK, TopupOK, ReceiptRec, TopupRec
    <2>4. ASSUME NEW e \in Events PROVE Meets(e) \subseteq Deposits \X (Deposits \cup Targets)
        BY <2>2, <2>3, Sorts DEF Meets
    <2>5. /\ BothLook(topup, topup.p) \subseteq Deposits \X Targets
          /\ \A c \in Targets : BothLook(receipt, c) \subseteq Deposits \X Targets
        BY <2>3, Sorts DEF BothLook, Kept
    <2>6. \A p \in Targets : {<<DepositOf[f], p>> : f \in Busy} \subseteq Deposits \X Targets
        BY <2>2
    <2> QED
        BY <2>0, <2>1, <2>3, <2>4, <2>5, <2>6, MetWriters, Sorts
<1>8. undone' \in SUBSET Targets /\ stopped' \in SUBSET Payments
    <2>1. receipt.pc = "each" => receipt.p \in Payments
        BY DEF ReceiptOK
    <2> QED
        BY <2>1, UndoneWriters DEF TypeOK
<1>9r. raised' \in SUBSET Deposits /\ unwritten' \in SUBSET Payments
    <2>1. /\ \A w \in Workers : Working(w) => DepositOf[E(w)] \in Deposits
          /\ topup.pc \in {"take", "mark"} => DepositOf[topup.e] \in Deposits
          /\ \A w \in Workers : At(w, "attach") => worker[w].p \in Payments
        BY Sorts DEF WorkersOK, WorkerOK, TopupOK, At
    <2> QED
        BY <2>1, RaisedWriters DEF TypeOK
<1>9. sends' \in 0..MaxSends /\ upsets' \in 0..MaxUpsets
    BY CountWriters, Sorts DEF TypeOK
<1> QED
    BY <1>1, <1>2, <1>u, <1>3, <1>4, <1>5, <1>6, <1>7, <1>8, <1>9r, <1>9
    DEF TypeOK, WorkerRec, ReceiptRec, ReceiptPCs, TopupRec

-----------------------------------------------------------------------------
(* The looks preserve the invariant.                                       *)

\* On a clean deposit a request is alone.
LEMMA CleanIsAlone ==
    ASSUME Inv, NEW w \in Workers, NEW d \in Deposits, Works(w, d), Clean(d)
    PROVE  /\ \A v \in Workers \ {w} : ~Works(v, d)
           /\ receipt.pc = "idle" /\ topup.pc = "idle"
BY Sorts DEF Inv, MetOK, ReceiptOK, TopupOK, Works, Clean

\* A request that stays on its event, and writes to its own state only.
LEMMA LookKeeps ==
    ASSUME TypeOK, Inv, NEW w \in Workers, Working(w), Stays(w), UNCHANGED restVars,
           worker'[w].pc # "idle", WorkerOK(w)', OwedOK(w)', KeepOK(w)', ~Booking(w),
           Clean(Of(w)) /\ Deciding(w)' => Deciding(w) \/ uses[Of(w)] = {}
    PROVE  Inv'
<1> USE DEF Inv
<1>1. /\ \A v \in Workers \ {w} : worker'[v] = worker[v]
      /\ worker'[w].e = E(w) /\ worker'[w].owed = worker[w].owed
      /\ UNCHANGED <<status, smsOf, event, receipt, topup, uses, met, undone, stopped, raised>>
    BY DEF Stays, restVars, rowVars, history
<1>2. \A v \in Workers : /\ Working(v)' <=> Working(v)
                         /\ E(v)' = E(v) /\ Of(v)' = Of(v)
    BY <1>1 DEF Working, At, E, Of
<1>3. WorkersOK'
    BY <1>1, <1>2 DEF WorkersOK, WorkerOK, At
<1>4. ReceiptOK' /\ TopupOK' /\ MetOK'
    BY <1>1, <1>2 DEF ReceiptOK, TopupOK, MetOK, Met
<1>5. SpentsOK'
    <2> SUFFICES ASSUME NEW d \in Deposits, Clean(d)'
                 PROVE  BookedOK(d)' /\ RequestsOK(d)' /\ ReceiptsOK(d)' /\ ApartLooks(d)'
        BY DEF SpentsOK, SpentOK
    <2>1. Clean(d) /\ BookedOK(d) /\ RequestsOK(d) /\ ReceiptsOK(d) /\ ApartLooks(d)
        BY <1>1 DEF Clean, Met, SpentsOK, SpentOK
    <2>2. BookedOK(d)'
        <3>1. ASSUME NEW v \in Workers, Works(v, d), Booking(v) PROVE Works(v, d)' /\ Booking(v)'
            BY <1>1, <1>2, <3>1 DEF Works, Booking, At
        <3> QED
            BY <1>1, <2>1, <3>1 DEF BookedOK, InBooks, ReceiptBooks, TopupBooks
    <2>3. ASSUME NEW v \in Workers, Works(v, d)'
          PROVE  event'[E(v)'].status \in Retryable /\ (Deciding(v)' => uses'[d] = {})
        <3>1. Works(v, d)
            BY <1>2, <2>3 DEF Works
        <3>2. CASE v = w
            BY <1>1, <1>2, <2>1, <3>1, <3>2 DEF RequestsOK, Works
        <3>3. CASE v # w
            BY <1>1, <1>2, <2>1, <3>1, <3>3 DEF RequestsOK, Deciding
        <3> QED
            BY <3>2, <3>3
    <2>4. ReceiptsOK(d)' /\ ApartLooks(d)'
        BY <1>1, <2>1 DEF ReceiptsOK, ApartLooks, KeptFor
    <2> QED
        BY <2>2, <2>3, <2>4 DEF RequestsOK
<1>6. OwedsOK'
    <2>1. \A v \in Workers \ {w} : Working(v) => OwedOK(v)'
        BY <1>1, <1>2 DEF OwedsOK, OwedOK
    <2> QED
        BY <1>2, <2>1 DEF OwedsOK
<1>7. \A e, p : Waits(e, p)' <=> Waits(e, p)
    BY <1>1 DEF Waits, Met
<1>8. MatchesOK'
    BY <1>1, <1>7 DEF MatchesOK, MatchOK
<1>9. KeepsOK'
    <2>1. \A v \in Workers \ {w} : KeepOK(v)'
        BY <1>1, <1>2, <1>7 DEF KeepsOK, KeepOK, At
    <2> QED
        BY <2>1 DEF KeepsOK
<1> QED
    BY <1>3, <1>4, <1>5, <1>6, <1>8, <1>9

\* A payment that is owed the message stays owed it, up to the look at the
\* payments approved by hand.
LEMMA OwedKept ==
    ASSUME OwedsOK, NEW w \in Workers, Working(w), Stays(w), UNCHANGED rowVars,
           worker[w].pc \in Past \/ worker'[w].pc \notin Past
    PROVE  OwedOK(w)'
BY DEF OwedsOK, OwedOK, Stays, E, rowVars

LEMMA LooksKeep ==
    ASSUME TypeOK, Inv, NEW w \in Workers, Look(w)
    PROVE  Inv'
<1> USE DEF Inv
<1>0. worker[w] \in WorkerRec
    BY Types
<1>1. CASE LookApproved(w)
    <2>1. /\ Stays(w) /\ At(w, "approved") /\ UNCHANGED restVars
          /\ \/ worker'[w].pc = "prior"
             \/ worker'[w].pc = "mark" /\ worker'[w].row.status = "approved"
        BY <1>1, LookApprovedMoves, Rows
    <2>2. Working(w) /\ ~Booking(w) /\ ~Deciding(w)'
        BY <2>1 DEF At, Working, Booking, Deciding
    <2>3. WorkerOK(w)' /\ KeepOK(w)'
        BY <2>1, <2>2 DEF WorkersOK, WorkerOK, KeepOK, At, Stays, E
    <2>4. OwedOK(w)'
        BY <2>1, <2>2, OwedKept DEF restVars, Past
    <2> QED
        BY <2>1, <2>2, <2>3, <2>4, LookKeeps
\* A copy would be in the books: the deposit is not used.
<1>2. CASE LookPrior(w)
    <2>1. /\ Stays(w) /\ At(w, "prior") /\ UNCHANGED restVars
          /\ \/ worker'[w].pc = "manual" /\ Prior(E(w)) = {}
             \/ worker'[w].pc = "mark" /\ worker'[w].row.status = "approved_duplicate"
        BY <1>2, LookPriorMoves
    <2>2. Working(w) /\ ~Booking(w)
        BY <2>1 DEF At, Working, Booking
    <2>3. WorkerOK(w)' /\ KeepOK(w)'
        BY <2>1, <2>2 DEF WorkersOK, WorkerOK, KeepOK, At, Stays, E
    <2>4. OwedOK(w)'
        BY <2>1, <2>2, OwedKept DEF restVars, Past
    <2>5. ASSUME Clean(Of(w)), Deciding(w)' PROVE uses[Of(w)] = {}
        <3>1. PICK d \in Deposits : d = Of(w)
            BY <2>2, Sorts DEF WorkersOK, WorkerOK, Of
        <3>2. BookedOK(d) /\ RequestsOK(d) /\ Clean(d) /\ Works(w, d)
            BY <2>2, <2>5, <3>1 DEF SpentsOK, SpentOK, Works
        <3>3. Prior(E(w)) = {} /\ event[E(w)].status \in Retryable
            BY <2>1, <2>5, <3>2 DEF Deciding, RequestsOK
        <3>4. ~InBooks(d)
            BY <3>1, <3>3 DEF InBooks, Prior, Of, Retryable
        <3>5. /\ \A v \in Workers : ~(Works(v, d) /\ Booking(v))
              /\ receipt.pc = "idle" /\ topup.pc = "idle"
            BY <2>2, <3>2, CleanIsAlone
        <3> QED
            BY <3>1, <3>2, <3>4, <3>5 DEF BookedOK, ReceiptBooks, TopupBooks
    <2> QED
        BY <2>1, <2>2, <2>3, <2>4, <2>5, LookKeeps
<1>3. CASE LookManual(w)
    <2>1. /\ Stays(w) /\ At(w, "manual") /\ UNCHANGED restVars
          /\ \/ worker'[w].pc = "charges" /\ Manual(E(w)) = {}
             \/ worker'[w].pc = "attach" /\ worker'[w].p \in Manual(E(w))
        BY <1>3, LookManualMoves
    <2>2. Working(w) /\ ~Booking(w) /\ Deciding(w)
        BY <2>1 DEF At, Working, Booking, Deciding
    <2>3. WorkerOK(w)' /\ KeepOK(w)'
        BY <2>1, <2>2 DEF WorkersOK, WorkerOK, KeepOK, At, Stays, E, Manual, Alike
    <2>4. OwedOK(w)'
        <3>1. CASE worker'[w].pc = "charges"
            <4>1. ASSUME NEW q \in worker[w].owed
                  PROVE  status[q] = "approved" /\ <<E(w), q>> \in SameAmount
                         /\ (q \in DirectBuy \/ smsOf[q] # Nothing)
                <5>1. q \in Payments /\ status[q] = "approved" /\ <<E(w), q>> \in SameAmount
                    BY <1>0, <2>2 DEF OwedsOK, OwedOK, WorkerRec
                <5> QED
                    BY <2>1, <3>1, <5>1 DEF Manual, Alike
            <4> QED
                BY <2>1, <4>1 DEF OwedOK, Stays, E, restVars, rowVars
        <3>2. CASE worker'[w].pc = "attach"
            BY <2>1, <2>2, <3>2, OwedKept DEF restVars, Past
        <3> QED
            BY <2>1, <3>1, <3>2
    <2> QED
        BY <2>1, <2>2, <2>3, <2>4, LookKeeps
<1>4. CASE LookCharges(w)
    <2>1. /\ Stays(w) /\ At(w, "charges") /\ UNCHANGED restVars
          /\ \/ worker'[w].pc = "pending"
             \/ worker'[w].pc = "mark" /\ worker'[w].row.status = "ambiguous"
             \/ worker'[w].pc = "late" /\ worker'[w].p \in Charges
        BY <1>4, LookChargesMoves, Rows
    <2>2. Working(w) /\ ~Booking(w) /\ Deciding(w)
        BY <2>1 DEF At, Working, Booking, Deciding
    <2>3. WorkerOK(w)' /\ KeepOK(w)'
        BY <2>1, <2>2 DEF WorkersOK, WorkerOK, KeepOK, At, Stays, E
    <2>4. OwedOK(w)'
        BY <2>1, <2>2, OwedKept DEF restVars, Past, At
    <2> QED
        BY <2>1, <2>2, <2>3, <2>4, LookKeeps
\* The pending payments are seen.
<1>5. CASE LookPending(w)
    <2>1. /\ Stays(w) /\ At(w, "pending") /\ UNCHANGED restVars
          /\ worker'[w].pc = "scope" /\ worker'[w].found = Pending(E(w), Payments)
        BY <1>5, LookPendingMoves
    <2>2. Working(w) /\ ~Booking(w) /\ Deciding(w)
        BY <2>1 DEF At, Working, Booking, Deciding
    <2>3. WorkerOK(w)'
        BY <2>1, <2>2 DEF WorkersOK, WorkerOK, At, Stays, E
    <2>4. KeepOK(w)'
        <3>1. \A p \in Payments : Waits(E(w), p) => p \in Pending(E(w), Payments)
            BY DEF Waits, Pending, FitFor
        <3>2. \A p : Waits(E(w), p)' => Waits(E(w), p)
            BY <2>1 DEF Waits, Met, restVars, rowVars, history, Stays, E
        <3> QED
            BY <2>1, <3>1, <3>2 DEF KeepOK, At
    <2>5. OwedOK(w)'
        BY <2>1, <2>2, OwedKept DEF restVars, Past, At
    <2> QED
        BY <2>1, <2>2, <2>3, <2>4, <2>5, LookKeeps
<1>6. CASE LookScope(w)
    <2>1. /\ Stays(w) /\ At(w, "scope") /\ UNCHANGED restVars
          /\ \/ worker'[w].pc = "mark" /\ worker'[w].row.status = "no_pending_match" /\ worker[w].found = {}
             \/ worker'[w].pc = "mark" /\ worker'[w].row.status = "ambiguous"
             \/ worker'[w].pc = "charge" /\ worker'[w].p \in Charges
             \/ worker'[w].pc = "approve" /\ worker'[w].p \in worker[w].found
        BY <1>6, LookScopeMoves, Rows
    <2>2. Working(w) /\ ~Booking(w) /\ Deciding(w)
        BY <2>1 DEF At, Working, Booking, Deciding
    <2>3. WorkerOK(w)'
        BY <1>0, <2>1, <2>2 DEF WorkersOK, WorkerOK, At, Stays, E, WorkerRec
    <2>4. KeepOK(w)'
        <3>1. \A p \in Payments : Waits(E(w), p) => p \in worker[w].found
            BY <2>1 DEF KeepsOK, KeepOK
        <3>2. \A p : Waits(E(w), p)' => Waits(E(w), p)
            BY <2>1 DEF Waits, Met, restVars, rowVars, history, Stays, E
        <3> QED
            BY <2>1, <3>1, <3>2 DEF KeepOK, At
    <2>5. OwedOK(w)'
        BY <2>1, <2>2, OwedKept DEF restVars, Past, At
    <2> QED
        BY <2>1, <2>2, <2>3, <2>4, <2>5, LookKeeps
<1> QED
    BY <1>1, <1>2, <1>3, <1>4, <1>5, <1>6 DEF Look

-----------------------------------------------------------------------------
(* The writes of a request preserve the invariant.                         *)

\* The approval of p, or the message written to it, or a top-up in a call that
\* raised.
LEMMA WriteKeeps ==
    ASSUME TypeOK, Inv, NEW w \in Workers, Working(w), Stays(w), NEW p \in Targets,
           \/ status' = status \/ status' = [status EXCEPT ![p] = "approved"]
           \/ p \in Charges /\ status' = [status EXCEPT ![p] = "processing"],
           smsOf' = smsOf \/ smsOf' = [smsOf EXCEPT ![p] = E(w)],
           \/ uses' = uses
           \/ /\ (Deciding(w) /\ Booking(w)') \/ DepositOf[E(w)] \in raised'
              /\ uses' = [uses EXCEPT ![DepositOf[E(w)]] = @ \cup {p}],
           Booking(w) => Booking(w)',
           raised \subseteq raised', UNCHANGED <<event, receipt, topup, met, undone, stopped>>,
           \/ worker'[w].pc = "mark" /\ worker'[w].row.status # "no_pending_match"
           \/ worker'[w].pc = "patch" /\ At(w, "approve") /\ worker'[w].p = worker[w].p
           \/ worker'[w].pc = "pending" /\ At(w, "late")
    PROVE  Inv'
<1> USE DEF Inv
<1>0. /\ status \in [Targets -> PaymentStatuses] /\ smsOf \in [Targets -> Events \cup {Nothing}]
      /\ uses \in [Deposits -> SUBSET Targets]
    BY Types
<1>1. /\ \A v \in Workers \ {w} : worker'[v] = worker[v]
      /\ worker'[w].e = E(w) /\ worker'[w].owed = worker[w].owed
    BY DEF Stays
<1>2. \A v \in Workers : /\ Working(v)' <=> Working(v)
                         /\ E(v)' = E(v) /\ Of(v)' = Of(v)
    BY <1>1 DEF Working, At, E, Of
<1>3. WorkersOK'
    <2>1. WorkerOK(w)'
        BY <1>1, <1>2 DEF WorkersOK, WorkerOK, At
    <2>2. \A v \in Workers \ {w} : WorkerOK(v)'
        BY <1>1, <1>2 DEF WorkersOK, WorkerOK, At
    <2> QED
        BY <2>1, <2>2 DEF WorkersOK
<1>4. ReceiptOK' /\ TopupOK' /\ MetOK'
    BY <1>1, <1>2 DEF ReceiptOK, TopupOK, MetOK, Met
<1>5. SpentsOK'
    <2> SUFFICES ASSUME NEW d \in Deposits, Clean(d)'
                 PROVE  BookedOK(d)' /\ RequestsOK(d)' /\ ReceiptsOK(d)' /\ ApartLooks(d)'
        BY DEF SpentsOK, SpentOK
    <2>1. Clean(d) /\ BookedOK(d) /\ RequestsOK(d) /\ ReceiptsOK(d) /\ ApartLooks(d)
        BY DEF Clean, Met, SpentsOK, SpentOK
    <2>2. ApartLooks(d)'
        BY <2>1 DEF ApartLooks, KeptFor
    <2>3. CASE d # Of(w)
        <3>1. uses'[d] = uses[d]
            BY <1>0, <2>3 DEF Of
        <3>2. \A v \in Workers : Works(v, d)' <=> Works(v, d) /\ v # w
            BY <1>2, <2>3 DEF Works
        <3>3. \A v \in Workers : Works(v, d) => v # w /\ (Booking(v)' <=> Booking(v))
                                                      /\ (Deciding(v)' <=> Deciding(v))
            BY <1>1, <2>3 DEF Works, Booking, Deciding, At
        <3>4. (InBooks(d)' <=> InBooks(d)) /\ (ReceiptBooks' <=> ReceiptBooks) /\ (TopupBooks' <=> TopupBooks)
            BY DEF InBooks, ReceiptBooks, TopupBooks
        <3>5. BookedOK(d)'
            BY <2>1, <3>1, <3>2, <3>3, <3>4 DEF BookedOK
        <3>6. RequestsOK(d)'
            BY <1>2, <2>1, <3>1, <3>2, <3>3 DEF RequestsOK
        <3>7. ReceiptsOK(d)'
            BY <2>1, <3>1 DEF ReceiptsOK
        <3> QED
            BY <2>2, <3>5, <3>6, <3>7
    <2>4. CASE d = Of(w)
        <3>1. Works(w, d)
            BY <2>4 DEF Works
        <3>2. (\A v \in Workers \ {w} : ~Works(v, d)) /\ receipt.pc = "idle" /\ topup.pc = "idle"
            BY <2>1, <3>1, CleanIsAlone
        <3>3. \A v \in Workers : Works(v, d)' => v = w
            BY <1>2, <3>2 DEF Works
        <3>4. Works(w, d)' /\ event'[E(w)].status \in Retryable
            BY <1>2, <2>1, <3>1 DEF Works, RequestsOK
        <3>5. \/ uses'[d] = uses[d]
              \/ uses'[d] = {p} /\ Booking(w)'
            BY <1>0, <2>1, <2>4, <3>1 DEF RequestsOK, Of, Clean
        <3>6. Deciding(w)' => uses'[d] = {}
            BY <2>1, <3>1, <3>5 DEF RequestsOK, Deciding, Booking, At
        <3>7. RequestsOK(d)' /\ ReceiptsOK(d)'
            BY <1>2, <3>2, <3>3, <3>4, <3>6 DEF RequestsOK, ReceiptsOK
        <3>8. ASSUME uses'[d] = {p}, Booking(w)' PROVE BookedOK(d)'
            BY <3>4, <3>8 DEF BookedOK
        <3>9. ASSUME uses'[d] = uses[d] PROVE BookedOK(d)'
            <4>1. uses[d] # {} => InBooks(d) \/ Booking(w)
                BY <2>1, <3>2 DEF BookedOK, ReceiptBooks, TopupBooks
            <4> QED
                BY <2>1, <3>4, <3>9, <4>1 DEF BookedOK, InBooks
        <3> QED
            BY <2>2, <3>5, <3>7, <3>8, <3>9
    <2> QED
        BY <2>3, <2>4
<1>6. OwedsOK'
    <2> SUFFICES ASSUME NEW v \in Workers, Working(v)' PROVE OwedOK(v)'
        BY DEF OwedsOK
    <2>1. Working(v) /\ OwedOK(v) /\ worker[v] \in WorkerRec
        BY <1>2, Types DEF OwedsOK
    <2>2. E(w) # Nothing
        BY Sorts DEF WorkersOK, WorkerOK
    <2> SUFFICES ASSUME NEW q \in worker[v].owed
                 PROVE  /\ status'[q] = "approved" /\ <<E(v), q>> \in SameAmount
                        /\ worker'[v].pc \in Past => q \in DirectBuy \/ smsOf'[q] # Nothing
        <3>1. worker'[v].owed = worker[v].owed
            BY <1>1
        <3> QED
            BY <1>2, <3>1 DEF OwedOK
    <2>3. q \in Payments /\ q \in Targets /\ status[q] = "approved" /\ <<E(v), q>> \in SameAmount
        BY <2>1, Sorts DEF WorkerRec, OwedOK
    <2>4. status'[q] = "approved" /\ (smsOf[q] # Nothing => smsOf'[q] # Nothing)
        BY <1>0, <2>2, <2>3, Sorts
    <2>5. worker'[v].pc \in Past => worker[v].pc \in Past
        BY <1>1 DEF At, Past
    <2> QED
        BY <2>1, <2>3, <2>4, <2>5 DEF OwedOK
<1>7. \A e, q : q \in Payments /\ Waits(e, q)' => Waits(e, q)
    BY <1>0, Sorts DEF Waits, Met
<1>8. MatchesOK'
    BY <1>7 DEF MatchesOK, MatchOK
<1>9. KeepsOK'
    <2>1. \A v \in Workers \ {w} : KeepOK(v)'
        BY <1>1, <1>2, <1>7 DEF KeepsOK, KeepOK, At
    <2>2. KeepOK(w)'
        BY DEF KeepOK, At
    <2> QED
        BY <2>1, <2>2 DEF KeepsOK
<1> QED
    BY <1>3, <1>4, <1>5, <1>6, <1>8, <1>9

LEMMA WritesKeep ==
    ASSUME TypeOK, Inv, NEW w \in Workers,
           \/ Attach(w) \/ AttachSwallowed(w) \/ ApproveCharge(w) \/ ChargeRaises(w)
           \/ Approve(w) \/ Patch(w)
    PROVE  Inv'
<1>0. WorkersOK
    BY DEF Inv
<1>1. PICK p : p = worker[w].p
    OBVIOUS
<1>2. CASE Attach(w)
    <2>1. /\ Stays(w) /\ At(w, "attach") /\ p \in Targets
          /\ worker'[w].pc = "mark" /\ worker'[w].row.status = "approved"
          /\ smsOf' = [smsOf EXCEPT ![p] = E(w)]
          /\ uses' = [uses EXCEPT ![DepositOf[E(w)]] = @ \cup {p}]
          /\ UNCHANGED <<status, event, receipt, topup, met, undone, stopped, raised>>
        BY <1>0, <1>1, <1>2, AttachMoves, Rows, Sorts DEF others
    <2>2. Working(w) /\ Deciding(w) /\ Booking(w)'
        BY <2>1 DEF At, Working, Deciding, Booking
    <2> QED
        BY <2>1, <2>2, WriteKeeps
<1>3. CASE AttachSwallowed(w)
    <2>1. /\ Stays(w) /\ At(w, "attach") /\ p \in Targets
          /\ worker'[w].pc = "mark" /\ worker'[w].row.status = "approved"
          /\ UNCHANGED <<status, smsOf, event, receipt, topup, uses, met, undone, stopped, raised>>
        BY <1>0, <1>1, <1>3, AttachSwallowedMoves, Rows, Sorts DEF others, rowVars
    <2>2. Working(w) /\ Booking(w)'
        BY <2>1 DEF At, Working, Booking
    <2> QED
        BY <2>1, <2>2, WriteKeeps
<1>4. CASE ApproveCharge(w)
    <2>1. /\ Stays(w) /\ worker[w].pc \in {"late", "charge"} /\ p \in Targets /\ worker'[w].pc = "mark"
          /\ \/ /\ worker'[w].row.status = "approved"
                /\ status' = [status EXCEPT ![p] = "approved"]
                /\ smsOf' = [smsOf EXCEPT ![p] = E(w)]
                /\ uses' = [uses EXCEPT ![DepositOf[E(w)]] = @ \cup {p}]
             \/ /\ worker'[w].row.status = "approve_failed"
                /\ UNCHANGED <<status, smsOf, uses>>
          /\ UNCHANGED <<event, receipt, topup, met, undone, stopped, raised>>
        BY <1>0, <1>1, <1>4, ApproveChargeMoves, Rows, Sorts DEF rowVars, others
    <2>2. Working(w) /\ Deciding(w) /\ ~Booking(w)
        BY <2>1 DEF At, Working, Deciding, Booking
    <2>3. worker'[w].row.status = "approved" => Booking(w)'
        BY <2>1 DEF At, Booking
    <2>4. CASE worker'[w].row.status = "approved"
        BY <2>1, <2>2, <2>3, <2>4, WriteKeeps
    <2>5. CASE worker'[w].row.status # "approved"
        BY <2>1, <2>2, <2>5, WriteKeeps
    <2> QED
        BY <2>4, <2>5
<1>5. CASE ChargeRaises(w)
    <2>1. /\ Stays(w) /\ worker[w].pc \in {"late", "charge"} /\ p \in Charges /\ p \in Targets
          /\ \/ At(w, "late") /\ worker'[w].pc = "pending"
             \/ worker'[w].pc = "mark" /\ worker'[w].row.status = "approve_failed"
          /\ Left(p, E(w))
          /\ UNCHANGED <<event, receipt, topup, met, undone, stopped>>
        BY <1>0, <1>1, <1>5, ChargeRaisesMoves, Rows, Sorts DEF others
    <2>2. Working(w) /\ ~Booking(w)
        BY <2>1 DEF At, Working, Booking
    <2>3. /\ \/ status' = status \/ status' = [status EXCEPT ![p] = "approved"]
             \/ status' = [status EXCEPT ![p] = "processing"]
          /\ smsOf' = smsOf \/ smsOf' = [smsOf EXCEPT ![p] = E(w)]
          /\ \/ uses' = uses
             \/ /\ DepositOf[E(w)] \in raised'
                /\ uses' = [uses EXCEPT ![DepositOf[E(w)]] = @ \cup {p}]
          /\ raised \subseteq raised'
        BY <2>1 DEF Left, rowVars
    <2> QED
        BY <2>1, <2>2, <2>3, WriteKeeps
<1>6. CASE Approve(w)
    <2>1. /\ Stays(w) /\ At(w, "approve") /\ p \in Targets
          /\ worker'[w].pc = "patch" /\ worker'[w].p = worker[w].p
          /\ status' = [status EXCEPT ![p] = "approved"]
          /\ uses' = [uses EXCEPT ![DepositOf[E(w)]] = @ \cup {p}]
          /\ UNCHANGED <<smsOf, event, receipt, topup, met, undone, stopped, raised>>
        BY <1>0, <1>1, <1>6, ApproveMoves, Sorts DEF others
    <2>2. Working(w) /\ Deciding(w) /\ Booking(w)'
        BY <2>1 DEF At, Working, Deciding, Booking
    <2> QED
        BY <2>1, <2>2, WriteKeeps
<1>7. CASE Patch(w)
    <2>1. /\ Stays(w) /\ At(w, "patch") /\ p \in Targets
          /\ worker'[w].pc = "mark" /\ worker'[w].row.status = "approved"
          /\ smsOf' = [smsOf EXCEPT ![p] = E(w)]
          /\ UNCHANGED <<status, event, receipt, topup, uses, met, undone, stopped, raised>>
        BY <1>0, <1>1, <1>7, PatchMoves, Rows, Sorts DEF history, others
    <2>2. Working(w) /\ Booking(w)'
        BY <2>1 DEF At, Working, Booking
    <2> QED
        BY <2>1, <2>2, WriteKeeps
<1> QED
    BY <1>2, <1>3, <1>4, <1>5, <1>6, <1>7

-----------------------------------------------------------------------------
(* The end and the begin of a request preserve the invariant.              *)

LEMMA MarkKeeps ==
    ASSUME TypeOK, Inv, NEW w \in Workers, Mark(w)
    PROVE  Inv'
<1> USE DEF Inv
<1>1. /\ At(w, "mark") /\ E(w) \in Events
      /\ worker'[w].pc = "idle" /\ \A v \in Workers \ {w} : worker'[v] = worker[v]
      /\ event' = [event EXCEPT ![E(w)] = worker[w].row]
      /\ UNCHANGED <<status, smsOf, receipt, topup, uses, met, undone, stopped, raised>>
    BY MarkMoves DEF rowVars, history
<1>2. /\ Working(w) /\ ~Working(w)' /\ worker[w] \in WorkerRec
      /\ \A v \in Workers \ {w} : /\ Working(v)' <=> Working(v)
                                  /\ E(v)' = E(v) /\ Of(v)' = Of(v)
    BY <1>1, Types DEF Working, At, E, Of
<1>3. WorkersOK'
    BY <1>1, <1>2 DEF WorkersOK, WorkerOK, At
<1>4. ReceiptOK' /\ TopupOK' /\ MetOK'
    BY <1>1, <1>2 DEF ReceiptOK, TopupOK, MetOK, Met
<1>5. /\ event'[E(w)] = worker[w].row
      /\ \A f \in Events \ {E(w)} : event'[f] = event[f]
    BY <1>1, Types
<1>6. SpentsOK'
    <2> SUFFICES ASSUME NEW d \in Deposits, Clean(d)'
                 PROVE  BookedOK(d)' /\ RequestsOK(d)' /\ ReceiptsOK(d)' /\ ApartLooks(d)'
        BY DEF SpentsOK, SpentOK
    <2>1. Clean(d) /\ BookedOK(d) /\ RequestsOK(d) /\ ReceiptsOK(d) /\ ApartLooks(d) /\ uses' = uses
        BY <1>1 DEF Clean, Met, SpentsOK, SpentOK
    <2>2. CASE d # Of(w)
        <3>1. \A f \in Events : DepositOf[f] = d => event'[f] = event[f]
            BY <1>5, <2>2 DEF Of
        <3>2. InBooks(d) => InBooks(d)'
            BY <3>1 DEF InBooks
        <3>3. \A v \in Workers : Works(v, d) => Works(v, d)' /\ (Booking(v) => Booking(v)')
            BY <1>1, <1>2, <2>2 DEF Works, Booking, At
        <3>4. ASSUME NEW v \in Workers, Works(v, d)'
              PROVE  event'[E(v)'].status \in Retryable /\ (Deciding(v)' => uses[d] = {})
            <4>1. v # w /\ Works(v, d) /\ E(v) \in Events /\ DepositOf[E(v)] = d
                BY <1>2, <3>4 DEF Works, WorkersOK, WorkerOK, Of
            <4> QED
                BY <1>1, <1>2, <2>1, <3>1, <4>1 DEF RequestsOK, Deciding
        <3>5. receipt.todo \subseteq Events
            BY Types DEF ReceiptRec
        <3>6. ReceiptsOK(d)' /\ ApartLooks(d)'
            BY <1>1, <2>1, <3>1, <3>5 DEF ReceiptsOK, ApartLooks, KeptFor, ReceiptOK, TopupOK
        <3>7. BookedOK(d)'
            BY <1>1, <2>1, <3>2, <3>3 DEF BookedOK, ReceiptBooks, TopupBooks
        <3> QED
            BY <1>1, <3>4, <3>6, <3>7 DEF RequestsOK
    <2>3. CASE d = Of(w)
        <3>1. Works(w, d)
            BY <1>2, <2>3 DEF Works
        <3>2. (\A v \in Workers \ {w} : ~Works(v, d)) /\ receipt.pc = "idle" /\ topup.pc = "idle"
            BY <2>1, <3>1, CleanIsAlone
        <3>3. \A v \in Workers : ~Works(v, d)'
            BY <1>2, <3>2 DEF Works
        <3>4. event[E(w)].status # "approved"
            BY <2>1, <3>1 DEF RequestsOK, Retryable
        <3>5. InBooks(d) \/ Booking(w) => InBooks(d)'
            BY <1>1, <1>5, <2>3, <3>4 DEF InBooks, Booking, At, Of
        <3> QED
            BY <1>1, <2>1, <3>2, <3>3, <3>5
               DEF BookedOK, RequestsOK, ReceiptsOK, ApartLooks, ReceiptBooks, TopupBooks
    <2> QED
        BY <2>2, <2>3
<1>7. OwedsOK'
    <2>1. \A v \in Workers \ {w} : Working(v) => OwedOK(v)'
        BY <1>1, <1>2 DEF OwedsOK, OwedOK
    <2> QED
        BY <1>2, <2>1 DEF OwedsOK
<1>8. \A e, p : Waits(e, p)' <=> Waits(e, p)
    BY <1>1 DEF Waits, Met
<1>9. MatchesOK'
    <2> SUFFICES ASSUME NEW e \in Events, NEW p \in Payments PROVE MatchOK(e, p)'
        BY DEF MatchesOK
    <2>1. MatchOK(e, p)
        BY DEF MatchesOK
    <2>2. CASE e # E(w)
        BY <1>1, <1>5, <1>8, <2>1, <2>2 DEF MatchOK
    <2>3. CASE e = E(w)
        <3>1. worker[w].row.status = "no_pending_match" => ~Waits(e, p)
            BY <1>1, <2>3 DEF KeepsOK, KeepOK
        <3> QED
            BY <1>5, <1>8, <2>3, <3>1 DEF MatchOK
    <2> QED
        BY <2>2, <2>3
<1>10. KeepsOK'
    <2>1. \A v \in Workers \ {w} : KeepOK(v)'
        BY <1>1, <1>2, <1>8 DEF KeepsOK, KeepOK, At
    <2>2. KeepOK(w)'
        BY <1>1 DEF KeepOK, At
    <2> QED
        BY <2>1, <2>2 DEF KeepsOK
<1> QED
    BY <1>3, <1>4, <1>6, <1>7, <1>9, <1>10

LEMMA DiesKeeps ==
    ASSUME TypeOK, Inv, NEW w \in Workers, Dies(w)
    PROVE  Inv'
<1> USE DEF Inv
<1>1. /\ Working(w) /\ E(w) \in Events
      /\ worker'[w].pc = "idle" /\ \A v \in Workers \ {w} : worker'[v] = worker[v]
      /\ met' = met \cup {<<Of(w), Of(w)>>}
      /\ UNCHANGED <<status, smsOf, event, receipt, topup, uses, undone, stopped, raised>>
    BY DiesMoves DEF rowVars
<1>2. /\ ~Working(w)'
      /\ \A v \in Workers \ {w} : /\ Working(v)' <=> Working(v)
                                  /\ E(v)' = E(v) /\ Of(v)' = Of(v)
    BY <1>1 DEF Working, At, E, Of
<1>3. WorkersOK'
    BY <1>1, <1>2 DEF WorkersOK, WorkerOK, At
<1>4. \A d, x : Met(d, x) => Met(d, x)'
    BY <1>1 DEF Met
<1>5. ReceiptOK' /\ TopupOK' /\ MetOK'
    BY <1>1, <1>2, <1>4 DEF ReceiptOK, TopupOK, MetOK
<1>6. SpentsOK'
    <2> SUFFICES ASSUME NEW d \in Deposits, Clean(d)'
                 PROVE  BookedOK(d)' /\ RequestsOK(d)' /\ ReceiptsOK(d)' /\ ApartLooks(d)'
        BY DEF SpentsOK, SpentOK
    <2>1. Clean(d) /\ d # Of(w) /\ BookedOK(d) /\ RequestsOK(d) /\ ReceiptsOK(d) /\ ApartLooks(d)
        BY <1>1 DEF Clean, Met, SpentsOK, SpentOK
    <2>2. \A v \in Workers : Works(v, d)' <=> Works(v, d) /\ v # w
        BY <1>2, <2>1 DEF Works
    <2>3. \A v \in Workers : Works(v, d) => v # w /\ (Booking(v)' <=> Booking(v))
                                                  /\ (Deciding(v)' <=> Deciding(v))
        BY <1>1, <2>1 DEF Works, Booking, Deciding, At
    <2>4. (InBooks(d)' <=> InBooks(d)) /\ (ReceiptBooks' <=> ReceiptBooks)
          /\ (TopupBooks' <=> TopupBooks)
        BY <1>1 DEF InBooks, ReceiptBooks, TopupBooks
    <2>5. BookedOK(d)'
        BY <1>1, <2>1, <2>2, <2>3, <2>4 DEF BookedOK
    <2>6. RequestsOK(d)'
        BY <1>1, <1>2, <2>1, <2>2, <2>3 DEF RequestsOK
    <2>7. ReceiptsOK(d)' /\ ApartLooks(d)'
        BY <1>1, <2>1 DEF ReceiptsOK, ApartLooks, KeptFor
    <2> QED
        BY <2>5, <2>6, <2>7
<1>7. OwedsOK'
    <2>1. \A v \in Workers \ {w} : Working(v) => OwedOK(v)'
        BY <1>1, <1>2 DEF OwedsOK, OwedOK
    <2> QED
        BY <1>2, <2>1 DEF OwedsOK
<1>8. \A e, p : Waits(e, p)' => Waits(e, p)
    BY <1>1, <1>4 DEF Waits
<1>9. MatchesOK'
    BY <1>1, <1>8 DEF MatchesOK, MatchOK
<1>10. KeepsOK'
    <2>1. \A v \in Workers \ {w} : KeepOK(v)'
        BY <1>1, <1>2, <1>8 DEF KeepsOK, KeepOK, At
    <2>2. KeepOK(w)'
        BY <1>1 DEF KeepOK, At
    <2> QED
        BY <2>1, <2>2 DEF KeepsOK
<1> QED
    BY <1>3, <1>5, <1>6, <1>7, <1>9, <1>10

LEMMA SendKeeps ==
    ASSUME TypeOK, Inv, NEW w \in Workers, NEW e \in Events, Send(w, e)
    PROVE  Inv'
<1> USE DEF Inv
<1>1. /\ ~Working(w) /\ \A v \in Workers \ {w} : worker'[v] = worker[v]
      /\ worker'[w].pc = "approved" /\ worker'[w].e = e
      /\ worker'[w].owed = {p \in Alike(e, Payments) : status[p] = "approved" /\ smsOf[p] = Nothing}
      /\ UNCHANGED <<status, smsOf, receipt, topup, uses, undone, stopped, raised>>
    BY SendMoves DEF rowVars
<1>2. /\ met' = met \cup Meets(e)
      /\ event[e].status \in Retryable \cup {"none"} /\ event'[e].status \in Retryable
      /\ \A f \in Events : event'[f] = event[f] \/ (event[f].status = "none" /\ event'[f].status = "received")
    <2>1. Row("received", Nothing).status = "received"
        BY Rows
    <2> QED
        BY <2>1, SendMoves, Types DEF Retryable
<1>3. /\ Working(w)' /\ E(w)' = e /\ Of(w)' = DepositOf[e] /\ DepositOf[e] \in Deposits
      /\ \A v \in Workers \ {w} : /\ Working(v)' <=> Working(v)
                                  /\ E(v)' = E(v) /\ Of(v)' = Of(v)
    BY <1>1, Sorts DEF Working, At, E, Of
<1>4. WorkersOK'
    BY <1>1, <1>3 DEF WorkersOK, WorkerOK, At
<1>5. \A d, x : Met(d, x) => Met(d, x)'
    BY <1>2 DEF Met
<1>6. /\ \A v \in Workers \ {w} : Working(v) => Met(Of(v), DepositOf[e])' /\ Met(DepositOf[e], Of(v))'
      /\ receipt.pc # "idle" => Met(DepositOf[e], receipt.p)'
      /\ topup.pc # "idle" => Met(DepositOf[e], topup.p)'
    <2>1. \A v \in Workers : Working(v) => E(v) \in Busy
        BY DEF Busy, Working
    <2>2. \A f \in Busy : <<DepositOf[e], DepositOf[f]>> \in Meets(e) /\ <<DepositOf[f], DepositOf[e]>> \in Meets(e)
        BY DEF Meets
    <2>3. /\ receipt.pc # "idle" => receipt.p # Nothing
          /\ topup.pc # "idle" => topup.p # Nothing
        BY Sorts DEF ReceiptOK, TopupOK
    <2>4. \A p \in {receipt.p, topup.p} \ {Nothing} : <<DepositOf[e], p>> \in Meets(e)
        BY DEF Meets
    <2> QED
        BY <1>1, <1>2, <1>3, <2>1, <2>2, <2>3, <2>4 DEF Met, Of
<1>7. ReceiptOK' /\ TopupOK' /\ MetOK'
    BY <1>1, <1>3, <1>5, <1>6 DEF ReceiptOK, TopupOK, MetOK
<1>8. SpentsOK'
    <2> SUFFICES ASSUME NEW d \in Deposits, Clean(d)'
                 PROVE  BookedOK(d)' /\ RequestsOK(d)' /\ ReceiptsOK(d)' /\ ApartLooks(d)'
        BY DEF SpentsOK, SpentOK
    <2>1. Clean(d) /\ BookedOK(d) /\ RequestsOK(d) /\ ReceiptsOK(d) /\ ApartLooks(d) /\ uses' = uses
        BY <1>1, <1>5 DEF Clean, SpentsOK, SpentOK
    <2>2. InBooks(d) => InBooks(d)'
        BY <1>2 DEF InBooks
    <2>3. \A v \in Workers : Works(v, d) => Works(v, d)' /\ (Booking(v) => Booking(v)')
        BY <1>1, <1>3 DEF Works, Booking, At
    <2>4. ASSUME NEW v \in Workers, Works(v, d)'
          PROVE  event'[E(v)'].status \in Retryable /\ (Deciding(v)' => uses[d] = {})
        <3>1. CASE v = w
            BY <1>1, <1>2, <1>3, <3>1 DEF Deciding
        <3>2. CASE v # w
            <4>1. Works(v, d) /\ E(v) \in Events
                BY <1>3, <2>4, <3>2 DEF Works, WorkersOK, WorkerOK
            <4> QED
                BY <1>1, <1>2, <1>3, <2>1, <3>2, <4>1 DEF RequestsOK, Deciding, Retryable
        <3> QED
            BY <3>1, <3>2
    <2>5. ReceiptsOK(d)'
        <3>1. receipt.todo \subseteq Events
            BY Types DEF ReceiptRec
        <3> QED
            BY <1>1, <1>2, <2>1, <3>1 DEF ReceiptsOK, ReceiptOK, TopupOK
    <2>6. ApartLooks(d)'
        BY <1>1, <1>2, <2>1 DEF ApartLooks, KeptFor
    <2>7. BookedOK(d)'
        BY <1>1, <2>1, <2>2, <2>3 DEF BookedOK, ReceiptBooks, TopupBooks
    <2> QED
        BY <1>1, <2>4, <2>5, <2>6, <2>7 DEF RequestsOK
<1>9. OwedsOK'
    <2>1. \A v \in Workers \ {w} : Working(v) => OwedOK(v)'
        BY <1>1, <1>3 DEF OwedsOK, OwedOK
    <2>2. OwedOK(w)'
        BY <1>1, <1>3 DEF OwedOK, Alike, Past
    <2> QED
        BY <1>3, <2>1, <2>2 DEF OwedsOK
<1>10. \A f, p : Waits(f, p)' => Waits(f, p)
    BY <1>1, <1>5 DEF Waits
<1>11. MatchesOK'
    <2>1. \A f \in Events : event'[f].status = "no_pending_match" => event[f].status = "no_pending_match"
        BY <1>2
    <2> QED
        BY <1>1, <1>10, <2>1 DEF MatchesOK, MatchOK
<1>12. KeepsOK'
    <2>1. \A v \in Workers \ {w} : KeepOK(v)'
        BY <1>1, <1>3, <1>10 DEF KeepsOK, KeepOK, At
    <2>2. KeepOK(w)'
        BY <1>1 DEF KeepOK, At
    <2> QED
        BY <2>1, <2>2 DEF KeepsOK
<1> QED
    BY <1>4, <1>7, <1>8, <1>9, <1>11, <1>12

-----------------------------------------------------------------------------
(* A receipt and the administrator preserve the invariant.                 *)

\* No kept message waits for a payment, other than for the one whose receipt
\* is at hand and still to look at it.
LEMMA WaitsForReceipt ==
    ASSUME Inv, NEW e \in Events, NEW p \in Payments,
           event[e].status = "no_pending_match", Waits(e, p)
    PROVE  /\ receipt.p = p
           /\ \/ receipt.pc \in {"look", "approve"}
              \/ receipt.pc = "each" /\ e \in receipt.todo
BY DEF Inv, MatchesOK, MatchOK

LEMMA CreateKeeps ==
    ASSUME TypeOK, Inv, NEW p \in Payments, CreatePayment(p)
    PROVE  Inv'
<1> USE DEF Inv
<1>1. /\ receipt.pc = "idle" /\ status[p] = "none"
      /\ receipt'.pc = "look" /\ receipt'.p = p
      /\ status' = [status EXCEPT ![p] = "pending"]
      /\ met' = met \cup {<<DepositOf[f], p>> : f \in Busy} \cup BothLook(topup, topup.p)
      /\ UNCHANGED <<smsOf, event, worker, topup, uses, undone, stopped, raised>>
    BY CreateMoves
<1>2. \A d, x : Met(d, x) => Met(d, x)'
    BY <1>1 DEF Met
<1>3. \A w \in Workers : /\ Working(w)' <=> Working(w)
                         /\ E(w)' = E(w) /\ Of(w)' = Of(w)
                         /\ Working(w) => Met(Of(w), p)'
    BY <1>1 DEF Working, At, E, Of, Met, Busy
<1>4. WorkersOK' /\ ReceiptOK' /\ TopupOK'
    BY <1>1 DEF WorkersOK, WorkerOK, ReceiptOK, TopupOK, Working, At, E
<1>5. MetOK'
    BY <1>1, <1>2, <1>3 DEF MetOK
<1>6. SpentsOK'
    <2> SUFFICES ASSUME NEW d \in Deposits, Clean(d)'
                 PROVE  BookedOK(d)' /\ RequestsOK(d)' /\ ReceiptsOK(d)' /\ ApartLooks(d)'
        BY DEF SpentsOK, SpentOK
    <2>1. Clean(d) /\ BookedOK(d) /\ RequestsOK(d) /\ ReceiptsOK(d) /\ ApartLooks(d)
        BY <1>1, <1>2 DEF Clean, SpentsOK, SpentOK
    <2>2. (InBooks(d)' <=> InBooks(d)) /\ ~ReceiptBooks /\ ~ReceiptBooks'
          /\ (TopupBooks' <=> TopupBooks)
        BY <1>1 DEF InBooks, ReceiptBooks, TopupBooks
    <2>3. \A w \in Workers : /\ Works(w, d)' <=> Works(w, d)
                             /\ Booking(w)' <=> Booking(w)
                             /\ Deciding(w)' <=> Deciding(w)
        BY <1>1, <1>3 DEF Works, Booking, Deciding, At
    <2>4. BookedOK(d)'
        BY <1>1, <2>1, <2>2, <2>3 DEF BookedOK
    <2>5. RequestsOK(d)'
        BY <1>1, <1>3, <2>1, <2>3 DEF RequestsOK
    <2>6. ReceiptsOK(d)'
        BY <1>1, <2>1 DEF ReceiptsOK
    \* A kept message is on record with both receipts.
    <2>7. ASSUME topup.pc # "idle", KeptFor(d) PROVE FALSE
        <3>1. PICK f \in Kept : DepositOf[f] = d
            BY <2>7 DEF KeptFor, Kept
        <3>2. <<d, topup.p>> \in BothLook(topup, topup.p)
            BY <2>7, <3>1 DEF BothLook
        <3>3. topup.p \in Targets
            BY <2>7, Sorts DEF TopupOK
        <3> QED
            BY <1>1, <3>2, <3>3 DEF Clean, Met
    <2>8. ApartLooks(d)'
        BY <1>1, <2>7 DEF ApartLooks, KeptFor
    <2> QED
        BY <2>4, <2>5, <2>6, <2>8
<1>7. OwedsOK'
    <2> SUFFICES ASSUME NEW w \in Workers, Working(w) PROVE OwedOK(w)'
        BY <1>3 DEF OwedsOK
    <2>1. OwedOK(w) /\ worker[w].owed \subseteq Targets
        BY Types, Sorts DEF OwedsOK, WorkerRec
    <2>2. \A q \in worker[w].owed : status'[q] = "approved"
        BY <1>1, <2>1, Types DEF OwedOK
    <2> QED
        BY <1>1, <2>1, <2>2 DEF OwedOK, E
<1>8. \A e, q : q \in Payments \ {p} /\ Waits(e, q)' => Waits(e, q)
    BY <1>1, <1>2, Types, Sorts DEF Waits
<1>9. MatchesOK'
    <2> SUFFICES ASSUME NEW e \in Events, NEW q \in Payments PROVE MatchOK(e, q)'
        BY DEF MatchesOK
    <2>1. CASE q = p
        BY <1>1, <2>1 DEF MatchOK
    <2>2. CASE q # p
        BY <1>1, <1>8, <2>2, WaitsForReceipt DEF MatchOK
    <2> QED
        BY <2>1, <2>2
<1>10. KeepsOK'
    <2> SUFFICES ASSUME NEW w \in Workers PROVE KeepOK(w)'
        BY DEF KeepsOK
    <2>1. Working(w) => ~Waits(E(w), p)'
        BY <1>3 DEF Waits, Of
    <2>2. At(w, "scope") \/ At(w, "mark") => Working(w)
        BY DEF At, Working
    <2> QED
        BY <1>1, <1>8, <2>1, <2>2 DEF KeepsOK, KeepOK, At, E
<1> QED
    BY <1>4, <1>5, <1>6, <1>7, <1>9, <1>10

\* A step of the receipt that writes to its own state and to the payment.
LEMMA ReceiptBasics ==
    ASSUME TypeOK, Inv, NEW p \in Targets, ReceiptOK',
           receipt'.pc = "idle" \/ (receipt.pc # "idle" /\ receipt'.p = receipt.p),
           status' = status \/ status' = [status EXCEPT ![p] = "approved"],
           smsOf' = smsOf \/ \E e \in Events : smsOf' = [smsOf EXCEPT ![p] = e],
           UNCHANGED <<worker, topup, undone>>, stopped \subseteq stopped', met \subseteq met'
    PROVE  /\ WorkersOK' /\ TopupOK' /\ MetOK' /\ OwedsOK' /\ KeepsOK'
           /\ \A e \in Events, q \in Payments : Waits(e, q)' => Waits(e, q)
<1> USE DEF Inv
<1>1. \A d, x : Met(d, x) => Met(d, x)'
    BY DEF Met
<1>2. \A w \in Workers : /\ Working(w)' <=> Working(w)
                         /\ E(w)' = E(w) /\ Of(w)' = Of(w)
    BY DEF Working, At, E, Of
<1>3. WorkersOK' /\ TopupOK' /\ MetOK'
    BY <1>1, <1>2 DEF WorkersOK, WorkerOK, TopupOK, MetOK, At
<1>4. OwedsOK'
    <2> SUFFICES ASSUME NEW w \in Workers, Working(w) PROVE OwedOK(w)'
        BY <1>2 DEF OwedsOK
    <2>1. OwedOK(w) /\ worker[w].owed \subseteq Targets
        BY Types, Sorts DEF OwedsOK, WorkerRec
    <2>2. \A q \in worker[w].owed : status'[q] = "approved"
        BY <2>1, Types DEF OwedOK
    <2>3. \A q \in Targets : smsOf[q] # Nothing => smsOf'[q] # Nothing
        BY Types, Sorts
    <2> QED
        BY <2>1, <2>2, <2>3 DEF OwedOK, E
<1>5. \A e \in Events, q \in Payments : Waits(e, q)' => Waits(e, q)
    BY <1>1, Types, Sorts DEF Waits
<1>6. KeepsOK'
    <2> SUFFICES ASSUME NEW w \in Workers PROVE KeepOK(w)'
        BY DEF KeepsOK
    <2>1. At(w, "scope") \/ At(w, "mark") => E(w) \in Events
        BY DEF At, Working, WorkersOK, WorkerOK
    <2> QED
        BY <1>5, <2>1 DEF KeepsOK, KeepOK, At, E
<1> QED
    BY <1>3, <1>4, <1>5, <1>6

\* The requests of a deposit, and the books, while only the receipt moves.
LEMMA ReceiptSpent ==
    ASSUME TypeOK, Inv, NEW d \in Deposits, UNCHANGED <<worker, event, topup, raised>>, met \subseteq met',
           receipt'.pc = "idle" \/ receipt.pc # "idle", Clean(d)'
    PROVE  /\ Clean(d) /\ BookedOK(d) /\ RequestsOK(d) /\ ReceiptsOK(d)
           /\ ApartLooks(d)'
           /\ uses'[d] = uses[d] => RequestsOK(d)'
           /\ /\ uses'[d] = uses[d]
              /\ ReceiptBooks /\ DepositOf[receipt.e] = d => ReceiptBooks' /\ DepositOf[receipt'.e] = d
              => BookedOK(d)'
           /\ receipt.pc # "idle" => \A w \in Workers : ~Works(w, d) /\ ~Works(w, d)'
           /\ receipt.pc # "idle" /\ KeptFor(d) => topup.pc = "idle"
<1>1. Clean(d) /\ BookedOK(d) /\ RequestsOK(d) /\ ReceiptsOK(d) /\ ApartLooks(d)
    BY DEF Clean, Met, Inv, SpentsOK, SpentOK
<1>2. (InBooks(d)' <=> InBooks(d)) /\ (TopupBooks' <=> TopupBooks) /\ (KeptFor(d)' <=> KeptFor(d))
    BY DEF InBooks, TopupBooks, KeptFor
<1>3. \A w \in Workers : /\ Works(w, d)' <=> Works(w, d)
                         /\ Booking(w)' <=> Booking(w)
                         /\ Deciding(w)' <=> Deciding(w)
                         /\ E(w)' = E(w)
    BY DEF Works, Working, Booking, Deciding, At, Of, E
<1>4. uses'[d] = uses[d] => RequestsOK(d)'
    BY <1>1, <1>3 DEF RequestsOK
<1>5. /\ uses'[d] = uses[d]
      /\ ReceiptBooks /\ DepositOf[receipt.e] = d => ReceiptBooks' /\ DepositOf[receipt'.e] = d
      => BookedOK(d)'
    BY <1>1, <1>2, <1>3 DEF BookedOK
<1>6. ApartLooks(d)' /\ (receipt.pc # "idle" /\ KeptFor(d) => topup.pc = "idle")
    BY <1>1, <1>2 DEF ApartLooks
<1>7. receipt.pc # "idle" => \A w \in Workers : ~Works(w, d) /\ ~Works(w, d)'
    BY <1>1, <1>3, CleanIsAlone
<1> QED
    BY <1>1, <1>4, <1>5, <1>6, <1>7

LEMMA ReceiptLookKeeps ==
    ASSUME TypeOK, Inv, ReceiptLook
    PROVE  Inv'
<1> USE DEF Inv
<1>1. /\ receipt.pc = "look"
      /\ \/ /\ status[receipt.p] = "pending" /\ receipt'.pc = "each"
            /\ receipt'.p = receipt.p /\ receipt'.todo = Kept
         \/ status[receipt.p] # "pending" /\ receipt'.pc = "idle"
      /\ UNCHANGED <<status, smsOf, event, worker, topup, uses, met, undone, stopped, raised>>
    BY ReceiptLookMoves DEF rowVars, history
<1>2. receipt.p \in Payments /\ receipt.p \in Targets
    BY <1>1, Sorts DEF ReceiptOK
<1>3. ReceiptOK'
    BY <1>1, <1>2 DEF ReceiptOK
<1>4. /\ WorkersOK' /\ TopupOK' /\ MetOK' /\ OwedsOK' /\ KeepsOK'
      /\ \A e \in Events, q \in Payments : Waits(e, q)' => Waits(e, q)
    BY <1>1, <1>2, <1>3, ReceiptBasics
<1>5. SpentsOK'
    <2> SUFFICES ASSUME NEW d \in Deposits, Clean(d)'
                 PROVE  BookedOK(d)' /\ RequestsOK(d)' /\ ReceiptsOK(d)' /\ ApartLooks(d)'
        BY DEF SpentsOK, SpentOK
    <2>1. ~ReceiptBooks /\ ~ReceiptBooks'
        BY <1>1 DEF ReceiptBooks
    <2> QED
        BY <1>1, <2>1, ReceiptSpent DEF ReceiptsOK, Kept
<1>6. MatchesOK'
    <2> SUFFICES ASSUME NEW e \in Events, NEW p \in Payments,
                        event[e].status = "no_pending_match", Waits(e, p)
                 PROVE  receipt'.p = p /\ receipt'.pc = "each" /\ e \in receipt'.todo
        BY <1>1, <1>4 DEF MatchesOK, MatchOK
    <2>1. receipt.p = p /\ status[p] = "pending"
        BY WaitsForReceipt DEF Waits
    <2> QED
        BY <1>1, <2>1 DEF Kept
<1> QED
    BY <1>3, <1>4, <1>5, <1>6

LEMMA ReceiptConsiderKeeps ==
    ASSUME TypeOK, Inv, NEW e \in Events, ReceiptConsider(e)
    PROVE  Inv'
<1> USE DEF Inv
<1>1. /\ receipt.pc = "each" /\ e \in receipt.todo /\ receipt'.p = receipt.p
      /\ \/ /\ receipt'.pc = "mark" /\ receipt'.e = e
            /\ receipt'.row.status = "sms_reused" /\ stopped' = stopped \cup {receipt.p}
         \/ /\ Prior(e) = {} /\ stopped' = stopped
            /\ receipt'.pc = "approve" /\ receipt'.e = e
         \/ /\ <<e, receipt.p>> \notin Fits /\ stopped' = stopped
            /\ receipt'.pc = "each" /\ receipt'.todo = receipt.todo \ {e}
      /\ UNCHANGED <<status, smsOf, event, worker, topup, uses, met, undone, raised>>
    BY ReceiptConsiderMoves DEF rowVars
<1>2. receipt.p \in Payments /\ receipt.p \in Targets
    BY <1>1, Sorts DEF ReceiptOK
<1>3. ReceiptOK'
    BY <1>1, <1>2 DEF ReceiptOK
<1>4. /\ WorkersOK' /\ TopupOK' /\ MetOK' /\ OwedsOK' /\ KeepsOK'
      /\ \A f \in Events, q \in Payments : Waits(f, q)' => Waits(f, q)
    BY <1>1, <1>2, <1>3, ReceiptBasics
<1>5. SpentsOK'
    <2> SUFFICES ASSUME NEW d \in Deposits, Clean(d)'
                 PROVE  BookedOK(d)' /\ RequestsOK(d)' /\ ReceiptsOK(d)' /\ ApartLooks(d)'
        BY DEF SpentsOK, SpentOK
    <2>1. ~ReceiptBooks /\ ~ReceiptBooks'
        BY <1>1 DEF ReceiptBooks
    <2>2. Clean(d) /\ BookedOK(d) /\ RequestsOK(d) /\ ReceiptsOK(d)
        BY <1>1, ReceiptSpent
    <2>3. DepositOf[e] = d => event[e].status = "no_pending_match"
        BY <1>1, <2>2 DEF ReceiptsOK
    \* A use would be in the books, under another id.
    <2>4. ASSUME DepositOf[e] = d, Prior(e) = {} PROVE uses[d] = {}
        <3>1. ~InBooks(d)
            BY <2>3, <2>4 DEF InBooks, Prior
        <3>2. topup.pc = "idle" /\ \A w \in Workers : ~Works(w, d)
            BY <1>1, <2>3, <2>4, ReceiptSpent DEF KeptFor
        <3> QED
            BY <2>1, <2>2, <3>1, <3>2 DEF BookedOK, TopupBooks
    <2>5. BookedOK(d)' /\ RequestsOK(d)' /\ ApartLooks(d)'
        BY <1>1, <2>1, ReceiptSpent
    <2>6. ReceiptsOK(d)'
        <3>1. topup' = topup /\ event' = event /\ uses' = uses
            BY <1>1
        <3>2. CASE receipt'.pc = "mark"
            BY <1>1, <2>2, <2>3, <3>1, <3>2 DEF ReceiptsOK
        <3>3. CASE receipt'.pc = "approve"
            BY <1>1, <2>2, <2>3, <2>4, <3>1, <3>3 DEF ReceiptsOK
        <3>4. CASE receipt'.pc = "each"
            BY <1>1, <2>2, <3>1, <3>4 DEF ReceiptsOK
        <3> QED
            BY <1>1, <3>2, <3>3, <3>4
    <2> QED
        BY <2>5, <2>6
<1>6. MatchesOK'
    <2> SUFFICES ASSUME NEW f \in Events, NEW p \in Payments,
                        event[f].status = "no_pending_match", Waits(f, p), p \notin stopped'
                 PROVE  receipt'.p = p /\ \/ receipt'.pc = "approve"
                                          \/ receipt'.pc = "each" /\ f \in receipt'.todo
        BY <1>1, <1>4 DEF MatchesOK, MatchOK, Waits
    <2>1. receipt.p = p /\ f \in receipt.todo /\ <<f, p>> \in Fits
        BY <1>1, WaitsForReceipt DEF Waits
    <2> QED
        BY <1>1, <2>1
<1> QED
    BY <1>3, <1>4, <1>5, <1>6

\* The search ends without a match, and nothing waited for it any more.
LEMMA ReceiptFindsNoneKeeps ==
    ASSUME TypeOK, Inv, ReceiptFindsNone
    PROVE  Inv'
<1> USE DEF Inv
<1>1. /\ receipt.pc = "each" /\ receipt.todo = {} /\ receipt'.pc = "idle"
      /\ UNCHANGED <<status, smsOf, event, worker, topup, uses, met, undone, stopped, raised>>
    BY Idles DEF ReceiptFindsNone, receiptOnly, rowVars
<1>2. receipt.p \in Payments /\ receipt.p \in Targets
    BY <1>1, Sorts DEF ReceiptOK
<1>3. ReceiptOK'
    BY <1>1 DEF ReceiptOK
<1>4. /\ WorkersOK' /\ TopupOK' /\ MetOK' /\ OwedsOK' /\ KeepsOK'
      /\ \A e \in Events, q \in Payments : Waits(e, q)' => Waits(e, q)
    BY <1>1, <1>2, <1>3, ReceiptBasics
<1>5. SpentsOK'
    <2> SUFFICES ASSUME NEW d \in Deposits, Clean(d)'
                 PROVE  BookedOK(d)' /\ RequestsOK(d)' /\ ReceiptsOK(d)' /\ ApartLooks(d)'
        BY DEF SpentsOK, SpentOK
    <2>1. ~ReceiptBooks /\ ~ReceiptBooks'
        BY <1>1 DEF ReceiptBooks
    <2> QED
        BY <1>1, <2>1, ReceiptSpent DEF ReceiptsOK
<1>6. MatchesOK'
    BY <1>1, <1>4, WaitsForReceipt DEF MatchesOK, MatchOK
<1> QED
    BY <1>3, <1>4, <1>5, <1>6

LEMMA ReceiptApproveKeeps ==
    ASSUME TypeOK, Inv, ReceiptApprove
    PROVE  Inv'
<1> USE DEF Inv
<1>0. PICK p, e : p = receipt.p /\ e = receipt.e
    OBVIOUS
<1>1. /\ receipt.pc = "approve" /\ p \in Payments /\ p \in Targets /\ e \in Events
      /\ receipt'.pc = "patch" /\ receipt'.p = p /\ receipt'.e = e
      /\ status' = [status EXCEPT ![p] = "approved"]
      /\ uses' = [uses EXCEPT ![DepositOf[e]] = @ \cup {p}]
      /\ UNCHANGED <<smsOf, event, worker, topup, met, undone, stopped, raised>>
    BY <1>0, ReceiptApproveMoves, Sorts
<1>2. ReceiptOK'
    BY <1>1 DEF ReceiptOK
<1>3. /\ WorkersOK' /\ TopupOK' /\ MetOK' /\ OwedsOK' /\ KeepsOK'
      /\ \A f \in Events, q \in Payments : Waits(f, q)' => Waits(f, q)
    BY <1>0, <1>1, <1>2, ReceiptBasics
<1>4. SpentsOK'
    <2> SUFFICES ASSUME NEW d \in Deposits, Clean(d)'
                 PROVE  BookedOK(d)' /\ RequestsOK(d)' /\ ReceiptsOK(d)' /\ ApartLooks(d)'
        BY DEF SpentsOK, SpentOK
    <2>1. Clean(d) /\ BookedOK(d) /\ RequestsOK(d) /\ ReceiptsOK(d) /\ ApartLooks(d)'
        BY <1>1, ReceiptSpent
    <2>2. ~ReceiptBooks /\ ReceiptBooks'
        BY <1>1 DEF ReceiptBooks
    <2>3. CASE d = DepositOf[e]
        <3>1. uses'[d] = {p} /\ event[e].status = "no_pending_match"
            BY <1>0, <1>1, <2>1, <2>3, Types DEF ReceiptsOK
        <3>2. topup.pc = "idle" /\ \A w \in Workers : ~Works(w, d)'
            BY <1>1, <2>3, <3>1, ReceiptSpent DEF KeptFor
        <3>3. BookedOK(d)'
            BY <1>1, <2>2, <2>3, <3>1 DEF BookedOK
        <3>4. RequestsOK(d)' /\ ReceiptsOK(d)'
            BY <1>1, <2>3, <3>1, <3>2 DEF RequestsOK, ReceiptsOK
        <3> QED
            BY <2>1, <3>3, <3>4
    <2>4. CASE d # DepositOf[e]
        <3>1. uses'[d] = uses[d]
            BY <1>1, <2>4, Types
        <3>2. BookedOK(d)' /\ RequestsOK(d)'
            BY <1>1, <2>2, <3>1, ReceiptSpent
        <3>3. ReceiptsOK(d)'
            BY <1>1, <2>1, <2>4, <3>1 DEF ReceiptsOK
        <3> QED
            BY <2>1, <3>2, <3>3
    <2> QED
        BY <2>3, <2>4
<1>5. MatchesOK'
    <2> SUFFICES ASSUME NEW f \in Events, NEW q \in Payments PROVE ~(Waits(f, q)' /\ event[f].status = "no_pending_match")
        BY <1>1 DEF MatchesOK, MatchOK
    <2>1. ~Waits(f, p)'
        BY <1>1, Types DEF Waits
    <2> QED
        BY <1>0, <1>3, <2>1, WaitsForReceipt
<1> QED
    BY <1>2, <1>3, <1>4, <1>5

LEMMA ReceiptPatchKeeps ==
    ASSUME TypeOK, Inv, ReceiptPatch
    PROVE  Inv'
<1> USE DEF Inv
<1>0. PICK p, e : p = receipt.p /\ e = receipt.e
    OBVIOUS
<1>1. /\ receipt.pc = "patch" /\ p \in Payments /\ p \in Targets /\ e \in Events
      /\ receipt'.pc = "mark" /\ receipt'.p = p /\ receipt'.e = e
      /\ receipt'.row.status = "approved"
      /\ smsOf' = [smsOf EXCEPT ![p] = e]
      /\ UNCHANGED <<status, event, worker, topup, uses, met, undone, stopped, raised>>
    BY <1>0, ReceiptPatchMoves, Rows, Sorts DEF history
<1>2. ReceiptOK'
    BY <1>1 DEF ReceiptOK
<1>3. /\ WorkersOK' /\ TopupOK' /\ MetOK' /\ OwedsOK' /\ KeepsOK'
      /\ \A f \in Events, q \in Payments : Waits(f, q)' => Waits(f, q)
    BY <1>0, <1>1, <1>2, ReceiptBasics
<1>4. SpentsOK'
    <2> SUFFICES ASSUME NEW d \in Deposits, Clean(d)'
                 PROVE  BookedOK(d)' /\ RequestsOK(d)' /\ ReceiptsOK(d)' /\ ApartLooks(d)'
        BY DEF SpentsOK, SpentOK
    <2>1. ReceiptsOK(d)
        BY <1>1, ReceiptSpent
    <2>2. ReceiptBooks /\ ReceiptBooks'
        BY <1>1 DEF ReceiptBooks
    <2>3. BookedOK(d)' /\ RequestsOK(d)' /\ ApartLooks(d)'
        BY <1>0, <1>1, <2>2, ReceiptSpent
    <2>4. ReceiptsOK(d)'
        BY <1>0, <1>1, <2>1 DEF ReceiptsOK
    <2> QED
        BY <2>3, <2>4
<1>5. MatchesOK'
    BY <1>1, <1>3, WaitsForReceipt DEF MatchesOK, MatchOK
<1> QED
    BY <1>2, <1>3, <1>4, <1>5

\* The use that was about to be written is in the books.
LEMMA ReceiptMarkKeeps ==
    ASSUME TypeOK, Inv, ReceiptMark
    PROVE  Inv'
<1> USE DEF Inv
<1>0. PICK p, e : p = receipt.p /\ e = receipt.e
    OBVIOUS
<1>1. /\ receipt.pc = "mark" /\ p \in Payments /\ p \in Targets /\ e \in Events /\ receipt'.pc = "idle"
      /\ event' = [event EXCEPT ![e] = receipt.row]
      /\ receipt.row.status \in {"approved", "sms_reused"}
      /\ UNCHANGED <<status, smsOf, worker, topup, uses, met, undone, stopped, raised>>
    BY <1>0, ReceiptMarkMoves, Idles, Sorts DEF ReceiptOK, rowVars, history
<1>2. ReceiptOK'
    BY <1>1 DEF ReceiptOK
<1>3. /\ WorkersOK' /\ TopupOK' /\ MetOK' /\ OwedsOK' /\ KeepsOK'
      /\ \A f \in Events, q \in Payments : Waits(f, q)' => Waits(f, q)
    BY <1>0, <1>1, <1>2, ReceiptBasics
<1>4. event'[e] = receipt.row /\ \A f \in Events \ {e} : event'[f] = event[f]
    BY <1>1, Types
<1>5. SpentsOK'
    <2> SUFFICES ASSUME NEW d \in Deposits, Clean(d)'
                 PROVE  BookedOK(d)' /\ RequestsOK(d)' /\ ReceiptsOK(d)' /\ ApartLooks(d)'
        BY DEF SpentsOK, SpentOK
    <2>1. Clean(d) /\ BookedOK(d) /\ RequestsOK(d) /\ ReceiptsOK(d) /\ ApartLooks(d)
        BY <1>1 DEF Clean, Met, SpentsOK, SpentOK
    <2>2. \A w \in Workers : /\ Works(w, d)' <=> Works(w, d)
                             /\ Booking(w)' <=> Booking(w)
                             /\ Deciding(w)' <=> Deciding(w)
                             /\ E(w)' = E(w)
        BY <1>1 DEF Works, Working, Booking, Deciding, At, Of, E
    <2>3. \A w \in Workers : Works(w, d) => E(w) \in Events /\ DepositOf[E(w)] = d
        BY DEF Works, Of, WorkersOK, WorkerOK
    <2>4. CASE d = DepositOf[e]
        <3>1. event[e].status = "no_pending_match"
            BY <1>0, <1>1, <2>1, <2>4 DEF ReceiptsOK
        <3>2. topup.pc = "idle" /\ \A w \in Workers : ~Works(w, d)
            BY <1>1, <2>1, <2>4, <3>1, CleanIsAlone DEF ApartLooks, KeptFor
        <3>3. InBooks(d) \/ ReceiptBooks => InBooks(d)'
            BY <1>1, <1>4, <2>4, <3>1 DEF InBooks, ReceiptBooks
        <3>4. BookedOK(d)'
            BY <1>1, <2>1, <3>2, <3>3 DEF BookedOK, TopupBooks
        <3> QED
            BY <1>1, <2>2, <3>2, <3>4 DEF RequestsOK, ReceiptsOK, ApartLooks
    <2>5. CASE d # DepositOf[e]
        <3>1. \A f \in Events : DepositOf[f] = d => event'[f] = event[f]
            BY <1>4, <2>5
        <3>2. InBooks(d) => InBooks(d)'
            BY <3>1 DEF InBooks
        <3>3. BookedOK(d)'
            BY <1>0, <1>1, <2>1, <2>2, <2>5, <3>2 DEF BookedOK, TopupBooks
        <3>4. RequestsOK(d)'
            BY <1>1, <2>1, <2>2, <2>3, <3>1 DEF RequestsOK
        <3>5. ReceiptsOK(d)' /\ ApartLooks(d)'
            BY <1>1, <2>1, <3>1 DEF ReceiptsOK, ApartLooks, TopupOK
        <3> QED
            BY <3>3, <3>4, <3>5
    <2> QED
        BY <2>4, <2>5
<1>6. MatchesOK'
    <2> SUFFICES ASSUME NEW f \in Events, NEW q \in Payments,
                        event'[f].status = "no_pending_match", Waits(f, q)
                 PROVE  FALSE
        BY <1>3 DEF MatchesOK, MatchOK
    <2>1. event[f].status = "no_pending_match"
        BY <1>1, <1>4
    <2> QED
        BY <1>1, <2>1, WaitsForReceipt
<1> QED
    BY <1>2, <1>3, <1>5, <1>6

LEMMA ReceiptDiesKeeps ==
    ASSUME TypeOK, Inv, ReceiptDies
    PROVE  Inv'
<1> USE DEF Inv
<1>0. PICK p : p = receipt.p
    OBVIOUS
<1>1. /\ receipt.pc # "idle" /\ p \in Payments /\ p \in Targets /\ receipt'.pc = "idle"
      /\ met' = met \cup {<<d, p>> : d \in Deposits}
      /\ UNCHANGED <<status, smsOf, event, worker, topup, uses, undone, stopped, raised>>
    BY <1>0, Idles, Sorts DEF ReceiptDies, ReceiptOK, rowVars
<1>2. ReceiptOK'
    BY <1>1 DEF ReceiptOK
<1>3. /\ WorkersOK' /\ TopupOK' /\ MetOK' /\ OwedsOK' /\ KeepsOK'
      /\ \A f \in Events, q \in Payments : Waits(f, q)' => Waits(f, q)
    BY <1>0, <1>1, <1>2, ReceiptBasics
<1>4. SpentsOK'
    <2>1. \A d \in Deposits : ~Clean(d)'
        BY <1>1 DEF Clean, Met
    <2> QED
        BY <2>1 DEF SpentsOK, SpentOK
<1>5. MatchesOK'
    <2> SUFFICES ASSUME NEW f \in Events, NEW q \in Payments PROVE ~(Waits(f, q)' /\ event[f].status = "no_pending_match")
        BY <1>1 DEF MatchesOK, MatchOK
    <2>1. ~Waits(f, p)'
        BY <1>1, Sorts DEF Waits, Met
    <2> QED
        BY <1>0, <1>3, <2>1, WaitsForReceipt
<1> QED
    BY <1>2, <1>3, <1>4, <1>5

\* What the administrator takes back, nobody is owed; what is made pending
\* again is undone.
LEMMA AdminKeeps ==
    ASSUME TypeOK, Inv, NEW p \in Targets, NEW target \in {"pending", "approved", "rejected"},
           AdminSet(p, target)
    PROVE  Inv'
<1> USE DEF Inv
<1>1. /\ \A w \in Workers :
             /\ worker'[w].pc = worker[w].pc /\ worker'[w].e = E(w) /\ worker'[w].p = worker[w].p
             /\ worker'[w].found = worker[w].found /\ worker'[w].row = worker[w].row
             /\ worker'[w].owed = worker[w].owed \ {p}
      /\ status[p] \notin {"none", target} /\ status' = [status EXCEPT ![p] = target]
      /\ \/ status[p] = "pending" /\ undone' = undone
         \/ status[p] # "pending" /\ undone' = undone \cup {p}
      /\ UNCHANGED <<smsOf, event, receipt, topup, uses, met, stopped, raised>>
    BY AdminMoves
<1>2. \A w \in Workers : /\ Working(w)' <=> Working(w)
                         /\ E(w)' = E(w) /\ Of(w)' = Of(w)
    BY <1>1 DEF Working, At, E, Of
<1>3. WorkersOK' /\ ReceiptOK' /\ TopupOK'
    BY <1>1, <1>2 DEF WorkersOK, WorkerOK, ReceiptOK, TopupOK, At
<1>4. MetOK'
    BY <1>1, <1>2 DEF MetOK, Met
<1>5. SpentsOK'
    <2> SUFFICES ASSUME NEW d \in Deposits, Clean(d)'
                 PROVE  BookedOK(d)' /\ RequestsOK(d)' /\ ReceiptsOK(d)' /\ ApartLooks(d)'
        BY DEF SpentsOK, SpentOK
    <2>1. Clean(d) /\ BookedOK(d) /\ RequestsOK(d) /\ ReceiptsOK(d) /\ ApartLooks(d)
        BY <1>1 DEF Clean, Met, SpentsOK, SpentOK
    <2>2. (InBooks(d)' <=> InBooks(d)) /\ (ReceiptBooks' <=> ReceiptBooks)
          /\ (TopupBooks' <=> TopupBooks)
        BY <1>1 DEF InBooks, ReceiptBooks, TopupBooks
    <2>3. \A w \in Workers : /\ Works(w, d)' <=> Works(w, d)
                             /\ Booking(w)' <=> Booking(w)
                             /\ Deciding(w)' <=> Deciding(w)
        BY <1>1, <1>2 DEF Works, Booking, Deciding, At
    <2>4. BookedOK(d)'
        BY <1>1, <2>1, <2>2, <2>3 DEF BookedOK
    <2>5. RequestsOK(d)'
        BY <1>1, <1>2, <2>1, <2>3 DEF RequestsOK
    <2>6. ReceiptsOK(d)' /\ ApartLooks(d)'
        BY <1>1, <2>1 DEF ReceiptsOK, ApartLooks, KeptFor
    <2> QED
        BY <2>4, <2>5, <2>6
<1>6. OwedsOK'
    <2> SUFFICES ASSUME NEW w \in Workers, Working(w) PROVE OwedOK(w)'
        BY <1>2 DEF OwedsOK
    <2>1. OwedOK(w) /\ worker[w].owed \subseteq Targets
        BY Types, Sorts DEF OwedsOK, WorkerRec
    <2>2. \A q \in worker[w].owed \ {p} : status'[q] = "approved"
        BY <1>1, <2>1, Types DEF OwedOK
    <2> QED
        BY <1>1, <1>2, <2>1, <2>2 DEF OwedOK
<1>7. \A e \in Events, q \in Payments : Waits(e, q)' => Waits(e, q)
    <2> SUFFICES ASSUME NEW e \in Events, NEW q \in Payments, Waits(e, q)' PROVE Waits(e, q)
        OBVIOUS
    <2>1. q # p
        BY <1>1, Types DEF Waits
    <2> QED
        BY <1>1, <2>1, Types, Sorts DEF Waits, Met
<1>8. MatchesOK'
    BY <1>1, <1>7 DEF MatchesOK, MatchOK
<1>9. KeepsOK'
    <2> SUFFICES ASSUME NEW w \in Workers PROVE KeepOK(w)'
        BY DEF KeepsOK
    <2>1. At(w, "scope") \/ At(w, "mark") => E(w) \in Events
        BY DEF At, Working, WorkersOK, WorkerOK
    <2> QED
        BY <1>1, <1>2, <1>7, <2>1 DEF KeepsOK, KeepOK, At
<1> QED
    BY <1>3, <1>4, <1>5, <1>6, <1>8, <1>9

-----------------------------------------------------------------------------
(* The receipt of a representative and the recovery of the top-ups         *)
(* preserve the invariant.                                                 *)

\* What a step on a top-up leaves alone.
LEMMA TopupBasics ==
    ASSUME TypeOK, Inv, TopupOK', UNCHANGED <<worker, receipt, undone, stopped>>, met \subseteq met',
           \A q \in Payments : status'[q] = status[q] /\ smsOf'[q] = smsOf[q],
           \A e \in Events : event'[e] = event[e] \/ event'[e].status # "no_pending_match",
           \A w \in Workers : Working(w) /\ topup'.pc # "idle" => <<Of(w), topup'.p>> \in met'
    PROVE  /\ WorkersOK' /\ ReceiptOK' /\ MetOK' /\ OwedsOK' /\ MatchesOK' /\ KeepsOK'
<1> USE DEF Inv
<1>1. \A d, x : Met(d, x) => Met(d, x)'
    BY DEF Met
<1>2. \A w \in Workers : /\ Working(w)' <=> Working(w)
                         /\ E(w)' = E(w) /\ Of(w)' = Of(w)
    BY DEF Working, At, E, Of
<1>3. WorkersOK' /\ ReceiptOK'
    BY <1>2 DEF WorkersOK, WorkerOK, ReceiptOK, At
<1>4. MetOK'
    BY <1>1, <1>2 DEF MetOK, Met
<1>5. OwedsOK'
    <2> SUFFICES ASSUME NEW w \in Workers, Working(w) PROVE OwedOK(w)'
        BY <1>2 DEF OwedsOK
    <2>1. OwedOK(w) /\ worker[w].owed \subseteq Payments
        BY Types DEF OwedsOK, WorkerRec
    <2> QED
        BY <1>2, <2>1 DEF OwedOK
<1>6. \A e \in Events, q \in Payments : Waits(e, q)' => Waits(e, q)
    BY <1>1 DEF Waits
<1>7. MatchesOK'
    BY <1>6 DEF MatchesOK, MatchOK
<1>8. KeepsOK'
    <2> SUFFICES ASSUME NEW w \in Workers PROVE KeepOK(w)'
        BY DEF KeepsOK
    <2>1. At(w, "scope") \/ At(w, "mark") => E(w) \in Events
        BY DEF At, Working, WorkersOK, WorkerOK
    <2> QED
        BY <1>2, <1>6, <2>1 DEF KeepsOK, KeepOK, At
<1> QED
    BY <1>3, <1>4, <1>5, <1>7, <1>8

\* The requests of a deposit, and the books, while only the top-up moves.
LEMMA TopupSpent ==
    ASSUME TypeOK, Inv, NEW d \in Deposits, UNCHANGED <<worker, event, receipt>>,
           met \subseteq met', raised \subseteq raised', Clean(d)'
    PROVE  /\ Clean(d) /\ BookedOK(d) /\ RequestsOK(d) /\ ReceiptsOK(d)
           /\ topup'.pc = "idle" \/ topup.pc # "idle" => ApartLooks(d)'
           /\ uses'[d] = uses[d] => RequestsOK(d)'
           /\ /\ uses'[d] = uses[d]
              /\ TopupBooks /\ DepositOf[topup.e] = d => TopupBooks' /\ DepositOf[topup'.e] = d
              => BookedOK(d)'
           /\ topup.pc # "idle" => \A w \in Workers : ~Works(w, d) /\ ~Works(w, d)'
           /\ topup.pc # "idle" /\ KeptFor(d) => receipt.pc = "idle"
<1>1. Clean(d) /\ BookedOK(d) /\ RequestsOK(d) /\ ReceiptsOK(d) /\ ApartLooks(d)
    BY DEF Clean, Met, Inv, SpentsOK, SpentOK
<1>2. (InBooks(d)' <=> InBooks(d)) /\ (ReceiptBooks' <=> ReceiptBooks) /\ (KeptFor(d)' <=> KeptFor(d))
    BY DEF InBooks, ReceiptBooks, KeptFor
<1>3. \A w \in Workers : /\ Works(w, d)' <=> Works(w, d)
                         /\ Booking(w)' <=> Booking(w)
                         /\ Deciding(w)' <=> Deciding(w)
                         /\ E(w)' = E(w)
    BY DEF Works, Working, Booking, Deciding, At, Of, E
<1>4. uses'[d] = uses[d] => RequestsOK(d)'
    BY <1>1, <1>3 DEF RequestsOK
<1>5. /\ uses'[d] = uses[d]
      /\ TopupBooks /\ DepositOf[topup.e] = d => TopupBooks' /\ DepositOf[topup'.e] = d
      => BookedOK(d)'
    BY <1>1, <1>2, <1>3 DEF BookedOK
<1>6. /\ topup'.pc = "idle" \/ topup.pc # "idle" => ApartLooks(d)'
      /\ topup.pc # "idle" /\ KeptFor(d) => receipt.pc = "idle"
    BY <1>1, <1>2 DEF ApartLooks
<1>7. topup.pc # "idle" => \A w \in Workers : ~Works(w, d) /\ ~Works(w, d)'
    BY <1>1, <1>3, CleanIsAlone
<1> QED
    BY <1>1, <1>4, <1>5, <1>6, <1>7

LEMMA CreateChargeKeeps ==
    ASSUME TypeOK, Inv, NEW c \in Charges, CreateCharge(c)
    PROVE  Inv'
<1> USE DEF Inv
<1>1. /\ topup.pc = "idle" /\ c \in Targets /\ c \notin Payments
      /\ topup'.pc = "look" /\ topup'.p = c
      /\ status' = [status EXCEPT ![c] = "pending"]
      /\ met' = met \cup {<<DepositOf[f], c>> : f \in Busy} \cup BothLook(receipt, c)
      /\ UNCHANGED <<smsOf, event, worker, receipt, uses, undone, stopped, raised>>
    BY CreateChargeMoves, Sorts
<1>2. TopupOK'
    BY <1>1 DEF TopupOK
<1>3. \A w \in Workers : Working(w) => <<Of(w), c>> \in met'
    BY <1>1 DEF Working, Of, Busy
<1>4. WorkersOK' /\ ReceiptOK' /\ MetOK' /\ OwedsOK' /\ MatchesOK' /\ KeepsOK'
    BY <1>1, <1>2, <1>3, TopupBasics, Types, Sorts
<1>5. SpentsOK'
    <2> SUFFICES ASSUME NEW d \in Deposits, Clean(d)'
                 PROVE  BookedOK(d)' /\ RequestsOK(d)' /\ ReceiptsOK(d)' /\ ApartLooks(d)'
        BY DEF SpentsOK, SpentOK
    <2>1. ~TopupBooks
        BY <1>1 DEF TopupBooks
    <2>2. BookedOK(d)' /\ RequestsOK(d)' /\ ReceiptsOK(d)
        BY <1>1, <2>1, TopupSpent
    <2>3. ReceiptsOK(d)'
        BY <1>1, <2>2 DEF ReceiptsOK
    \* A kept message is on record with both receipts.
    <2>4. ASSUME receipt.pc # "idle", KeptFor(d) PROVE FALSE
        <3>1. PICK f \in Kept : DepositOf[f] = d
            BY <2>4 DEF KeptFor, Kept
        <3>2. <<d, c>> \in BothLook(receipt, c)
            BY <2>4, <3>1 DEF BothLook
        <3> QED
            BY <1>1, <3>2 DEF Clean, Met
    <2>5. ApartLooks(d)'
        BY <1>1, <2>4 DEF ApartLooks, KeptFor
    <2> QED
        BY <2>2, <2>3, <2>5
<1> QED
    BY <1>2, <1>4, <1>5

LEMMA TopupLookKeeps ==
    ASSUME TypeOK, Inv, TopupLook
    PROVE  Inv'
<1> USE DEF Inv
<1>1. /\ topup.pc = "look"
      /\ \/ topup'.pc = "idle"
         \/ /\ topup'.pc = "take" /\ topup'.p = topup.p /\ topup'.e \in Events
            /\ event[topup'.e].status = "no_pending_match" /\ Prior(topup'.e) = {}
      /\ UNCHANGED <<status, smsOf, event, worker, receipt, uses, met, undone, stopped, raised>>
    BY TopupLookMoves, Idles DEF rowVars, history
<1>2. TopupOK'
    BY <1>1 DEF TopupOK
<1>3. \A w \in Workers : Working(w) /\ topup'.pc # "idle" => <<Of(w), topup'.p>> \in met'
    BY <1>1 DEF MetOK, Met
<1>4. WorkersOK' /\ ReceiptOK' /\ MetOK' /\ OwedsOK' /\ MatchesOK' /\ KeepsOK'
    BY <1>1, <1>2, <1>3, TopupBasics
<1>5. SpentsOK'
    <2> SUFFICES ASSUME NEW d \in Deposits, Clean(d)'
                 PROVE  BookedOK(d)' /\ RequestsOK(d)' /\ ReceiptsOK(d)' /\ ApartLooks(d)'
        BY DEF SpentsOK, SpentOK
    <2>1. ~TopupBooks
        BY <1>1 DEF TopupBooks
    <2>2. /\ BookedOK(d) /\ ReceiptsOK(d)
          /\ BookedOK(d)' /\ RequestsOK(d)' /\ ApartLooks(d)'
        BY <1>1, <2>1, TopupSpent
    \* A use would be in the books, under another id.
    <2>3. ASSUME topup'.pc = "take", DepositOf[topup'.e] = d PROVE uses[d] = {}
        <3>1. ~InBooks(d)
            BY <1>1, <2>3 DEF InBooks, Prior
        <3>2. receipt.pc = "idle" /\ \A w \in Workers : ~Works(w, d)
            BY <1>1, <2>3, TopupSpent DEF KeptFor
        <3> QED
            BY <2>1, <2>2, <3>1, <3>2 DEF BookedOK, ReceiptBooks
    <2>4. ReceiptsOK(d)'
        BY <1>1, <2>2, <2>3 DEF ReceiptsOK
    <2> QED
        BY <2>2, <2>4
<1> QED
    BY <1>2, <1>4, <1>5

LEMMA TopupTakeKeeps ==
    ASSUME TypeOK, Inv, TopupTake
    PROVE  Inv'
<1> USE DEF Inv
<1>0. PICK c, e : c = topup.p /\ e = topup.e
    OBVIOUS
<1>1. /\ topup.pc = "take" /\ c \in Charges /\ c \in Targets /\ c \notin Payments /\ e \in Events
      /\ topup'.pc = "mark" /\ topup'.p = c /\ topup'.e = e
      /\ \/ /\ topup'.row.status = "approved"
            /\ status' = [status EXCEPT ![c] = "approved"]
            /\ smsOf' = [smsOf EXCEPT ![c] = e]
            /\ uses' = [uses EXCEPT ![DepositOf[e]] = @ \cup {c}]
         \/ topup'.row.status = "approve_failed" /\ UNCHANGED <<status, smsOf, uses>>
      /\ UNCHANGED <<event, worker, receipt, met, undone, stopped, raised>>
    BY <1>0, TopupTakeMoves, Rows, Sorts DEF rowVars
<1>2. TopupOK'
    BY <1>1 DEF TopupOK
<1>3. \A w \in Workers : Working(w) /\ topup'.pc # "idle" => <<Of(w), topup'.p>> \in met'
    BY <1>0, <1>1 DEF MetOK, Met
<1>4. WorkersOK' /\ ReceiptOK' /\ MetOK' /\ OwedsOK' /\ MatchesOK' /\ KeepsOK'
    <2>1. \A q \in Payments : status'[q] = status[q] /\ smsOf'[q] = smsOf[q]
        BY <1>1, Types, Sorts
    <2> QED
        BY <1>1, <1>2, <1>3, <2>1, TopupBasics
<1>5. SpentsOK'
    <2> SUFFICES ASSUME NEW d \in Deposits, Clean(d)'
                 PROVE  BookedOK(d)' /\ RequestsOK(d)' /\ ReceiptsOK(d)' /\ ApartLooks(d)'
        BY DEF SpentsOK, SpentOK
    <2>1. ~TopupBooks
        BY <1>1 DEF TopupBooks
    <2>2. ReceiptsOK(d) /\ ApartLooks(d)'
        BY <1>1, TopupSpent
    <2>3. CASE d = DepositOf[e]
        <3>1. uses[d] = {} /\ event[e].status = "no_pending_match"
            BY <1>0, <1>1, <2>2, <2>3 DEF ReceiptsOK
        <3>2. receipt.pc = "idle" /\ \A w \in Workers : ~Works(w, d)'
            BY <1>1, <2>3, <3>1, TopupSpent DEF KeptFor
        <3>3. uses'[d] = {} \/ (uses'[d] = {c} /\ TopupBooks')
            BY <1>1, <2>3, <3>1, Types DEF TopupBooks
        <3>4. BookedOK(d)'
            BY <1>1, <2>3, <3>3 DEF BookedOK
        <3>5. RequestsOK(d)' /\ ReceiptsOK(d)'
            BY <1>1, <2>3, <3>1, <3>2 DEF RequestsOK, ReceiptsOK
        <3> QED
            BY <2>2, <3>4, <3>5
    <2>4. CASE d # DepositOf[e]
        <3>1. uses'[d] = uses[d]
            BY <1>1, <2>4, Types
        <3>2. BookedOK(d)' /\ RequestsOK(d)'
            BY <1>1, <2>1, <3>1, TopupSpent
        <3>3. ReceiptsOK(d)'
            BY <1>1, <2>2, <2>4, <3>1 DEF ReceiptsOK
        <3> QED
            BY <2>2, <3>2, <3>3
    <2> QED
        BY <2>3, <2>4
<1> QED
    BY <1>2, <1>4, <1>5

\* The use that was about to be written is in the books.
LEMMA TopupMarkKeeps ==
    ASSUME TypeOK, Inv, TopupMark
    PROVE  Inv'
<1> USE DEF Inv
<1>0. PICK e : e = topup.e
    OBVIOUS
<1>1. /\ topup.pc = "mark" /\ e \in Events /\ topup'.pc = "idle"
      /\ event' = [event EXCEPT ![e] = topup.row]
      /\ topup.row.status \in {"approved", "approve_failed"}
      /\ UNCHANGED <<status, smsOf, worker, receipt, uses, met, undone, stopped, raised>>
    BY <1>0, TopupMarkMoves, Idles DEF rowVars, history
<1>2. TopupOK'
    BY <1>1 DEF TopupOK
<1>3. event'[e] = topup.row /\ \A f \in Events \ {e} : event'[f] = event[f]
    BY <1>1, Types
<1>4. WorkersOK' /\ ReceiptOK' /\ MetOK' /\ OwedsOK' /\ MatchesOK' /\ KeepsOK'
    BY <1>1, <1>2, <1>3, TopupBasics
<1>5. SpentsOK'
    <2> SUFFICES ASSUME NEW d \in Deposits, Clean(d)'
                 PROVE  BookedOK(d)' /\ RequestsOK(d)' /\ ReceiptsOK(d)' /\ ApartLooks(d)'
        BY DEF SpentsOK, SpentOK
    <2>1. Clean(d) /\ BookedOK(d) /\ RequestsOK(d) /\ ReceiptsOK(d) /\ ApartLooks(d)
        BY <1>1 DEF Clean, Met, SpentsOK, SpentOK
    <2>2. \A w \in Workers : /\ Works(w, d)' <=> Works(w, d)
                             /\ E(w)' = E(w)
        BY <1>1 DEF Works, Working, At, Of, E
    <2>3. \A w \in Workers : ~Works(w, d) /\ ~Works(w, d)'
        BY <1>1, <2>1, <2>2, CleanIsAlone
    <2>4. RequestsOK(d)' /\ ApartLooks(d)'
        BY <1>1, <2>3 DEF RequestsOK, ApartLooks
    <2>5. CASE d = DepositOf[e]
        <3>1. event[e].status = "no_pending_match"
            BY <1>0, <1>1, <2>1, <2>5 DEF ReceiptsOK
        <3>2. receipt.pc = "idle"
            BY <1>1, <2>1, <2>5, <3>1 DEF ApartLooks, KeptFor
        <3>3. InBooks(d) \/ TopupBooks => InBooks(d)'
            BY <1>1, <1>3, <2>5, <3>1 DEF InBooks, TopupBooks
        <3>4. BookedOK(d)'
            BY <1>1, <2>1, <2>3, <3>2, <3>3 DEF BookedOK, ReceiptBooks
        <3> QED
            BY <1>1, <2>4, <3>2, <3>4 DEF ReceiptsOK
    <2>6. CASE d # DepositOf[e]
        <3>1. \A f \in Events : DepositOf[f] = d => event'[f] = event[f]
            BY <1>3, <2>6
        <3>2. InBooks(d) => InBooks(d)'
            BY <3>1 DEF InBooks
        <3>3. BookedOK(d)'
            BY <1>0, <1>1, <2>1, <2>3, <2>6, <3>2 DEF BookedOK, ReceiptBooks
        <3>4. receipt.todo \subseteq Events
            BY Types DEF ReceiptRec
        <3>5. ReceiptsOK(d)'
            BY <1>1, <2>1, <3>1, <3>4 DEF ReceiptsOK, ReceiptOK
        <3> QED
            BY <2>4, <3>3, <3>5
    <2> QED
        BY <2>5, <2>6
<1> QED
    BY <1>2, <1>4, <1>5

\* A message that was taken, and is not in the books, is on record.
LEMMA TopupStopsKeeps ==
    ASSUME TypeOK, Inv, TopupStops
    PROVE  Inv'
<1> USE DEF Inv
<1>0. PICK c, e : c = topup.p /\ e = topup.e
    OBVIOUS
<1>1. /\ topup.pc # "idle" /\ topup'.pc = "idle" /\ c \in Charges /\ c \in Targets /\ c \notin Payments
      /\ \/ topup.pc = "look" /\ UNCHANGED <<rowVars, uses, raised>>
         \/ topup.pc = "take" /\ Left(c, e)
         \/ /\ topup.pc = "mark" /\ UNCHANGED <<rowVars, uses>> /\ raised \subseteq raised'
            /\ topup.row.status = "approved" => DepositOf[e] \in raised'
      /\ UNCHANGED <<event, worker, receipt, met, undone, stopped>>
    BY <1>0, TopupStopsMoves, Idles, Sorts
<1>2. /\ raised \subseteq raised'
      /\ \/ status' = status \/ status' = [status EXCEPT ![c] = "processing"]
         \/ status' = [status EXCEPT ![c] = "approved"]
      /\ smsOf' = smsOf \/ smsOf' = [smsOf EXCEPT ![c] = e]
      /\ \/ uses' = uses
         \/ DepositOf[e] \in raised' /\ uses' = [uses EXCEPT ![DepositOf[e]] = @ \cup {c}]
    BY <1>1 DEF Left, rowVars
<1>3. TopupOK'
    BY <1>1 DEF TopupOK
<1>4. WorkersOK' /\ ReceiptOK' /\ MetOK' /\ OwedsOK' /\ MatchesOK' /\ KeepsOK'
    <2>1. \A q \in Payments : status'[q] = status[q] /\ smsOf'[q] = smsOf[q]
        BY <1>1, <1>2, Types, Sorts
    <2> QED
        BY <1>1, <1>3, <2>1, TopupBasics
<1>5. SpentsOK'
    <2> SUFFICES ASSUME NEW d \in Deposits, Clean(d)'
                 PROVE  BookedOK(d)' /\ RequestsOK(d)' /\ ReceiptsOK(d)' /\ ApartLooks(d)'
        BY DEF SpentsOK, SpentOK
    <2>1. d \notin raised'
        BY DEF Clean
    <2>2. uses'[d] = uses[d]
        BY <1>2, <2>1, Types
    <2>3. ~(TopupBooks /\ DepositOf[topup.e] = d)
        BY <1>0, <1>1, <2>1 DEF TopupBooks
    <2>4. ReceiptsOK(d) /\ BookedOK(d)' /\ RequestsOK(d)' /\ ApartLooks(d)'
        BY <1>1, <1>2, <2>2, <2>3, TopupSpent
    <2>5. ReceiptsOK(d)'
        BY <1>1, <2>2, <2>4 DEF ReceiptsOK
    <2> QED
        BY <2>4, <2>5
<1> QED
    BY <1>3, <1>4, <1>5

LEMMA RecoverKeeps ==
    ASSUME TypeOK, Inv, NEW c \in Charges, Recover(c)
    PROVE  Inv'
<1> USE DEF Inv
<1>1. /\ status' = [status EXCEPT ![c] = "approved"] /\ c \in Targets /\ c \notin Payments
      /\ UNCHANGED <<smsOf, event, worker, receipt, topup, uses, met, undone, stopped, raised>>
    BY RecoverMoves, Sorts DEF history
<1>2. TopupOK'
    BY <1>1 DEF TopupOK
<1>3. WorkersOK' /\ ReceiptOK' /\ MetOK' /\ OwedsOK' /\ MatchesOK' /\ KeepsOK'
    <2>1. \A q \in Payments : status'[q] = status[q]
        BY <1>1, Types, Sorts
    <2>2. \A w \in Workers : Working(w) /\ topup.pc # "idle" => <<Of(w), topup.p>> \in met
        BY DEF MetOK, Met
    <2> QED
        BY <1>1, <1>2, <2>1, <2>2, TopupBasics
<1>4. SpentsOK'
    <2> SUFFICES ASSUME NEW d \in Deposits, Clean(d)'
                 PROVE  BookedOK(d)' /\ RequestsOK(d)' /\ ReceiptsOK(d)' /\ ApartLooks(d)'
        BY DEF SpentsOK, SpentOK
    <2>1. TopupBooks' <=> TopupBooks
        BY <1>1 DEF TopupBooks
    <2>2. ReceiptsOK(d) /\ BookedOK(d)' /\ RequestsOK(d)' /\ ApartLooks(d)'
        BY <1>1, <2>1, TopupSpent DEF Clean
    <2>3. ReceiptsOK(d)'
        BY <1>1, <2>2 DEF ReceiptsOK
    <2> QED
        BY <2>2, <2>3
<1> QED
    BY <1>2, <1>3, <1>4

-----------------------------------------------------------------------------
(* The invariant, and what it gives.                                       *)

LEMMA InvInit == Init => TypeOK /\ Inv
<1> SUFFICES ASSUME Init PROVE TypeOK /\ Inv
    OBVIOUS
<1>1. \A w \in Workers : worker[w] = Idle
    BY DEF Init
<1>2. /\ receipt = NoReceipt /\ topup = NoTopup
      /\ event = [e \in Events |-> NoRow] /\ uses = [d \in Deposits |-> {}]
    BY DEF Init
<1>3. TypeOK
    <2>1. /\ status \in [Targets -> PaymentStatuses] /\ smsOf \in [Targets -> Events \cup {Nothing}]
          /\ event \in [Events -> EventRows] /\ uses \in [Deposits -> SUBSET Targets]
        BY <1>2, Rows DEF Init, PaymentStatuses
    <2>2. worker \in [Workers -> WorkerRec] /\ receipt \in ReceiptRec /\ topup \in TopupRec
        BY Idles DEF Init
    <2>3. /\ sends \in 0..MaxSends /\ upsets \in 0..MaxUpsets
          /\ met \in SUBSET (Deposits \X (Deposits \cup Targets))
          /\ undone \in SUBSET Targets /\ stopped \in SUBSET Payments
          /\ raised \in SUBSET Deposits /\ unwritten \in SUBSET Payments
        BY Sorts DEF Init
    <2> QED
        BY <2>1, <2>2, <2>3 DEF TypeOK, WorkerRec, ReceiptRec, ReceiptPCs, TopupRec
<1>4. \A w \in Workers : worker[w].pc = "idle" /\ ~Working(w)
    BY <1>1, Idles DEF Working, At
<1>5. WorkersOK /\ MetOK /\ OwedsOK /\ KeepsOK
    <2>1. WorkersOK
        BY <1>4 DEF WorkersOK, WorkerOK, At
    <2>2. MetOK /\ OwedsOK
        BY <1>4 DEF MetOK, OwedsOK
    <2>3. KeepsOK
        BY <1>4 DEF KeepsOK, KeepOK, At
    <2> QED
        BY <2>1, <2>2, <2>3
<1>6. ReceiptOK /\ receipt.pc = "idle" /\ TopupOK /\ topup.pc = "idle"
    BY <1>2, Idles DEF ReceiptOK, TopupOK
<1>7. SpentsOK
    <2> SUFFICES ASSUME NEW d \in Deposits
                 PROVE  BookedOK(d) /\ RequestsOK(d) /\ ReceiptsOK(d) /\ ApartLooks(d)
        BY DEF SpentsOK, SpentOK
    <2>1. BookedOK(d)
        BY <1>2 DEF BookedOK
    <2> QED
        BY <1>4, <1>6, <2>1 DEF RequestsOK, ReceiptsOK, ApartLooks, Works
<1>8. MatchesOK
    BY <1>2, Rows DEF MatchesOK, MatchOK
<1> QED
    BY <1>3, <1>5, <1>6, <1>7, <1>8 DEF Inv

LEMMA InvStep == TypeOK /\ Inv /\ [Next]_vars => (TypeOK /\ Inv)'
<1> SUFFICES ASSUME TypeOK, Inv, [Next]_vars PROVE TypeOK' /\ Inv'
    OBVIOUS
<1>1. TypeOK'
    BY TypeStep DEF Inv
<1>2. ASSUME NEW w \in Workers, NEW e \in Events, Send(w, e) PROVE Inv'
    BY <1>2, SendKeeps
<1>3. ASSUME NEW w \in Workers, RequestStep(w) PROVE Inv'
    BY <1>3, LooksKeep, WritesKeep, MarkKeeps DEF RequestStep, Look
<1>4. ASSUME NEW w \in Workers, Dies(w) PROVE Inv'
    BY <1>4, DiesKeeps
<1>5. ASSUME NEW p \in Payments, CreatePayment(p) PROVE Inv'
    BY <1>5, CreateKeeps
<1>6. CASE ReceiptStep
    BY <1>1, <1>6, ReceiptLookKeeps, ReceiptConsiderKeeps, ReceiptFindsNoneKeeps, ReceiptApproveKeeps,
       ReceiptPatchKeeps, ReceiptMarkKeeps DEF ReceiptStep
<1>7. CASE ReceiptDies
    BY <1>1, <1>7, ReceiptDiesKeeps
<1>8. ASSUME NEW p \in Targets, NEW target \in {"pending", "approved", "rejected"}, AdminSet(p, target)
      PROVE  Inv'
    BY <1>8, AdminKeeps
<1>10. ASSUME NEW c \in Charges, CreateCharge(c) PROVE Inv'
    BY <1>10, CreateChargeKeeps
<1>11. ASSUME NEW c \in Charges, Recover(c) PROVE Inv'
    BY <1>11, RecoverKeeps
<1>12. CASE TopupLook \/ TopupTake \/ TopupMark \/ TopupStops
    BY <1>1, <1>12, TopupLookKeeps, TopupTakeKeeps, TopupMarkKeeps, TopupStopsKeeps
<1>9. CASE vars' = vars
    <2> USE <1>9 DEF vars, rowVars, history, Inv
    <2>1. WorkersOK' /\ ReceiptOK' /\ TopupOK' /\ MetOK'
        BY DEF WorkersOK, WorkerOK, ReceiptOK, TopupOK, MetOK, Met, Working, Of, E, At
    <2>2. SpentsOK'
        <3> SUFFICES ASSUME NEW d \in Deposits, Clean(d)'
                     PROVE  BookedOK(d)' /\ RequestsOK(d)' /\ ReceiptsOK(d)' /\ ApartLooks(d)'
            BY DEF SpentsOK, SpentOK
        <3>1. Clean(d) /\ BookedOK(d) /\ RequestsOK(d) /\ ReceiptsOK(d) /\ ApartLooks(d)
            BY DEF SpentsOK, SpentOK, Clean, Met
        <3>2. BookedOK(d)'
            BY <3>1 DEF BookedOK, InBooks, Works, Booking, ReceiptBooks, TopupBooks, Working, Of, E, At
        <3>3. RequestsOK(d)' /\ ReceiptsOK(d)' /\ ApartLooks(d)'
            BY <3>1 DEF RequestsOK, ReceiptsOK, ApartLooks, KeptFor, Works, Deciding, Working, Of, E, At
        <3> QED
            BY <3>2, <3>3
    <2>3. OwedsOK' /\ MatchesOK' /\ KeepsOK'
        BY DEF OwedsOK, OwedOK, MatchesOK, MatchOK, KeepsOK, KeepOK, Waits, Met, Working, E, At
    <2> QED
        BY <1>1, <2>1, <2>2, <2>3
<1> QED
    BY <1>1, <1>2, <1>3, <1>4, <1>5, <1>6, <1>7, <1>8, <1>9, <1>10, <1>11, <1>12, Zenon DEF Next

\* The invariant holds in every state, whatever requests, receipts and buttons
\* cross.
THEOREM SmsInvariant == Spec => [](TypeOK /\ Inv)
BY InvInit, InvStep, PTL DEF Spec

\* The webhook's state is well formed however requests, receipts, deaths and
\* the administrator interleave: a matched event has a target, a request its
\* event and its payment.
THEOREM SmsTypeCorrect == Spec => []TypeOK
BY SmsInvariant, PTL

\* A payment approved by hand before its message came is not passed over for
\* one that is pending: when a request has approved a pending payment, every
\* payment it owed the message has one.
THEOREM SmsManualKeepsItsMessage == Spec => []ManualKeepsItsMessage
<1>1. TypeOK /\ Inv => ManualKeepsItsMessage
    BY DEF Inv, OwedsOK, OwedOK, Past, ManualKeepsItsMessage, Working, At
<1> QED
    BY <1>1, SmsInvariant, PTL

\* At rest no pending payment stands beside a kept message that fits it, other
\* than where the two were worked on together, or a second copy stopped the
\* receipt: what a request keeps, and the receipt it crosses, do not both miss.
THEOREM SmsNoLostMatch == Spec => []NoLostMatch
<1>1. TypeOK /\ Inv => NoLostMatch
    BY DEF Inv, MatchesOK, MatchOK, Waits, NoLostMatch
<1> QED
    BY <1>1, SmsInvariant, PTL

LEMMA AtMostOne ==
    ASSUME NEW S, \A p, q \in S : p = q
    PROVE  ~(Cardinality(S) > 1)
<1>1. CASE S = {}
    BY <1>1, FS_EmptySet
<1>2. CASE S # {}
    <2>1. PICK p \in S : S = {p}
        BY <1>2
    <2>2. Cardinality(S) = 1
        BY <2>1, FS_Singleton
    <2> QED
        BY <2>2
<1> QED
    BY <1>1, <1>2

\* A deposit pays for one thing, under whatever event ids and however often
\* its message is sent, where its requests did not overlap and were not cut
\* short.
THEOREM SmsSpentOnce == Spec => []SpentOnce
<1>1. TypeOK /\ Inv => SpentOnce
    <2> SUFFICES ASSUME TypeOK, Inv, NEW d \in Deposits, Cardinality(uses[d]) > 1
                 PROVE  ~Clean(d)
        BY DEF SpentOnce, Clean
    <2>1. Clean(d) => \A p, q \in uses[d] : p = q
        BY DEF Inv, SpentsOK, SpentOK, BookedOK
    <2> QED
        BY <2>1, AtMostOne
<1> QED
    BY <1>1, SmsInvariant, PTL

-----------------------------------------------------------------------------
(***************************************************************************)
(* What a payment is taken for: two deposits without a reference number    *)
(* count as the same transfer.                                             *)
(***************************************************************************)
\* Only the administrator takes the approval of a payment back; a message is
\* never taken from a payment, only replaced.
Forward ==
    /\ met \subseteq met' /\ undone \subseteq undone' /\ unwritten \subseteq unwritten'
    /\ \A q \in Targets :
          /\ q \in Payments /\ status[q] = "approved" => status'[q] = "approved" \/ q \in undone'
          /\ status[q] # "none" => status'[q] # "none"
          /\ q \in undone' => q \in undone \/ status[q] # "none"
          /\ smsOf[q] # Nothing => smsOf'[q] # Nothing

LEMMA StepForward ==
    ASSUME TypeOK, Inv, [Next]_vars
    PROVE  Forward
<1> USE DEF Inv
<1>t. status \in [Targets -> PaymentStatuses] /\ smsOf \in [Targets -> Events \cup {Nothing}]
    BY Types
<1>1. met \subseteq met' /\ undone \subseteq undone' /\ unwritten \subseteq unwritten'
    BY MetWriters, UndoneWriters, RaisedWriters
<1>2. \A q \in Targets : smsOf[q] # Nothing => smsOf'[q] # Nothing
    <2>1. \A w \in Workers : Working(w) => E(w) # Nothing
        BY Sorts DEF WorkersOK, WorkerOK
    <2>2. receipt.pc = "patch" => receipt.e # Nothing
        BY Sorts DEF ReceiptOK
    <2>3. topup.pc = "take" => topup.e # Nothing
        BY Sorts DEF TopupOK
    <2> QED
        BY <1>t, <2>1, <2>2, <2>3, SmsWriters
<1>3. \A q \in Targets : /\ q \in Payments /\ status[q] = "approved" => status'[q] = "approved" \/ q \in undone'
                         /\ status[q] # "none" => status'[q] # "none"
    <2>1. ASSUME NEW p \in Targets, NEW s \in {"pending", "approved", "rejected"}, AdminSet(p, s)
          PROVE  \A q \in Targets : /\ status[q] = "approved" => status'[q] = "approved" \/ q \in undone'
                                    /\ status[q] # "none" => status'[q] # "none"
        BY <1>t, <2>1, AdminMoves
    <2>2. /\ \A w \in Workers : worker[w].pc \in {"late", "charge"} => worker[w].p \notin Payments
          /\ topup.pc = "take" => topup.p \notin Payments
        BY Sorts DEF WorkersOK, WorkerOK, TopupOK
    <2>3. ASSUME NEW c, c \notin Payments, status' = [status EXCEPT ![c] = "processing"]
          PROVE  \A q \in Targets : /\ q \in Payments => status'[q] = status[q]
                                    /\ status[q] # "none" => status'[q] # "none"
        BY <1>t, <2>3
    <2>4. CASE \/ status' = status
               \/ \E p : status' = [status EXCEPT ![p] = "approved"]
               \/ \E p \in Targets : status[p] = "none" /\ status' = [status EXCEPT ![p] = "pending"]
        BY <1>t, <2>4
    <2> QED
        BY <2>1, <2>2, <2>3, <2>4, StatusChanges
<1>4. \A q \in Targets : q \in undone' => q \in undone \/ status[q] # "none"
    <2>1. \/ undone' = undone
          \/ \E p \in Targets : status[p] # "none" /\ undone' = undone \cup {p}
        BY UndoneChanges
    <2> QED
        BY <2>1
<1> QED
    BY <1>1, <1>2, <1>3, <1>4 DEF Forward

\* A step of the request w, on whose deposit the targets P are taken, and no
\* other target is.
TakesOnly(w, P) ==
    \A d \in Deposits, q \in Targets : Holds(d, q)' => Holds(d, q) \/ (d = Of(w) /\ q \in P)

\* They are approved, and no other deposit holds them without excuse.
MayTake(w, P) ==
    \A q \in P : /\ q \in Payments => status'[q] = "approved" \/ q \in undone'
                 /\ \A c \in Deposits \ {Of(w)} : Holds(c, q) => Excused(c, Of(w), q)

\* What the request aims at after its step, no other deposit held before it.
MayAim(w) ==
    /\ AttachOK(w)'
    /\ \A p \in Payments : Aims(w, p)' =>
           \A d, c \in Deposits : d # c /\ c = Of(w)' /\ Holds(d, p) => Excused(d, c, p)'

\* What was written stays written.
LEMMA WrittenForward ==
    ASSUME Forward, NEW q \in Targets, Written(q)
    PROVE  Written(q)'
BY DEF Forward, Written

LEMMA ExcusedForward ==
    ASSUME Forward, NEW d, NEW c, NEW p, Excused(d, c, p)
    PROVE  Excused(d, c, p)' /\ Excused(c, d, p)' /\ Excused(c, d, p)
BY DEF Forward, Excused, Met

LEMMA RequestClaims ==
    ASSUME TypeOK, Inv, Claims, Forward, WorkersOK', NEW w \in Workers, NEW P \in SUBSET Targets,
           P # {} => Working(w) /\ worker'[w].e = E(w),
           \A v \in Workers \ {w} : worker'[v] = worker[v],
           UNCHANGED <<receipt, topup>>,
           TakesOnly(w, P), MayTake(w, P), MayAim(w),
           \A e \in Events, q \in Targets : SaysApproved(event'[e], q) => Written(q)',
           \A q \in Targets : worker'[w].pc = "mark" /\ SaysApproved(worker'[w].row, q) => Written(q)'
    PROVE  Claims'
<1> USE DEF Claims, Inv
<1>1. \A v \in Workers \ {w} : /\ Working(v)' <=> Working(v)
                               /\ E(v)' = E(v) /\ Of(v)' = Of(v)
                               /\ \A p : Aims(v, p)' <=> Aims(v, p)
                               /\ At(v, "mark")' <=> At(v, "mark")
                               /\ At(v, "attach")' <=> At(v, "attach")
    BY DEF Working, At, E, Of, Aims
<1>2. Working(w) => Of(w) \in Deposits
    BY Sorts DEF WorkersOK, WorkerOK, Of
<1>3. HeldsOK'
    <2> SUFFICES ASSUME NEW q \in Targets PROVE HeldOK(q)'
        BY DEF HeldsOK
    <2>0. HeldOK(q)
        BY DEF HeldsOK
    <2>1. ASSUME q \in Payments, NEW d \in Deposits, Holds(d, q)' PROVE status'[q] = "approved" \/ q \in undone'
        <3>1. CASE Holds(d, q)
            BY <2>0, <2>1, <3>1 DEF HeldOK, Forward
        <3>2. CASE q \in P
            BY <2>1, <3>2 DEF MayTake
        <3> QED
            BY <2>1, <3>1, <3>2 DEF TakesOnly
    <2>2. q \in undone' => status'[q] # "none"
        BY <2>0 DEF HeldOK, Forward
    <2>3. ASSUME NEW v \in Workers, At(v, "mark")', SaysApproved(worker'[v].row, q) PROVE Written(q)'
        BY <1>1, <2>0, <2>3, WrittenForward DEF HeldOK, At
    <2>4. receipt'.pc = "mark" /\ SaysApproved(receipt'.row, q) => smsOf'[q] # Nothing /\ receipt'.p = q
        BY <2>0 DEF HeldOK, Forward
    <2>5. TakenByTopup(q)' => smsOf'[q] # Nothing
        BY <2>0 DEF HeldOK, Forward, TakenByTopup
    <2> QED
        BY <2>1, <2>2, <2>3, <2>4, <2>5 DEF HeldOK
<1>4. AimsOK'
    <2> SUFFICES ASSUME NEW v \in Workers, Working(v)' PROVE AimOK(v)' /\ AttachOK(v)'
        BY DEF AimsOK
    <2>1. CASE v = w
        <3>0. PICK c : c = Of(w)'
            OBVIOUS
        <3>1. c \in Deposits
            BY <2>1, <3>0, Sorts DEF WorkersOK, WorkerOK, Of
        <3>2. ASSUME NEW p \in Payments, Aims(w, p)', NEW d \in Deposits \ {c}, Holds(d, p)'
              PROVE  Excused(d, c, p)'
            <4>1. CASE Holds(d, p)
                BY <3>0, <3>1, <3>2, <4>1 DEF MayAim
            <4>2. CASE d = Of(w) /\ p \in P
                BY <3>0, <3>2, <4>2 DEF Of, E
            <4> QED
                BY <3>2, <4>1, <4>2, Sorts DEF TakesOnly
        <3> QED
            BY <2>1, <3>0, <3>2 DEF AimOK, MayAim
    <2>2. CASE v # w
        <3>1. Working(v) /\ AimOK(v) /\ AttachOK(v)
            BY <1>1, <2>2 DEF AimsOK
        <3>2. AttachOK(v)'
            <4>1. At(v, "attach") => worker[v].p \in Targets /\ worker[v].p \in Payments
                BY Sorts DEF WorkersOK, WorkerOK, At
            <4> QED
                BY <1>1, <2>2, <3>1, <4>1 DEF AttachOK, Forward
        <3>c. PICK c : c = Of(v) /\ c = Of(v)'
            BY <1>1, <2>2
        <3>3. ASSUME NEW p \in Payments, Aims(v, p), NEW d \in Deposits \ {c}, Holds(d, p)'
              PROVE  Excused(d, c, p)'
            <4>1. CASE Holds(d, p)
                <5>1. Excused(d, c, p)
                    BY <3>1, <3>c, <3>3, <4>1 DEF AimOK
                <5> QED
                    BY <5>1, ExcusedForward
            <4>2. CASE d = Of(w) /\ p \in P
                <5>1. Met(d, c) /\ Met(c, d)
                    BY <2>2, <3>1, <3>c, <4>2 DEF MetOK
                <5>2. Excused(d, c, p)
                    BY <5>1 DEF Excused
                <5> QED
                    BY <5>2, ExcusedForward
            <4> QED
                BY <3>3, <4>1, <4>2, Sorts DEF TakesOnly
        <3> QED
            BY <1>1, <2>2, <3>2, <3>c, <3>3 DEF AimOK
    <2> QED
        BY <2>1, <2>2
<1>5. ReceiptAimOK'
    <2> SUFFICES ASSUME receipt.pc # "idle", NEW d \in Deposits, Holds(d, receipt.p)'
                 PROVE  \/ Met(d, receipt.p)' \/ receipt.p \in undone'
                        \/ receipt.pc \in {"patch", "mark"} /\ DepositOf[receipt.e] = d
        BY DEF ReceiptAimOK
    <2>0. receipt.p \in Payments /\ receipt.p \in Targets
        BY Sorts DEF ReceiptOK
    <2>1. CASE Holds(d, receipt.p)
        BY <2>1 DEF ReceiptAimOK, Forward, Met
    <2>2. CASE d = Of(w) /\ receipt.p \in P
        BY <2>2 DEF MetOK, Forward, Met
    <2> QED
        BY <2>0, <2>1, <2>2 DEF TakesOnly
<1>6. ApartOK'
    <2> SUFFICES ASSUME NEW p \in Targets, NEW d \in Deposits, NEW c \in Deposits,
                        d # c, Holds(d, p)', Holds(c, p)'
                 PROVE  Excused(d, c, p)'
        BY DEF ApartOK
    <2>1. CASE Holds(d, p) /\ Holds(c, p)
        <3>1. Excused(d, c, p)
            BY <2>1 DEF ApartOK
        <3> QED
            BY <3>1, ExcusedForward
    <2>2. CASE Holds(d, p) /\ c = Of(w) /\ p \in P
        <3>1. Excused(d, c, p)
            BY <2>2 DEF MayTake
        <3> QED
            BY <3>1, ExcusedForward
    <2>3. CASE Holds(c, p) /\ d = Of(w) /\ p \in P
        <3>1. Excused(c, d, p)
            BY <2>3 DEF MayTake
        <3> QED
            BY <3>1, ExcusedForward
    <2> QED
        BY <2>1, <2>2, <2>3 DEF TakesOnly
<1> QED
    BY <1>3, <1>4, <1>5, <1>6

\* A request that stays on its event, and may write it to the targets P.
LEMMA StaysTakes ==
    ASSUME TypeOK, NEW w \in Workers, Working(w), Stays(w), NEW P \in SUBSET Targets,
           UNCHANGED <<event, receipt, topup>>,
           \A q \in Targets : smsOf'[q] = smsOf[q] \/ (q \in P /\ smsOf'[q] = E(w)),
           \A q \in Targets \ P : TakenBy(w, q)' => TakenBy(w, q) \/ Carries(Of(w), q)
    PROVE  TakesOnly(w, P)
<1>1. /\ \A v \in Workers \ {w} : worker'[v] = worker[v]
      /\ worker'[w].e = E(w)
    BY DEF Stays
<1>2. \A v \in Workers : \A d : Works(v, d)' => Works(v, d)
    BY <1>1 DEF Works, Working, At, E, Of
<1> SUFFICES ASSUME NEW d \in Deposits, NEW q \in Targets, Holds(d, q)', ~(d = Of(w) /\ q \in P)
             PROVE  Holds(d, q)
    BY DEF TakesOnly
<1>3. CASE BookedFor(d, q)'
    BY <1>3 DEF BookedFor, Holds
<1>4. ASSUME NEW v \in Workers, Works(v, d)', TakenBy(v, q)' PROVE Holds(d, q)
    <2>1. CASE v = w
        BY <1>2, <1>4, <2>1 DEF Holds, Works
    <2>2. CASE v # w
        BY <1>1, <1>2, <1>4, <2>2 DEF Holds, TakenBy, At
    <2> QED
        BY <2>1, <2>2
<1>5. CASE TakenByReceipt(q)' /\ DepositOf[receipt'.e] = d
    BY <1>5 DEF TakenByReceipt, Holds
<1>6. CASE Carries(d, q)'
    BY <1>6 DEF Carries, Holds, Of
<1>7. CASE TakenByTopup(q)' /\ DepositOf[topup'.e] = d
    BY <1>7 DEF TakenByTopup, Holds
<1> QED
    BY <1>3, <1>4, <1>5, <1>6, <1>7 DEF Holds

\* A target whose message is not written is held by those only who are about to
\* write it.
LEMMA HeldByPatch ==
    ASSUME Inv, Claims, NEW d \in Deposits, NEW q \in Targets, Holds(d, q), ~Written(q)
    PROVE  \/ \E v \in Workers : Works(v, d) /\ At(v, "patch") /\ worker[v].p = q
           \/ receipt.pc = "patch" /\ receipt.p = q
BY DEF Claims, HeldsOK, HeldOK, Holds, BookedFor, TakenBy, TakenByReceipt, TakenByTopup, Carries, Written

\* Who reaches for a target without a message met those who hold it.
LEMMA ReachForNew ==
    ASSUME Inv, Claims, NEW w \in Workers, Working(w), ~At(w, "patch"),
           NEW c \in Deposits, c = Of(w), NEW d \in Deposits \ {c}, NEW q \in Targets,
           Holds(d, q), smsOf[q] = Nothing
    PROVE  Excused(d, c, q)
<1>1. CASE \E v \in Workers : Works(v, d) /\ At(v, "patch") /\ worker[v].p = q
    BY <1>1 DEF Inv, MetOK, Works, Excused
<1>2. CASE receipt.pc = "patch" /\ receipt.p = q
    BY <1>2 DEF Inv, MetOK, Excused
<1>3. CASE q \in unwritten
    BY <1>3 DEF Excused
<1> QED
    BY <1>1, <1>2, <1>3, HeldByPatch DEF Written

LEMMA LooksClaim ==
    ASSUME TypeOK, Inv, Claims, Forward, WorkersOK', NEW w \in Workers, Look(w)
    PROVE  Claims'
<1> USE DEF Inv, Claims
<1>1. /\ Working(w) /\ Stays(w) /\ UNCHANGED restVars
      /\ \/ worker'[w].pc \in {"prior", "manual", "charges", "late", "pending", "charge"}
         \/ At(w, "approved") /\ worker'[w].pc = "mark" /\ \E p \in ApprovedBy(E(w)) : worker'[w].row = Row("approved", p)
         \/ worker'[w].pc = "mark" /\ worker'[w].row.status # "approved"
         \/ At(w, "manual") /\ worker'[w].pc = "attach" /\ worker'[w].p \in Manual(E(w))
         \/ worker'[w].pc = "scope" /\ worker'[w].found = Pending(E(w), Payments)
         \/ At(w, "scope") /\ worker'[w].pc = "approve" /\ worker'[w].p \in worker[w].found
    <2>1. CASE LookApproved(w)
        BY <2>1, LookApprovedMoves DEF At, Working
    <2>2. CASE LookPrior(w)
        BY <2>2, LookPriorMoves DEF At, Working
    <2>3. CASE LookManual(w)
        BY <2>3, LookManualMoves DEF At, Working
    <2>4. CASE LookCharges(w)
        BY <2>4, LookChargesMoves, Rows DEF At, Working
    <2>5. CASE LookPending(w)
        BY <2>5, LookPendingMoves DEF At, Working
    <2>6. CASE LookScope(w)
        BY <2>6, LookScopeMoves, Rows DEF At, Working
    <2> QED
        BY <2>1, <2>2, <2>3, <2>4, <2>5, <2>6 DEF Look
<1>2. /\ \A v \in Workers \ {w} : worker'[v] = worker[v]
      /\ worker'[w].e = E(w)
      /\ UNCHANGED <<status, smsOf, event, receipt, topup, met, undone, unwritten>>
    BY <1>1 DEF Stays, restVars, rowVars, history
<1>3. E(w) \in Events /\ Of(w) \in Deposits /\ Of(w)' = Of(w)
    BY <1>1, <1>2, Sorts DEF WorkersOK, WorkerOK, Of, E
<1>4. \A e \in Events, q \in Targets : SaysApproved(event'[e], q) => Written(q)'
    BY <1>2, WrittenForward DEF HeldsOK, HeldOK
\* Found approved: the payment carries a message of the deposit, or one that
\* has no reference number either.
<1>5. ASSUME NEW p \in ApprovedBy(E(w)), worker'[w].pc = "mark", worker'[w].row = Row("approved", p)
      PROVE  Claims'
    <2>1. /\ p \in Payments /\ p \in Targets /\ status[p] = "approved" /\ smsOf[p] # Nothing
          /\ Carries(Of(w), p) \/ Of(w) \in NoReference
        BY Sorts DEF ApprovedBy, SameTransfer, Carries, Of
    <2>2. \A q \in Targets : SaysApproved(worker'[w].row, q) => q = p
        BY <1>5, Rows DEF SaysApproved
    <2>3. TakesOnly(w, {p})
        <3>1. \A q \in Targets \ {p} : ~TakenBy(w, q)'
            BY <1>5, <2>2 DEF TakenBy, At
        <3> QED
            BY <1>1, <1>2, <2>1, <3>1, StaysTakes
    <2>4. MayTake(w, {p})
        <3>1. ASSUME NEW c \in Deposits \ {Of(w)}, Holds(c, p) PROVE Excused(c, Of(w), p)
            <4>1. CASE Carries(Of(w), p)
                <5>1. Holds(Of(w), p)
                    BY <4>1 DEF Holds
                <5> QED
                    BY <1>3, <2>1, <3>1, <5>1 DEF ApartOK
            <4>2. CASE Of(w) \in NoReference
                BY <4>2 DEF Excused
            <4> QED
                BY <2>1, <4>1, <4>2
        <3> QED
            BY <1>2, <2>1, <3>1 DEF MayTake
    <2>5. MayAim(w)
        BY <1>5 DEF MayAim, AttachOK, Aims, At
    <2>6. \A q \in Targets : SaysApproved(worker'[w].row, q) => Written(q)'
        BY <1>2, <2>1, <2>2 DEF Written
    <2> QED
        BY <1>1, <1>2, <1>4, <2>1, <2>3, <2>4, <2>5, <2>6, RequestClaims
<1>6. CASE ~\E p \in ApprovedBy(E(w)) : worker'[w].pc = "mark" /\ worker'[w].row = Row("approved", p)
    <2>0. \A q \in Targets : ~(worker'[w].pc = "mark" /\ SaysApproved(worker'[w].row, q))
        BY <1>1, <1>6 DEF SaysApproved
    <2>1. TakesOnly(w, {})
        <3>1. \A q \in Targets : ~TakenBy(w, q)'
            BY <1>1, <2>0 DEF TakenBy, At
        <3> QED
            BY <1>1, <1>2, <3>1, StaysTakes
    <2>2. MayAim(w)
        <3>1. AttachOK(w)'
            BY <1>1, <1>2 DEF AttachOK, At, Manual
        <3> SUFFICES ASSUME NEW p \in Payments, Aims(w, p)', NEW d \in Deposits, NEW c \in Deposits,
                            d # c, c = Of(w), Holds(d, p)
                     PROVE  Excused(d, c, p)
            <4>1. \A d, c, p : Excused(d, c, p)' <=> Excused(d, c, p)
                BY <1>2 DEF Excused, Met
            <4> QED
                BY <1>3, <3>1, <4>1 DEF MayAim
        <3>2. p \in Targets /\ HeldOK(p)
            BY Sorts DEF HeldsOK
        <3>3. CASE At(w, "manual") /\ worker'[w].pc = "attach" /\ worker'[w].p \in Manual(E(w))
            <4>1. smsOf[p] = Nothing /\ ~At(w, "patch")
                BY <3>3 DEF Aims, At, Manual
            <4> QED
                BY <1>1, <3>2, <4>1, ReachForNew
        <3>4. CASE worker'[w].pc = "scope" /\ worker'[w].found = Pending(E(w), Payments)
            <4>1. status[p] # "approved"
                BY <3>4 DEF Aims, At, Pending
            <4> QED
                BY <3>2, <4>1 DEF HeldOK, Excused
        <3>5. CASE At(w, "scope") /\ worker'[w].pc = "approve" /\ worker'[w].p \in worker[w].found
            <4>1. Aims(w, p)
                BY <3>5 DEF Aims, At
            <4> QED
                BY <1>1, <4>1 DEF AimsOK, AimOK
        <3> QED
            BY <1>1, <3>3, <3>4, <3>5 DEF Aims, At
    <2> QED
        BY <1>1, <1>2, <1>4, <2>0, <2>1, <2>2, RequestClaims DEF MayTake
<1> QED
    BY <1>5, <1>6

\* The approval of p by the request, or its message written to p.
LEMMA WriteClaims ==
    ASSUME TypeOK, Inv, Claims, Forward, WorkersOK', NEW w \in Workers, Working(w), Stays(w),
           NEW p \in Targets, UNCHANGED <<event, receipt, topup>>,
           smsOf' = smsOf \/ smsOf' = [smsOf EXCEPT ![p] = E(w)],
           \/ worker'[w].pc = "mark" /\ worker'[w].row = Row("approved", p) /\ Written(p)'
           \/ worker'[w].pc = "patch" /\ worker'[w].p = p,
           MayTake(w, {p})
    PROVE  Claims'
<1> USE DEF Inv, Claims
<1>1. /\ \A v \in Workers \ {w} : worker'[v] = worker[v]
      /\ worker'[w].e = E(w)
    BY DEF Stays
<1>2. \A q \in Targets : TakenBy(w, q)' => q = p
    BY Rows DEF TakenBy, SaysApproved, At
<1>3. \A q \in Targets : smsOf'[q] = smsOf[q] \/ (q \in {p} /\ smsOf'[q] = E(w))
    BY Types
<1>4. TakesOnly(w, {p})
    BY <1>2, <1>3, StaysTakes
<1>5. MayAim(w)
    BY DEF MayAim, AttachOK, Aims, At
<1>6. \A e \in Events, q \in Targets : SaysApproved(event'[e], q) => Written(q)'
    BY WrittenForward DEF HeldsOK, HeldOK
<1>7. \A q \in Targets : worker'[w].pc = "mark" /\ SaysApproved(worker'[w].row, q) => Written(q)'
    BY Rows DEF SaysApproved
<1> QED
    BY <1>1, <1>4, <1>5, <1>6, <1>7, RequestClaims

\* A call of a request takes a top-up that has no other message.
LEMMA ChargeClaims ==
    ASSUME TypeOK, Inv, Claims, Forward, WorkersOK', NEW w \in Workers, Working(w), ~At(w, "patch"), Stays(w),
           NEW p \in Charges, UNCHANGED <<event, receipt, topup>>,
           smsOf[p] \in {Nothing, E(w)}, smsOf' = [smsOf EXCEPT ![p] = E(w)],
           \/ worker'[w].pc = "mark"
              /\ (worker'[w].row = Row("approved", p) \/ worker'[w].row.status # "approved")
           \/ worker'[w].pc = "pending"
    PROVE  Claims'
<1> USE DEF Inv, Claims
<1>1. /\ \A v \in Workers \ {w} : worker'[v] = worker[v]
      /\ worker'[w].e = E(w)
    BY DEF Stays
<1>2. /\ p \in Targets /\ p \notin Payments /\ E(w) # Nothing /\ Of(w) \in Deposits
    BY Sorts DEF WorkersOK, WorkerOK, Of
<1>3. \A q \in Targets : TakenBy(w, q)' => q = p
    BY Rows DEF TakenBy, SaysApproved, At
<1>4. TakesOnly(w, {p})
    <2>1. \A q \in Targets : smsOf'[q] = smsOf[q] \/ (q \in {p} /\ smsOf'[q] = E(w))
        BY Types
    <2> QED
        BY <1>2, <1>3, <2>1, StaysTakes
<1>5. MayTake(w, {p})
    <2>1. ASSUME NEW d \in Deposits \ {Of(w)}, Holds(d, p) PROVE Excused(d, Of(w), p)
        <3>1. CASE smsOf[p] = Nothing
            BY <1>2, <2>1, <3>1, ReachForNew
        <3>2. CASE smsOf[p] = E(w)
            <4>1. Holds(Of(w), p)
                BY <1>2, <3>2 DEF Holds, Carries, Of
            <4> QED
                BY <1>2, <2>1, <4>1 DEF ApartOK
        <3> QED
            BY <3>1, <3>2
    <2> QED
        BY <1>2, <2>1 DEF MayTake
<1>6. MayAim(w)
    BY DEF MayAim, AttachOK, Aims, At
<1>7. \A e \in Events, q \in Targets : SaysApproved(event'[e], q) => Written(q)'
    BY WrittenForward DEF HeldsOK, HeldOK
<1>8. \A q \in Targets : worker'[w].pc = "mark" /\ SaysApproved(worker'[w].row, q) => Written(q)'
    <2>1. Written(p)'
        BY <1>2, Types DEF Written
    <2> QED
        BY <2>1, Rows DEF SaysApproved
<1> QED
    BY <1>1, <1>2, <1>4, <1>5, <1>6, <1>7, <1>8, RequestClaims

\* A request that writes nothing of its own, or ends.
LEMMA EndClaims ==
    ASSUME TypeOK, Inv, Claims, Forward, WorkersOK', NEW w \in Workers, UNCHANGED <<receipt, topup>>,
           \A v \in Workers \ {w} : worker'[v] = worker[v],
           \/ worker'[w].pc \in {"idle", "approved", "pending"}
           \/ worker'[w].pc = "mark" /\ worker'[w].row.status # "approved",
           UNCHANGED smsOf,
           \A e \in Events, q \in Targets : SaysApproved(event'[e], q) =>
               \/ SaysApproved(event[e], q)
               \/ Working(w) /\ E(w) = e /\ TakenBy(w, q) /\ At(w, "mark")
    PROVE  Claims'
<1> USE DEF Inv, Claims
<1>1. \A v \in Workers \ {w} : \A d : Works(v, d)' => Works(v, d)
    BY DEF Works, Working, At, E, Of
<1>2. TakesOnly(w, {})
    <2> SUFFICES ASSUME NEW d \in Deposits, NEW q \in Targets, Holds(d, q)' PROVE Holds(d, q)
        BY DEF TakesOnly
    <2>1. CASE BookedFor(d, q)'
        <3>1. PICK e \in Events : DepositOf[e] = d /\ SaysApproved(event'[e], q)
            BY <2>1 DEF BookedFor
        <3> QED
            BY <3>1 DEF Holds, BookedFor, Works, Of
    <2>2. ASSUME NEW v \in Workers, Works(v, d)', TakenBy(v, q)' PROVE Holds(d, q)
        <3>1. v # w
            BY <2>2 DEF TakenBy, At, SaysApproved
        <3> QED
            BY <1>1, <2>2, <3>1 DEF Holds, TakenBy, At
    <2>3. CASE TakenByReceipt(q)' /\ DepositOf[receipt'.e] = d
        BY <2>3 DEF TakenByReceipt, Holds
    <2>4. CASE Carries(d, q)'
        BY <2>4 DEF Carries, Holds
    <2>5. CASE TakenByTopup(q)' /\ DepositOf[topup'.e] = d
        BY <2>5 DEF TakenByTopup, Holds
    <2> QED
        BY <2>1, <2>2, <2>3, <2>4, <2>5 DEF Holds
<1>3. MayAim(w)
    BY DEF MayAim, AttachOK, Aims, At
<1>4. \A e \in Events, q \in Targets : SaysApproved(event'[e], q) => Written(q)'
    BY WrittenForward DEF HeldsOK, HeldOK, TakenBy, At
<1>5. \A q \in Targets : worker'[w].pc = "mark" /\ SaysApproved(worker'[w].row, q) => Written(q)'
    BY DEF SaysApproved
<1> QED
    BY <1>2, <1>3, <1>4, <1>5, RequestClaims DEF MayTake

LEMMA RequestsClaim ==
    ASSUME TypeOK, Inv, Claims, Forward, WorkersOK', NEW w \in Workers, RequestStep(w)
    PROVE  Claims'
<1> USE DEF Inv, Claims
<1>0. WorkersOK
    OBVIOUS
<1>1. PICK p : p = worker[w].p
    OBVIOUS
<1>2. Working(w) => Of(w) \in Deposits /\ E(w) # Nothing
    BY Sorts DEF WorkersOK, WorkerOK, Of
<1>3. CASE Attach(w)
    <2>1. /\ Stays(w) /\ At(w, "attach") /\ p \in Payments /\ p \in Targets
          /\ worker'[w].pc = "mark" /\ worker'[w].row = Row("approved", p)
          /\ smsOf' = [smsOf EXCEPT ![p] = E(w)] /\ UNCHANGED <<status, event, receipt, topup>>
        BY <1>0, <1>1, <1>3, AttachMoves, Sorts DEF others
    <2>2. Working(w) /\ Aims(w, p) /\ Written(p)'
        BY <1>1, <1>2, <2>1, Types DEF At, Working, Aims, Written
    <2>3. MayTake(w, {p})
        BY <1>1, <2>1, <2>2 DEF AimsOK, AimOK, AttachOK, MayTake, Forward
    <2> QED
        BY <2>1, <2>2, <2>3, WriteClaims
<1>4. CASE ApproveCharge(w)
    <2>1. /\ Stays(w) /\ worker[w].pc \in {"late", "charge"} /\ p \in Charges /\ worker'[w].pc = "mark"
          /\ \/ /\ worker'[w].row = Row("approved", p) /\ smsOf[p] \in {Nothing, E(w)}
                /\ smsOf' = [smsOf EXCEPT ![p] = E(w)]
             \/ worker'[w].row.status = "approve_failed" /\ UNCHANGED smsOf
          /\ UNCHANGED <<event, receipt, topup>>
        BY <1>0, <1>1, <1>4, ApproveChargeMoves, Rows DEF rowVars, others
    <2>2. Working(w) /\ ~At(w, "patch")
        BY <2>1 DEF At, Working
    <2>3. CASE worker'[w].row = Row("approved", p) /\ smsOf[p] \in {Nothing, E(w)}
               /\ smsOf' = [smsOf EXCEPT ![p] = E(w)]
        BY <2>1, <2>2, <2>3, ChargeClaims
    <2>4. CASE worker'[w].row.status = "approve_failed" /\ UNCHANGED smsOf
        BY <2>1, <2>4, EndClaims DEF Stays
    <2> QED
        BY <2>1, <2>3, <2>4
<1>8. CASE ChargeRaises(w)
    <2>1. /\ Stays(w) /\ worker[w].pc \in {"late", "charge"} /\ p \in Charges
          /\ \/ worker'[w].pc = "pending"
             \/ worker'[w].pc = "mark" /\ worker'[w].row.status = "approve_failed"
          /\ smsOf' = smsOf \/ (smsOf[p] \in {Nothing, E(w)} /\ smsOf' = [smsOf EXCEPT ![p] = E(w)])
          /\ UNCHANGED <<event, receipt, topup>>
        BY <1>0, <1>1, <1>8, ChargeRaisesMoves, Rows DEF Left, rowVars, others
    <2>2. Working(w) /\ ~At(w, "patch")
        BY <2>1 DEF At, Working
    <2>3. CASE smsOf[p] \in {Nothing, E(w)} /\ smsOf' = [smsOf EXCEPT ![p] = E(w)]
        BY <2>1, <2>2, <2>3, ChargeClaims
    <2>4. CASE smsOf' = smsOf
        BY <2>1, <2>4, EndClaims DEF Stays
    <2> QED
        BY <2>1, <2>3, <2>4
<1>9. CASE AttachSwallowed(w)
    <2>1. /\ Stays(w) /\ At(w, "attach") /\ p \in Payments /\ p \in Targets
          /\ worker'[w].pc = "mark" /\ worker'[w].row = Row("approved", p)
          /\ p \in unwritten' /\ UNCHANGED <<status, smsOf, event, receipt, topup>>
        BY <1>0, <1>1, <1>9, AttachSwallowedMoves, Sorts DEF others, rowVars
    <2>2. Working(w) /\ Aims(w, p) /\ Written(p)'
        BY <1>1, <2>1 DEF At, Working, Aims, Written
    <2>3. MayTake(w, {p})
        BY <1>1, <2>1, <2>2 DEF AimsOK, AimOK, AttachOK, MayTake, Forward
    <2> QED
        BY <2>1, <2>2, <2>3, WriteClaims
<1>5. CASE Approve(w)
    <2>1. /\ Stays(w) /\ At(w, "approve") /\ p \in Payments /\ p \in Targets
          /\ worker'[w].pc = "patch" /\ worker'[w].p = p
          /\ status' = [status EXCEPT ![p] = "approved"] /\ UNCHANGED <<smsOf, event, receipt, topup>>
        BY <1>0, <1>1, <1>5, ApproveMoves, Sorts DEF others
    <2>2. Working(w) /\ Aims(w, p) /\ status'[p] = "approved"
        BY <1>1, <2>1, Types DEF At, Working, Aims
    <2>3. MayTake(w, {p})
        BY <2>1, <2>2 DEF AimsOK, AimOK, MayTake
    <2> QED
        BY <2>1, <2>2, <2>3, WriteClaims
<1>6. CASE Patch(w)
    <2>1. /\ Stays(w) /\ At(w, "patch") /\ p \in Payments /\ p \in Targets
          /\ worker'[w].pc = "mark" /\ worker'[w].row = Row("approved", p)
          /\ smsOf' = [smsOf EXCEPT ![p] = E(w)] /\ UNCHANGED <<status, event, receipt, topup>>
        BY <1>0, <1>1, <1>6, PatchMoves, Sorts DEF others
    <2>2. Working(w) /\ Written(p)'
        BY <1>2, <2>1, Types DEF At, Working, Written
    <2>3. Holds(Of(w), p)
        BY <1>1, <2>1, <2>2 DEF Holds, Works, TakenBy
    <2>4. status[p] = "approved" \/ p \in undone
        BY <1>2, <2>1, <2>2, <2>3 DEF HeldsOK, HeldOK
    <2>5. MayTake(w, {p})
        BY <1>2, <2>1, <2>2, <2>3, <2>4 DEF ApartOK, MayTake, Forward
    <2> QED
        BY <2>1, <2>2, <2>5, WriteClaims
<1>7. CASE Mark(w)
    <2>1. /\ At(w, "mark") /\ E(w) \in Events
          /\ worker'[w].pc = "idle" /\ \A v \in Workers \ {w} : worker'[v] = worker[v]
          /\ event' = [event EXCEPT ![E(w)] = worker[w].row]
          /\ UNCHANGED <<smsOf, receipt, topup>>
        BY <1>0, <1>7, MarkMoves DEF rowVars
    <2>2. \A e \in Events, q \in Targets : SaysApproved(event'[e], q) =>
              \/ SaysApproved(event[e], q)
              \/ Working(w) /\ E(w) = e /\ TakenBy(w, q) /\ At(w, "mark")
        BY <2>1, Types DEF Working, At, TakenBy
    <2> QED
        BY <2>1, <2>2, EndClaims
<1> QED
    BY <1>3, <1>4, <1>5, <1>6, <1>7, <1>8, <1>9, LooksClaim DEF RequestStep, Look

LEMMA BeginAndDieClaim ==
    ASSUME TypeOK, Inv, Claims, Forward, WorkersOK', NEW w \in Workers,
           Dies(w) \/ \E e \in Events : Send(w, e)
    PROVE  Claims'
<1>1. CASE Dies(w)
    BY <1>1, DiesMoves, EndClaims DEF Inv, rowVars
<1>2. ASSUME NEW e \in Events, Send(w, e) PROVE Claims'
    <2>1. /\ worker'[w].pc = "approved" /\ \A v \in Workers \ {w} : worker'[v] = worker[v]
          /\ event' = [event EXCEPT ![e] = Row("received", Nothing)] \/ event' = event
          /\ UNCHANGED <<smsOf, receipt, topup>>
        BY <1>2, SendMoves DEF rowVars
    <2>2. \A f \in Events, q \in Targets : SaysApproved(event'[f], q) => SaysApproved(event[f], q)
        BY <2>1, Types, Rows DEF SaysApproved
    <2> QED
        BY <2>1, <2>2, EndClaims
<1> QED
    BY <1>1, <1>2

\* The receipt approves its payment for the deposit of the message it found.
ReceiptTakes ==
    /\ receipt.pc = "approve" /\ receipt'.pc = "patch"
    /\ receipt'.p = receipt.p /\ receipt'.e = receipt.e
    /\ status'[receipt.p] = "approved"

SameRequests ==
    \A w \in Workers : /\ worker'[w].pc = worker[w].pc /\ worker'[w].e = E(w)
                       /\ worker'[w].p = worker[w].p /\ worker'[w].found = worker[w].found
                       /\ worker'[w].row = worker[w].row

\* A step of the receipt or of the administrator.
LEMMA ReceiptClaims ==
    ASSUME TypeOK, Inv, Claims, Forward, SameRequests, topup' = topup,
           \A q \in Targets : \/ smsOf'[q] = smsOf[q]
                              \/ receipt.pc = "patch" /\ q = receipt.p /\ smsOf'[q] = receipt.e,
           \A e \in Events, q \in Targets : SaysApproved(event'[e], q) =>
               \/ SaysApproved(event[e], q)
               \/ receipt.pc = "mark" /\ e = receipt.e /\ SaysApproved(receipt.row, q),
           \A q \in Targets : TakenByReceipt(q)' =>
               \/ ReceiptTakes /\ q = receipt.p
               \/ TakenByReceipt(q) /\ receipt'.e = receipt.e,
           \/ receipt'.pc = "idle"
           \/ /\ receipt.pc # "idle" /\ receipt'.p = receipt.p
              /\ receipt.pc \in {"patch", "mark"} =>
                     receipt'.pc \in {"patch", "mark"} /\ receipt'.e = receipt.e
           \/ /\ receipt'.pc = "look" /\ receipt'.p \in Targets
              /\ \A d \in Deposits : ~Holds(d, receipt'.p),
           \A q \in Targets : receipt'.pc = "mark" /\ SaysApproved(receipt'.row, q)
               => smsOf'[q] # Nothing /\ receipt'.p = q
    PROVE  Claims'
<1> USE DEF Claims, Inv
<1>0. receipt.pc # "idle" => receipt.p \in Payments /\ receipt.p \in Targets
    BY Sorts DEF ReceiptOK
<1>1. \A w \in Workers : /\ Working(w)' <=> Working(w)
                         /\ E(w)' = E(w) /\ Of(w)' = Of(w)
                         /\ \A d : Works(w, d)' <=> Works(w, d)
                         /\ \A p : Aims(w, p)' <=> Aims(w, p)
                         /\ \A p : TakenBy(w, p)' <=> TakenBy(w, p)
    BY DEF SameRequests, Working, At, E, Of, Works, Aims, TakenBy
<1>2. ASSUME NEW d \in Deposits, NEW q \in Targets, Holds(d, q)'
      PROVE  Holds(d, q) \/ (ReceiptTakes /\ q = receipt.p /\ d = DepositOf[receipt.e])
    <2>1. CASE BookedFor(d, q)'
        BY <2>1 DEF BookedFor, Holds, TakenByReceipt
    <2>2. CASE \E w \in Workers : Works(w, d)' /\ TakenBy(w, q)'
        BY <1>1, <2>2 DEF Holds
    <2>3. CASE TakenByReceipt(q)' /\ DepositOf[receipt'.e] = d
        BY <2>3 DEF Holds, ReceiptTakes
    <2>4. CASE Carries(d, q)'
        BY <2>4 DEF Carries, Holds, TakenByReceipt
    <2>5. CASE TakenByTopup(q)' /\ DepositOf[topup'.e] = d
        BY <2>5 DEF TakenByTopup, Holds
    <2> QED
        BY <1>2, <2>1, <2>2, <2>3, <2>4, <2>5 DEF Holds
<1>3. HeldsOK'
    <2> SUFFICES ASSUME NEW q \in Targets PROVE HeldOK(q)'
        BY DEF HeldsOK
    <2>0. HeldOK(q)
        BY DEF HeldsOK
    <2>1. ASSUME q \in Payments, NEW d \in Deposits, Holds(d, q)' PROVE status'[q] = "approved" \/ q \in undone'
        <3>1. CASE Holds(d, q)
            BY <2>0, <2>1, <3>1 DEF HeldOK, Forward
        <3>2. CASE ReceiptTakes /\ q = receipt.p
            BY <3>2 DEF ReceiptTakes
        <3> QED
            BY <1>2, <2>1, <3>1, <3>2
    <2>2. q \in undone' => status'[q] # "none"
        BY <2>0 DEF HeldOK, Forward
    <2>3. \A e \in Events : SaysApproved(event'[e], q) => Written(q)'
        BY <2>0, WrittenForward DEF HeldOK, Written
    <2>4. \A w \in Workers : At(w, "mark")' /\ SaysApproved(worker'[w].row, q) => Written(q)'
        BY <2>0, WrittenForward DEF HeldOK, SameRequests, At
    <2>5. TakenByTopup(q)' => smsOf'[q] # Nothing
        BY <2>0 DEF HeldOK, Forward, TakenByTopup
    <2> QED
        BY <2>1, <2>2, <2>3, <2>4, <2>5 DEF HeldOK
<1>4. AimsOK'
    <2> SUFFICES ASSUME NEW w \in Workers, Working(w) PROVE AimOK(w)' /\ AttachOK(w)'
        BY <1>1 DEF AimsOK
    <2>1. AimOK(w) /\ AttachOK(w)
        BY DEF AimsOK
    <2>2. AttachOK(w)'
        <3>1. At(w, "attach") => worker[w].p \in Targets /\ worker[w].p \in Payments
            BY Sorts DEF WorkersOK, WorkerOK, At
        <3> QED
            BY <2>1, <3>1 DEF AttachOK, Forward, SameRequests, At
    <2>3. PICK c : c = Of(w) /\ c = Of(w)'
        BY <1>1
    <2>4. ASSUME NEW p \in Payments, Aims(w, p), NEW d \in Deposits \ {c}, Holds(d, p)'
          PROVE  Excused(d, c, p)'
        <3>1. CASE Holds(d, p)
            <4>1. Excused(d, c, p)
                BY <2>1, <2>3, <2>4, <3>1 DEF AimOK
            <4> QED
                BY <4>1, ExcusedForward
        <3>2. CASE ReceiptTakes /\ p = receipt.p
            <4>1. Excused(d, c, p)
                BY <2>3, <3>2 DEF MetOK, ReceiptTakes, Excused
            <4> QED
                BY <4>1, ExcusedForward
        <3> QED
            BY <1>2, <2>4, <3>1, <3>2, Sorts
    <2> QED
        BY <1>1, <2>2, <2>3, <2>4 DEF AimOK
<1>5. ReceiptAimOK'
    <2> SUFFICES ASSUME receipt'.pc # "idle", NEW d \in Deposits, Holds(d, receipt.p)',
                        receipt.pc # "idle", receipt'.p = receipt.p
                 PROVE  \/ Met(d, receipt.p)' \/ receipt.p \in undone'
                        \/ receipt'.pc \in {"patch", "mark"} /\ DepositOf[receipt'.e] = d
        <3>1. CASE receipt.pc # "idle" /\ receipt'.p = receipt.p
            BY <3>1 DEF ReceiptAimOK
        <3>2. CASE receipt'.pc = "look" /\ receipt'.p \in Targets /\ \A d \in Deposits : ~Holds(d, receipt'.p)
            <4>1. \A d \in Deposits, q \in Targets : q = receipt'.p => ~Holds(d, q)'
                BY <1>2, <3>2 DEF ReceiptTakes
            <4> QED
                BY <3>2, <4>1 DEF ReceiptAimOK
        <3> QED
            BY <3>1, <3>2 DEF ReceiptAimOK
    <2>1. CASE Holds(d, receipt.p)
        BY <2>1 DEF ReceiptAimOK, Forward, Met
    <2>2. CASE ReceiptTakes /\ d = DepositOf[receipt.e]
        BY <2>2 DEF ReceiptTakes
    <2> QED
        BY <1>0, <1>2, <2>1, <2>2
<1>6. ApartOK'
    <2> SUFFICES ASSUME NEW p \in Targets, NEW d \in Deposits, NEW c \in Deposits,
                        d # c, Holds(d, p)', Holds(c, p)'
                 PROVE  Excused(d, c, p)'
        BY DEF ApartOK
    <2>1. CASE Holds(d, p) /\ Holds(c, p)
        <3>1. Excused(d, c, p)
            BY <2>1 DEF ApartOK
        <3> QED
            BY <3>1, ExcusedForward
    <2>2. CASE ReceiptTakes /\ p = receipt.p /\ (Holds(d, p) \/ Holds(c, p))
        <3>1. Excused(d, c, p)
            BY <2>2 DEF ReceiptTakes, ReceiptAimOK, Excused
        <3> QED
            BY <3>1, ExcusedForward
    <2> QED
        BY <1>2, <2>1, <2>2
<1> QED
    BY <1>3, <1>4, <1>5, <1>6

\* A step that leaves the books and the targets' messages alone, and takes
\* nothing.
LEMMA QuietClaims ==
    ASSUME TypeOK, Inv, Claims, Forward, SameRequests, UNCHANGED <<smsOf, event, topup>>,
           \/ receipt'.pc = "idle" \/ receipt' = receipt
           \/ /\ receipt.pc \in {"look", "each"} /\ receipt'.p = receipt.p
              /\ \/ receipt'.pc \in {"each", "approve"}
                 \/ receipt'.pc = "mark" /\ receipt'.row.status # "approved"
           \/ /\ receipt'.pc = "look" /\ receipt'.p \in Targets
              /\ \A d \in Deposits : ~Holds(d, receipt'.p)
    PROVE  Claims'
<1> USE DEF Claims
<1>1. \A q \in Targets : TakenByReceipt(q)' => TakenByReceipt(q) /\ receipt'.e = receipt.e
    BY DEF TakenByReceipt, SaysApproved
<1>2. \A q \in Targets : receipt'.pc = "mark" /\ SaysApproved(receipt'.row, q)
          => smsOf'[q] # Nothing /\ receipt'.p = q
    BY DEF SaysApproved, HeldsOK, HeldOK
<1>3. \/ receipt'.pc = "idle"
      \/ /\ receipt.pc # "idle" /\ receipt'.p = receipt.p
         /\ receipt.pc \in {"patch", "mark"} =>
                receipt'.pc \in {"patch", "mark"} /\ receipt'.e = receipt.e
      \/ /\ receipt'.pc = "look" /\ receipt'.p \in Targets
         /\ \A d \in Deposits : ~Holds(d, receipt'.p)
    OBVIOUS
<1> QED
    BY <1>1, <1>2, <1>3, ReceiptClaims

LEMMA SameAsBefore ==
    ASSUME UNCHANGED worker
    PROVE  SameRequests
BY DEF SameRequests, E

LEMMA ReceiptStepsClaim ==
    ASSUME TypeOK, Inv, Claims, Forward, ReceiptStep
    PROVE  Claims'
<1> USE DEF Inv, Claims
<1>0. PICK p, e : p = receipt.p /\ e = receipt.e
    OBVIOUS
<1>1. CASE ReceiptLook
    BY <1>1, ReceiptLookMoves, SameAsBefore, QuietClaims DEF rowVars
<1>2. ASSUME NEW f \in Events, ReceiptConsider(f) PROVE Claims'
    BY <1>2, ReceiptConsiderMoves, SameAsBefore, QuietClaims DEF rowVars
<1>3. CASE ReceiptFindsNone
    BY <1>3, Idles, SameAsBefore, QuietClaims DEF ReceiptFindsNone, receiptOnly, rowVars
<1>4. CASE ReceiptApprove
    <2>1. /\ receipt.pc = "approve" /\ p \in Targets
          /\ receipt'.pc = "patch" /\ receipt'.p = p /\ receipt'.e = e
          /\ status' = [status EXCEPT ![p] = "approved"]
          /\ UNCHANGED <<smsOf, event, worker, topup>>
        BY <1>0, <1>4, ReceiptApproveMoves, Sorts
    <2>2. ReceiptTakes
        BY <1>0, <2>1, Types DEF ReceiptTakes
    <2>3. \A q \in Targets : TakenByReceipt(q)' => ReceiptTakes /\ q = receipt.p
        BY <1>0, <2>1, <2>2 DEF TakenByReceipt
    <2> QED
        BY <1>0, <2>1, <2>3, SameAsBefore, ReceiptClaims
<1>5. CASE ReceiptPatch
    <2>1. /\ receipt.pc = "patch" /\ p \in Targets /\ e \in Events /\ e # Nothing
          /\ receipt'.pc = "mark" /\ receipt'.p = p /\ receipt'.e = e
          /\ receipt'.row = Row("approved", p)
          /\ smsOf' = [smsOf EXCEPT ![p] = e]
          /\ UNCHANGED <<event, worker, topup>>
        BY <1>0, <1>5, ReceiptPatchMoves, Sorts
    <2>2. \A q \in Targets : SaysApproved(receipt'.row, q) => q = p
        BY <2>1, Rows DEF SaysApproved
    <2>3. \A q \in Targets : TakenByReceipt(q)' => TakenByReceipt(q) /\ receipt'.e = receipt.e
        BY <1>0, <2>1, <2>2 DEF TakenByReceipt
    <2>4. \A q \in Targets : smsOf'[q] = smsOf[q] \/ (q = receipt.p /\ smsOf'[q] = receipt.e)
        BY <1>0, <2>1, Types
    <2>5. smsOf'[p] # Nothing
        BY <2>1, Types
    <2> QED
        BY <1>0, <2>1, <2>2, <2>3, <2>4, <2>5, SameAsBefore, ReceiptClaims
<1>6. CASE ReceiptMark
    <2>1. /\ receipt'.pc = "idle" /\ receipt.pc = "mark" /\ e \in Events
          /\ event' = [event EXCEPT ![e] = receipt.row]
          /\ UNCHANGED <<smsOf, worker, topup>>
        BY <1>0, <1>6, ReceiptMarkMoves, Idles DEF rowVars
    <2>2. \A f \in Events : event'[f] = event[f] \/ (f = receipt.e /\ event'[f] = receipt.row)
        BY <1>0, <2>1, Types
    <2>3. \A q \in Targets : ~TakenByReceipt(q)'
        BY <2>1 DEF TakenByReceipt
    <2> QED
        BY <2>1, <2>2, <2>3, SameAsBefore, ReceiptClaims
<1> QED
    BY <1>1, <1>2, <1>3, <1>4, <1>5, <1>6 DEF ReceiptStep

\* The top-up of a representative takes a kept message.
TopupTakes(q) ==
    /\ topup.pc = "take" /\ q = topup.p /\ smsOf[q] \in {Nothing, topup.e}
    /\ smsOf'[q] = topup.e /\ topup.e # Nothing

LEMMA TopupClaims ==
    ASSUME TypeOK, Inv, Claims, Forward, UNCHANGED <<worker, receipt>>,
           \A q \in Targets : smsOf'[q] = smsOf[q] \/ TopupTakes(q),
           \A e \in Events, q \in Targets : SaysApproved(event'[e], q) =>
               SaysApproved(event[e], q) \/ (e = topup.e /\ TakenByTopup(q)),
           \A q \in Targets : TakenByTopup(q)' =>
               /\ topup'.e = topup.e
               /\ TakenByTopup(q) \/ TopupTakes(q)
    PROVE  Claims'
<1> USE DEF Claims, Inv
<1>0. /\ topup.pc = "take" => topup.p \in Charges /\ topup.p \notin Payments
      /\ \A q \in Targets : TopupTakes(q) => q \notin Payments
    BY Sorts DEF TopupOK, TopupTakes
<1>1. \A w \in Workers : /\ Working(w)' <=> Working(w)
                         /\ E(w)' = E(w) /\ Of(w)' = Of(w)
                         /\ \A d : Works(w, d)' <=> Works(w, d)
                         /\ \A p : Aims(w, p)' <=> Aims(w, p)
                         /\ \A p : TakenBy(w, p)' <=> TakenBy(w, p)
    BY DEF Working, At, E, Of, Works, Aims, TakenBy
<1>2. ASSUME NEW d \in Deposits, NEW q \in Targets, Holds(d, q)'
      PROVE  Holds(d, q) \/ (TopupTakes(q) /\ d = DepositOf[topup.e])
    <2>1. CASE BookedFor(d, q)'
        BY <2>1 DEF BookedFor, Holds
    <2>2. CASE \E w \in Workers : Works(w, d)' /\ TakenBy(w, q)'
        BY <1>1, <2>2 DEF Holds
    <2>3. CASE TakenByReceipt(q)' /\ DepositOf[receipt'.e] = d
        BY <2>3 DEF Holds, TakenByReceipt
    <2>4. CASE Carries(d, q)'
        BY <2>4 DEF Carries, Holds, TopupTakes
    <2>5. CASE TakenByTopup(q)' /\ DepositOf[topup'.e] = d
        BY <2>5 DEF Holds
    <2> QED
        BY <1>2, <2>1, <2>2, <2>3, <2>4, <2>5 DEF Holds
<1>3. HeldsOK'
    <2> SUFFICES ASSUME NEW q \in Targets PROVE HeldOK(q)'
        BY DEF HeldsOK
    <2>0. HeldOK(q)
        BY DEF HeldsOK
    <2>1. ASSUME q \in Payments, NEW d \in Deposits, Holds(d, q)' PROVE status'[q] = "approved" \/ q \in undone'
        <3>1. Holds(d, q)
            BY <1>0, <1>2, <2>1
        <3> QED
            BY <2>0, <2>1, <3>1 DEF HeldOK, Forward
    <2>2. q \in undone' => status'[q] # "none"
        BY <2>0 DEF HeldOK, Forward
    <2>3. \A e \in Events : SaysApproved(event'[e], q) => Written(q)'
        BY <2>0, WrittenForward DEF HeldOK, Written
    <2>4. \A w \in Workers : At(w, "mark")' /\ SaysApproved(worker'[w].row, q) => Written(q)'
        BY <2>0, WrittenForward DEF HeldOK, At
    <2>5. receipt'.pc = "mark" /\ SaysApproved(receipt'.row, q) => smsOf'[q] # Nothing /\ receipt'.p = q
        BY <2>0 DEF HeldOK, Forward
    <2>6. TakenByTopup(q)' => smsOf'[q] # Nothing
        BY <2>0 DEF HeldOK, Forward, TopupTakes
    <2> QED
        BY <2>1, <2>2, <2>3, <2>4, <2>5, <2>6 DEF HeldOK
<1>4. AimsOK'
    <2> SUFFICES ASSUME NEW w \in Workers, Working(w) PROVE AimOK(w)' /\ AttachOK(w)'
        BY <1>1 DEF AimsOK
    <2>1. AimOK(w) /\ AttachOK(w)
        BY DEF AimsOK
    <2>2. AttachOK(w)'
        <3>1. At(w, "attach") => worker[w].p \in Targets /\ worker[w].p \in Payments
            BY Sorts DEF WorkersOK, WorkerOK, At
        <3> QED
            BY <2>1, <3>1 DEF AttachOK, Forward, At
    <2>3. PICK c : c = Of(w) /\ c = Of(w)'
        BY <1>1
    <2>4. ASSUME NEW p \in Payments, Aims(w, p), NEW d \in Deposits \ {c}, Holds(d, p)'
          PROVE  Excused(d, c, p)'
        <3>1. Holds(d, p)
            BY <1>0, <1>2, <2>4, Sorts
        <3>2. Excused(d, c, p)
            BY <2>1, <2>3, <2>4, <3>1 DEF AimOK
        <3> QED
            BY <3>2, ExcusedForward
    <2> QED
        BY <1>1, <2>2, <2>3, <2>4 DEF AimOK
<1>5. ReceiptAimOK'
    <2> SUFFICES ASSUME receipt.pc # "idle", NEW d \in Deposits, Holds(d, receipt.p)'
                 PROVE  \/ Met(d, receipt.p)' \/ receipt.p \in undone'
                        \/ receipt.pc \in {"patch", "mark"} /\ DepositOf[receipt.e] = d
        BY DEF ReceiptAimOK
    <2>1. receipt.p \in Payments /\ receipt.p \in Targets
        BY Sorts DEF ReceiptOK
    <2>2. Holds(d, receipt.p)
        BY <1>0, <1>2, <2>1
    <2> QED
        BY <2>2 DEF ReceiptAimOK, Forward, Met
<1>6. ApartOK'
    <2> SUFFICES ASSUME NEW p \in Targets, NEW d \in Deposits, NEW c \in Deposits,
                        d # c, Holds(d, p)', Holds(c, p)'
                 PROVE  Excused(d, c, p)'
        BY DEF ApartOK
    <2>1. CASE Holds(d, p) /\ Holds(c, p)
        <3>1. Excused(d, c, p)
            BY <2>1 DEF ApartOK
        <3> QED
            BY <3>1, ExcusedForward
    \* It had that message already, or none, and nobody held it.
    <2>2. ASSUME TopupTakes(p), NEW a \in Deposits, NEW b \in Deposits, a # b, Holds(a, p), b = DepositOf[topup.e]
          PROVE  Excused(a, b, p)
        <3>1. CASE smsOf[p] = topup.e
            <4>1. Holds(b, p)
                BY <2>2, <3>1 DEF Holds, Carries, TopupTakes
            <4> QED
                BY <2>2, <4>1 DEF ApartOK
        <3>2. CASE smsOf[p] = Nothing /\ p \notin unwritten
            <4>1. p \notin Payments
                BY <1>0, <2>2
            <4>2. /\ \A v \in Workers : At(v, "patch") => worker[v].p \in Payments
                  /\ receipt.pc = "patch" => receipt.p \in Payments
                BY DEF WorkersOK, WorkerOK, ReceiptOK, At
            <4> QED
                BY <2>2, <3>2, <4>1, <4>2, HeldByPatch DEF Written
        <3>3. CASE p \in unwritten
            BY <3>3 DEF Excused
        <3> QED
            BY <2>2, <3>1, <3>2, <3>3 DEF TopupTakes
    <2> QED
        BY <1>2, <2>1, <2>2, ExcusedForward
<1> QED
    BY <1>3, <1>4, <1>5, <1>6

LEMMA TopupStepsClaim ==
    ASSUME TypeOK, Inv, Claims, Forward,
           TopupLook \/ TopupTake \/ TopupMark \/ TopupStops \/ \E c \in Charges : CreateCharge(c)
    PROVE  Claims'
<1> USE DEF Inv
<1>0. PICK c, e : c = topup.p /\ e = topup.e
    OBVIOUS
<1>1. CASE TopupLook
    <2>1. topup'.pc \in {"idle", "take"} /\ UNCHANGED <<smsOf, event, worker, receipt>>
        BY <1>1, TopupLookMoves, Idles DEF rowVars
    <2> QED
        BY <2>1, TopupClaims DEF TakenByTopup
<1>2. CASE TopupTake
    <2>1. /\ topup.pc = "take" /\ c \in Targets /\ e # Nothing
          /\ topup'.pc = "mark" /\ topup'.p = c /\ topup'.e = e
          /\ \/ /\ topup'.row = Row("approved", c) /\ smsOf[c] \in {Nothing, e}
                /\ smsOf' = [smsOf EXCEPT ![c] = e]
             \/ topup'.row.status = "approve_failed" /\ UNCHANGED smsOf
          /\ UNCHANGED <<event, worker, receipt>>
        BY <1>0, <1>2, TopupTakeMoves, Rows, Sorts DEF rowVars
    <2>2. CASE topup'.row = Row("approved", c) /\ smsOf[c] \in {Nothing, e} /\ smsOf' = [smsOf EXCEPT ![c] = e]
        <3>1. TopupTakes(c)
            BY <1>0, <2>1, <2>2, Types DEF TopupTakes
        <3>2. \A q \in Targets : smsOf'[q] = smsOf[q] \/ TopupTakes(q)
            BY <2>2, <3>1, Types
        <3>3. \A q \in Targets : TakenByTopup(q)' => topup'.e = topup.e /\ TopupTakes(q)
            BY <1>0, <2>1, <2>2, <3>1, Rows DEF TakenByTopup, SaysApproved
        <3> QED
            BY <2>1, <3>2, <3>3, TopupClaims
    <2>3. CASE topup'.row.status = "approve_failed" /\ UNCHANGED smsOf
        BY <2>1, <2>3, TopupClaims DEF TakenByTopup, SaysApproved
    <2> QED
        BY <2>1, <2>2, <2>3
<1>3. CASE TopupMark
    <2>1. /\ topup'.pc = "idle" /\ topup.pc = "mark" /\ e \in Events
          /\ event' = [event EXCEPT ![e] = topup.row]
          /\ UNCHANGED <<smsOf, worker, receipt>>
        BY <1>0, <1>3, TopupMarkMoves, Idles DEF rowVars
    <2>2. \A f \in Events : event'[f] = event[f] \/ (f = topup.e /\ event'[f] = topup.row)
        BY <1>0, <2>1, Types
    <2> QED
        BY <2>1, <2>2, TopupClaims DEF TakenByTopup
<1>4. CASE TopupStops
    <2>1. /\ topup'.pc = "idle"
          /\ \/ smsOf' = smsOf
             \/ /\ topup.pc = "take" /\ c \in Targets /\ e # Nothing
                /\ smsOf[c] \in {Nothing, e} /\ smsOf' = [smsOf EXCEPT ![c] = e]
          /\ UNCHANGED <<event, worker, receipt>>
        BY <1>0, <1>4, TopupStopsMoves, Idles, Sorts DEF Left, rowVars, TopupOK
    <2>2. \A q \in Targets : smsOf'[q] = smsOf[q] \/ TopupTakes(q)
        BY <1>0, <2>1, Types DEF TopupTakes
    <2> QED
        BY <2>1, <2>2, TopupClaims DEF TakenByTopup
<1>5. ASSUME NEW b \in Charges, CreateCharge(b) PROVE Claims'
    <2>1. topup'.pc = "look" /\ UNCHANGED <<smsOf, event, worker, receipt>>
        BY <1>5, CreateChargeMoves
    <2> QED
        BY <2>1, TopupClaims DEF TakenByTopup
<1> QED
    BY <1>1, <1>2, <1>3, <1>4, <1>5

LEMMA ClaimsStep ==
    ASSUME TypeOK, Inv, Claims, [Next]_vars
    PROVE  Claims'
<1>0. Forward /\ TypeOK' /\ Inv'
    BY StepForward, InvStep
<1>1. WorkersOK'
    BY <1>0 DEF Inv
<1>2. ASSUME NEW w \in Workers, RequestStep(w) \/ Dies(w) \/ \E e \in Events : Send(w, e)
      PROVE  Claims'
    BY <1>0, <1>1, <1>2, RequestsClaim, BeginAndDieClaim
<1>3. CASE ReceiptStep
    BY <1>0, <1>3, ReceiptStepsClaim
<1>4. CASE ReceiptDies
    BY <1>0, <1>4, Idles, SameAsBefore, QuietClaims DEF ReceiptDies, rowVars
\* A payment just made is held by nobody.
<1>5. ASSUME NEW p \in Payments, CreatePayment(p) PROVE Claims'
    <2>1. /\ status[p] = "none" /\ p \in Targets /\ receipt'.pc = "look" /\ receipt'.p = p
          /\ UNCHANGED <<smsOf, event, worker, topup>>
        BY <1>5, CreateMoves, Sorts
    <2>2. \A d \in Deposits : ~Holds(d, p)
        BY <1>5, <2>1 DEF Claims, HeldsOK, HeldOK
    <2> QED
        BY <1>0, <2>1, <2>2, SameAsBefore, QuietClaims
<1>6. ASSUME NEW p \in Targets, NEW target \in {"pending", "approved", "rejected"}, AdminSet(p, target)
      PROVE  Claims'
    <2>1. SameRequests /\ UNCHANGED <<smsOf, event, receipt, topup>>
        BY <1>6, AdminMoves DEF SameRequests
    <2> QED
        BY <1>0, <2>1, QuietClaims
<1>7. CASE vars' = vars
    BY <1>0, <1>7, SameAsBefore, QuietClaims DEF vars, rowVars
<1>8. CASE TopupLook \/ TopupTake \/ TopupMark \/ TopupStops \/ \E c \in Charges : CreateCharge(c)
    BY <1>0, <1>8, TopupStepsClaim
<1>9. ASSUME NEW c \in Charges, Recover(c) PROVE Claims'
    BY <1>0, <1>9, RecoverMoves, SameAsBefore, QuietClaims
<1> QED
    BY <1>2, <1>3, <1>4, <1>5, <1>6, <1>7, <1>8, <1>9, Zenon DEF Next

LEMMA ClaimsInit == Init => Claims
<1> SUFFICES ASSUME Init PROVE Claims
    OBVIOUS
<1>1. /\ \A w \in Workers : worker[w].pc = "idle" /\ ~Working(w)
      /\ receipt.pc = "idle" /\ topup.pc = "idle" /\ smsOf = [p \in Targets |-> Nothing]
      /\ event = [e \in Events |-> NoRow] /\ undone = {}
    BY Idles DEF Init, Working, At
<1>2. \A d, p : p \in Targets => ~Holds(d, p)
    <2>1. \A d, p : ~BookedFor(d, p)
        BY <1>1, Rows DEF BookedFor, SaysApproved
    <2>2. \A p : ~TakenByReceipt(p) /\ ~TakenByTopup(p) /\ \A w \in Workers : ~TakenBy(w, p)
        BY <1>1 DEF TakenBy, TakenByReceipt, TakenByTopup, At
    <2>3. \A d, p : p \in Targets => ~Carries(d, p)
        BY <1>1 DEF Carries
    <2> QED
        BY <2>1, <2>2, <2>3 DEF Holds
<1>3. HeldsOK
    BY <1>1, <1>2, Rows DEF HeldsOK, HeldOK, SaysApproved, TakenByTopup, At
<1>4. AimsOK /\ ReceiptAimOK
    BY <1>1 DEF AimsOK, ReceiptAimOK
<1>5. ApartOK
    BY <1>2 DEF ApartOK
<1> QED
    BY <1>3, <1>4, <1>5 DEF Claims

\* A deposit pays for one thing and a thing is paid for by one deposit, where
\* requests and receipts did not overlap, none was cut short, no write was
\* swallowed and nothing was taken back by hand: no deposit with a reference
\* number is swallowed as the second message of a payment.
THEOREM SmsOneDepositPerPayment == Spec => []OneDepositPerPayment
<1>1. Init => TypeOK /\ Inv /\ Claims
    BY InvInit, ClaimsInit
<1>2. (TypeOK /\ Inv /\ Claims) /\ [Next]_vars => (TypeOK /\ Inv /\ Claims)'
    BY InvStep, ClaimsStep
<1>3. TypeOK /\ Inv /\ Claims => NotSwallowed
    <2> SUFFICES ASSUME TypeOK, Inv, Claims, NEW e \in Events, NEW f \in Events,
                        event[e].status = "approved", event[f].status = "approved",
                        event[e].matched = event[f].matched, event[e].matched \notin undone \cup unwritten,
                        {DepositOf[e], DepositOf[f]} \cap NoReference = {},
                        NEW d, d = DepositOf[e], NEW c, c = DepositOf[f], d # c
                 PROVE  Met(d, c) \/ Met(d, event[e].matched) \/ Met(c, event[e].matched)
        BY DEF NotSwallowed
    <2>1. PICK p \in Targets : p = event[e].matched
        BY Types, Rows
    <2>2. d \in Deposits /\ c \in Deposits
        BY Sorts
    <2>3. Holds(d, p) /\ Holds(c, p)
        BY <2>1 DEF Holds, BookedFor, SaysApproved
    <2> QED
        BY <2>1, <2>2, <2>3 DEF Claims, ApartOK, Excused
<1>4. Spec => []NotSwallowed
    BY <1>1, <1>2, <1>3, PTL DEF Spec
<1> QED
    BY <1>4, SmsSpentOnce, PTL DEF OneDepositPerPayment
=============================================================================
