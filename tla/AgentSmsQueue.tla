--------------------------- MODULE AgentSmsQueue ---------------------------
(***************************************************************************)
(* The bank-message webhook of one representative.  A thread of the        *)
(* UserBot process matches a message with the card payments of the         *)
(* representative's customers and reserves it: a row of                    *)
(* customer_payment_sms_queue in customer_bot.db, and then the status      *)
(* agency_queued of the event in userbot.db.  A worker in the AgentBot     *)
(* process takes the rows, reads the event again, approves the payment and *)
(* closes row and event.                                                   *)
(*                                                                         *)
(* An event belongs to the representative whose secret came with it, and   *)
(* every look is filtered by the owner: one representative is modelled.    *)
(* What an approval does to wallet, panel and service is CustomerPayment;  *)
(* here it succeeds, gives the payment back or stops for a review.         *)
(***************************************************************************)
EXTENDS Integers, FiniteSets

CONSTANTS
    Payments,    \* card payments of the customers
    Events,      \* event ids
    Deposits,
    DepositOf,   \* event id -> the deposit its message tells of
    Traced,      \* deposits whose message has a reference or the number of its sender
    Fits,        \* <<event, payment>>: amount and time agree
    Workers,     \* threads of the server
    Nothing,
    MaxSends,    \* bound on requests
    MaxUpsets    \* bound on buttons pressed, settings changed, faults and crashes

ASSUME QueueAssumption ==
    /\ IsFiniteSet(Payments) /\ IsFiniteSet(Events)
    /\ DepositOf \in [Events -> Deposits]
    /\ Traced \subseteq Deposits
    /\ Fits \subseteq Events \X Payments
    /\ Nothing \notin Payments \cup Events
    /\ {MaxSends, MaxUpsets} \subseteq Nat

VARIABLES
    auto,     \* the webhook and sms_auto_confirm are switched on
    status,   \* customer_payments.status
    marker,   \* sms_event_id in its receipt_image
    event,    \* userbot_sms_webhook_events: status and matched payment
    queue,    \* customer_payment_sms_queue: the row of an event
    worker,   \* the requests in work
    consumer, \* process_sms_webhook_queue
    sends, upsets, \* counters for the bounds
    spent,    \* history: the payments a message was spent on
    met,      \* history: deposits two requests for which overlapped, or one of
              \* which was cut short
    cause     \* history: why a reservation was closed without its payment

payVars == <<status, marker>>
history == <<spent, met, cause>>
vars == <<auto, payVars, event, queue, worker, consumer, sends, upsets, history>>

PaymentStatuses == {"none", "pending", "processing", "approved", "rejected"}
MatchedStatuses == {"agency_queued", "approved"}
OtherStatuses == {"none", "received", "no_pending_match", "ambiguous", "agent_auto_disabled",
                  "payment_reserved", "approve_failed"}
Row(s, p) == [status |-> s, matched |-> p]
EventRows == [status : MatchedStatuses, matched : Payments]
             \cup [status : OtherStatuses, matched : {Nothing}]
             \cup [status : {"approved_duplicate"}, matched : Payments \cup {Nothing}]
NoRow == Row("none", Nothing)
Reserved(p, done) == [pay |-> p, done |-> done]
Free == Reserved(Nothing, TRUE)
WorkerPCs == {"idle", "prior", "active", "manual", "attach", "pending", "enqueue", "reservation", "mark"}
ConsumerPCs == {"idle", "settings", "event", "approve", "finish", "row", "close"}
Causes == {"off", "early", "cut"}

Idle == [pc |-> "idle", e |-> Nothing, p |-> Nothing, on |-> FALSE, row |-> NoRow]
Rest == [pc |-> "idle", e |-> Nothing]

At(w, pc) == worker[w].pc = pc
E(w) == worker[w].e
Goto(w, pc) == worker' = [worker EXCEPT ![w].pc = pc]
With(w, pc, p) == worker' = [worker EXCEPT ![w].pc = pc, ![w].p = p]
\* The request ends with this row for its event.
Decide(w, s, p) == worker' = [worker EXCEPT ![w].pc = "mark", ![w].row = Row(s, p)]
Spend(e, p) == spent' = [spent EXCEPT ![e] = @ \cup {p}]
Upset == upsets < MaxUpsets /\ upsets' = upsets + 1

-----------------------------------------------------------------------------
(* What the looks find.                                                    *)

Copies(e) == {f \in Events \ {e} : DepositOf[f] = DepositOf[e]}

\* find_prior_approved_sms_webhook_event: the same text under another id, and
\* the same number or none
Prior(e) == {f \in Copies(e) : event[f].status = "approved"}

ActiveStatuses == {"received", "no_pending_match", "ambiguous", "agency_queued", "approved",
                   "approved_duplicate", "agent_auto_disabled"}

\* Mutant: only approved copies are looked for.
Mutant_Active(e) == {}

\* find_prior_active_sms_webhook_event: the same text is not enough.
Active(e) == {f \in Copies(e) : DepositOf[e] \in Traced /\ event[f].status \in ActiveStatuses}

\* find_recently_agent_approved_card_payments.  The queue leaves no marker.
Manual(e) == {p \in Payments : <<e, p>> \in Fits /\ status[p] = "approved" /\ marker[p] = Nothing}

\* find_pending_card_payments_by_amount
Pending(e) == {p \in Payments : <<e, p>> \in Fits /\ status[p] = "pending"}

\* get_pending_sms_auto_queue_for_payment
Reservation(p) == {e \in Events : queue[e] = Reserved(p, FALSE)}

-----------------------------------------------------------------------------
(* A request: _process_agent_sms_event, _agent_try_match_and_queue.        *)

Retryable == {"received", "no_pending_match", "ambiguous", "agent_auto_disabled", "approve_failed"}
Busy == {DepositOf[E(w)] : w \in {v \in Workers : ~At(v, "idle")}}

\* The event is recorded; one that was decided is not looked at again.
Send(w, e) ==
    /\ At(w, "idle")
    /\ sends < MaxSends
    /\ event[e].status \in Retryable \cup {"none"}
    /\ sends' = sends + 1
    /\ event' = IF event[e].status = "none" THEN [event EXCEPT ![e] = Row("received", Nothing)] ELSE event
    /\ worker' = [worker EXCEPT ![w] = [Idle EXCEPT !.pc = "prior", !.e = e, !.on = auto]]
    /\ met' = met \cup ({DepositOf[e]} \cap Busy)
    /\ UNCHANGED <<auto, payVars, queue, consumer, upsets, spent, cause>>

requestOnly == <<auto, payVars, event, queue, consumer, sends, upsets, history>>

LookPrior(w) ==
    /\ At(w, "prior")
    /\ \/ Prior(E(w)) = {} /\ Goto(w, "active")
       \/ \E f \in Prior(E(w)) : Decide(w, "approved_duplicate", event[f].matched)
    /\ UNCHANGED requestOnly

LookActive(w) ==
    /\ At(w, "active")
    /\ \/ Active(E(w)) = {} /\ Goto(w, "manual")
       \/ \E f \in Active(E(w)) : Decide(w, "approved_duplicate", event[f].matched)
    /\ UNCHANGED requestOnly

\* With automatic approval off nothing is matched.
LookManual(w) ==
    LET M == Manual(E(w))
    IN /\ At(w, "manual")
       /\ \/ M = {} /\ worker[w].on /\ Goto(w, "pending")
          \/ M = {} /\ ~worker[w].on /\ Decide(w, "agent_auto_disabled", Nothing)
          \/ Cardinality(M) > 1 /\ Decide(w, "ambiguous", Nothing)
          \/ \E p \in M : M = {p} /\ With(w, "attach", p)
       /\ UNCHANGED requestOnly

\* attach_sms_event_to_customer_payment
Attach(w) ==
    LET p == worker[w].p
    IN /\ At(w, "attach")
       /\ marker' = [marker EXCEPT ![p] = E(w)]
       /\ Spend(E(w), p)
       /\ Decide(w, "approved", p)
       /\ UNCHANGED <<auto, status, event, queue, consumer, sends, upsets, met, cause>>

LookPending(w) ==
    LET P == Pending(E(w))
    IN /\ At(w, "pending")
       /\ \/ P = {} /\ Decide(w, "no_pending_match", Nothing)
          \/ Cardinality(P) > 1 /\ Decide(w, "ambiguous", Nothing)
          \/ \E p \in P : P = {p} /\ With(w, "enqueue", p)
       /\ UNCHANGED requestOnly

\* enqueue_sms_auto_approval: INSERT OR IGNORE.  An event has one row for good,
\* a payment one that is not processed.
Enqueue(w) ==
    LET p == worker[w].p
    IN /\ At(w, "enqueue")
       /\ IF queue[E(w)] = Free /\ Reservation(p) = {}
            THEN /\ queue' = [queue EXCEPT ![E(w)] = Reserved(p, FALSE)]
                 /\ Decide(w, "agency_queued", p)
            ELSE /\ UNCHANGED queue
                 /\ Goto(w, "reservation")
       /\ UNCHANGED <<auto, payVars, event, consumer, sends, upsets, history>>

EnqueueRaises(w) ==
    /\ At(w, "enqueue")
    /\ Upset
    /\ Goto(w, "reservation")
    /\ UNCHANGED <<auto, payVars, event, queue, consumer, sends, history>>

LookReservation(w) ==
    /\ At(w, "reservation")
    /\ IF Reservation(worker[w].p) \ {E(w)} # {}
         THEN Decide(w, "payment_reserved", Nothing)
         ELSE Decide(w, "approve_failed", Nothing)
    /\ UNCHANGED requestOnly

\* Mutant: the payment is not written with the status.
Mutant_Mark(w) ==
    /\ At(w, "mark")
    /\ event' = [event EXCEPT ![E(w)].status = worker[w].row.status]
    /\ worker' = [worker EXCEPT ![w] = Idle]
    /\ UNCHANGED <<auto, payVars, queue, consumer, sends, upsets, history>>

\* update_sms_webhook_event: whatever the event has become.
Mark(w) ==
    /\ At(w, "mark")
    /\ event' = [event EXCEPT ![E(w)] = worker[w].row]
    /\ worker' = [worker EXCEPT ![w] = Idle]
    /\ UNCHANGED <<auto, payVars, queue, consumer, sends, upsets, history>>

\* A request is cut short: a transaction raises, or the server dies.
Dies(w) ==
    /\ ~At(w, "idle")
    /\ Upset
    /\ worker' = [worker EXCEPT ![w] = Idle]
    /\ met' = met \cup {DepositOf[E(w)]}
    /\ UNCHANGED <<auto, payVars, event, queue, consumer, sends, spent, cause>>

-----------------------------------------------------------------------------
(* process_sms_webhook_queue: one row at a time.                           *)

On(pc) == consumer.pc = pc
Ev == consumer.e
Pay == queue[Ev].pay
Step(pc) == consumer' = [consumer EXCEPT !.pc = pc]
Stop == consumer' = Rest
Close == queue' = [queue EXCEPT ![Ev] = Reserved(Pay, TRUE)]
queueOnly == <<auto, worker, sends, met>>

Take(e) ==
    /\ On("idle")
    /\ queue[e] # Free /\ ~queue[e].done
    /\ consumer' = [pc |-> "settings", e |-> e]
    /\ UNCHANGED <<queueOnly, payVars, event, queue, upsets, spent, cause>>

\* A row of a representative whose webhook is off is closed; so is one whose
\* event does not say that it was reserved for this payment.
Drop(why) ==
    /\ Close
    /\ Stop
    /\ cause' = [cause EXCEPT ![Ev] = @ \cup {why}]

ReadSettings ==
    /\ On("settings")
    /\ IF auto
         THEN Step("event") /\ UNCHANGED <<queue, cause>>
         ELSE Drop("off")
    /\ UNCHANGED <<queueOnly, payVars, event, upsets, spent>>

\* Mutant: a row is executed whatever its event says.
Mutant_Confirmed == TRUE

Confirmed == event[Ev] = Row("agency_queued", Pay)

ReadEvent ==
    /\ On("event")
    /\ IF Confirmed
         THEN Step("approve") /\ UNCHANGED <<queue, cause>>
         ELSE Drop("early")
    /\ UNCHANGED <<queueOnly, payVars, event, upsets, spent>>

\* _auto_approve_from_sms_webhook: a payment that was decided closes the row,
\* an open one is claimed.
Claim ==
    /\ On("approve")
    /\ \/ /\ status[Pay] \in {"approved", "rejected"}
          /\ Step("row")
          /\ Spend(Ev, Pay)
          /\ UNCHANGED status
       \/ /\ status[Pay] \in {"pending", "processing"}
          /\ status' = [status EXCEPT ![Pay] = "processing"]
          /\ Step("finish")
          /\ UNCHANGED spent
    /\ UNCHANGED <<queueOnly, marker, event, queue, upsets, cause>>

\* No price, no money, or a claim that fails: the row is left for a retry.
ClaimFails ==
    /\ On("approve")
    /\ status[Pay] \in {"pending", "processing"}
    /\ Upset
    /\ Stop
    /\ UNCHANGED <<queueOnly, payVars, event, queue, spent, cause>>

\* A payment that was rejected meanwhile stays so, and the row stays.
Finish ==
    /\ On("finish")
    /\ IF status[Pay] = "processing"
         THEN /\ status' = [status EXCEPT ![Pay] = "approved"]
              /\ Spend(Ev, Pay)
              /\ Step("row")
         ELSE UNCHANGED <<status, spent>> /\ Stop
    /\ UNCHANGED <<queueOnly, marker, event, queue, upsets, cause>>

\* Mutant: a failure closes the row.
Mutant_FinishFails ==
    /\ On("finish")
    /\ Upset
    /\ status' = [status EXCEPT ![Pay] = IF @ = "processing" THEN "pending" ELSE @]
    /\ Close
    /\ Stop
    /\ UNCHANGED <<queueOnly, marker, event, spent, cause>>

\* The payment is given back after its refund, or left for a review.
FinishFails ==
    /\ On("finish")
    /\ Upset
    /\ \/ UNCHANGED status
       \/ status[Pay] = "processing" /\ status' = [status EXCEPT ![Pay] = "pending"]
    /\ Stop
    /\ UNCHANGED <<queueOnly, marker, event, queue, spent, cause>>

\* mark_sms_auto_queue_processed; an exception is logged and passed over.
CloseRow ==
    /\ On("row")
    /\ \/ Close /\ UNCHANGED upsets
       \/ Upset /\ UNCHANGED queue
    /\ Step("close")
    /\ UNCHANGED <<queueOnly, payVars, event, spent, cause>>

CloseEvent ==
    /\ On("close")
    /\ \/ /\ event' = [event EXCEPT ![Ev] = Row("approved", Pay)]
          /\ UNCHANGED <<upsets, cause>>
       \/ /\ Upset
          /\ cause' = [cause EXCEPT ![Ev] = @ \cup {"cut"}]
          /\ UNCHANGED event
    /\ Stop
    /\ UNCHANGED <<queueOnly, payVars, queue, spent>>

\* AgentBot dies.
Crash ==
    /\ ~On("idle")
    /\ Upset
    /\ Stop
    /\ cause' = IF On("close") THEN [cause EXCEPT ![Ev] = @ \cup {"cut"}] ELSE cause
    /\ UNCHANGED <<queueOnly, payVars, event, queue, spent>>

-----------------------------------------------------------------------------
(* The customer and the representative.                                    *)

CreatePayment(p) ==
    /\ status[p] = "none"
    /\ status' = [status EXCEPT ![p] = "pending"]
    /\ UNCHANGED <<auto, marker, event, queue, worker, consumer, sends, upsets, history>>

\* By hand: a payment in work can be rejected, but not approved.
Button(p, target) ==
    /\ Upset
    /\ \/ target = "approved" /\ status[p] = "pending"
       \/ target = "rejected" /\ status[p] \in {"pending", "processing"}
    /\ status' = [status EXCEPT ![p] = target]
    /\ UNCHANGED <<auto, marker, event, queue, worker, consumer, sends, history>>

SwitchAuto ==
    /\ Upset
    /\ auto' = ~auto
    /\ UNCHANGED <<payVars, event, queue, worker, consumer, sends, history>>

-----------------------------------------------------------------------------
Init ==
    /\ auto \in BOOLEAN
    /\ status = [p \in Payments |-> "none"]
    /\ marker = [p \in Payments |-> Nothing]
    /\ event = [e \in Events |-> NoRow]
    /\ queue = [e \in Events |-> Free]
    /\ worker = [w \in Workers |-> Idle]
    /\ consumer = Rest
    /\ sends = 0 /\ upsets = 0
    /\ spent = [e \in Events |-> {}] /\ met = {} /\ cause = [e \in Events |-> {}]

RequestStep(w) ==
    \/ LookPrior(w) \/ LookActive(w) \/ LookManual(w) \/ Attach(w) \/ LookPending(w)
    \/ Enqueue(w) \/ EnqueueRaises(w) \/ LookReservation(w) \/ Mark(w)

QueueStep ==
    \/ ReadSettings \/ ReadEvent \/ Claim \/ ClaimFails \/ Finish \/ FinishFails
    \/ CloseRow \/ CloseEvent

Next ==
    \/ \E w \in Workers, e \in Events : Send(w, e)
    \/ \E w \in Workers : RequestStep(w) \/ Dies(w)
    \/ \E e \in Events : Take(e)
    \/ QueueStep
    \/ Crash
    \/ \E p \in Payments : CreatePayment(p)
    \/ \E p \in Payments : \E target \in {"approved", "rejected"} : Button(p, target)
    \/ SwitchAuto

Spec == Init /\ [][Next]_vars

-----------------------------------------------------------------------------
TypeOK ==
    /\ auto \in BOOLEAN
    /\ status \in [Payments -> PaymentStatuses]
    /\ marker \in [Payments -> Events \cup {Nothing}]
    /\ event \in [Events -> EventRows]
    /\ queue \in [Events -> [pay : Payments, done : BOOLEAN] \cup {Free}]
    /\ worker \in [Workers -> [pc : WorkerPCs, e : Events \cup {Nothing}, p : Payments \cup {Nothing},
                               on : BOOLEAN, row : EventRows]]
    /\ consumer \in [pc : ConsumerPCs, e : Events \cup {Nothing}]
    /\ sends \in 0..MaxSends /\ upsets \in 0..MaxUpsets
    /\ spent \in [Events -> SUBSET Payments]
    /\ met \in SUBSET Deposits
    /\ cause \in [Events -> SUBSET Causes]

SpentOn(d) == UNION {spent[e] : e \in {f \in Events : DepositOf[f] = d}}

\* A deposit pays for one payment, however often and under however many ids the
\* telephone sends its message while the first is matched, reserved or approved
\* in another process -- unless two requests for it overlapped or one was cut
\* short.  A message with neither a reference nor the number of its sender is
\* known again only once a copy of it is approved, and is not spoken of.
DepositSpentOnce == \A d \in Traced \ met : Cardinality(SpentOn(d)) <= 1

\* From the look at the event to the end of the approval, which is many calls
\* in another process, the message stays reserved for the payment: nothing a
\* thread writes, and no second copy of the message, takes it away.
ReservedWhileExecuted ==
    consumer.pc \in {"approve", "finish", "row", "close"} /\ DepositOf[Ev] \notin met
        => event[Ev] = Row("agency_queued", Pay)

\* A message that says it is reserved has a row that the worker will take,
\* unless the webhook was off when the row was taken, the row was taken before
\* the message was marked, or the worker was cut short after it closed the row.
NoForgottenReservation ==
    \A e \in Events : event[e].status = "agency_queued" /\ Ev # e
        => ~queue[e].done \/ cause[e] # {}

\* VIOLATED: find_recently_agent_approved_card_payments returns the payments
\* "that were approved manually (without SMS)": a message is not attached to a
\* payment that the message of another deposit has paid for.
AttachedIsManual ==
    \A p \in Payments, e \in Events :
        marker[p] # Nothing /\ p \in spent[e] => DepositOf[e] = DepositOf[marker[p]]
=============================================================================
