------------------------- MODULE AgentSmsQueueProofs -------------------------
(***************************************************************************)
(* The representative's webhook and its queue, for any number of payments, *)
(* messages, deposits and threads, and with any number of crashes.         *)
(***************************************************************************)
EXTENDS AgentSmsQueue, FiniteSetTheorems, TLAPS

WorkerRec == [pc : WorkerPCs, e : Events \cup {Nothing}, p : Payments \cup {Nothing},
              on : BOOLEAN, row : EventRows]
ConsumerRec == [pc : ConsumerPCs, e : Events \cup {Nothing}]
QueueRows == [pay : Payments, done : BOOLEAN] \cup {Free}

MatchPCs == {"manual", "attach", "pending", "enqueue", "reservation"}
ExecutePCs == {"approve", "finish", "row", "close"}

-----------------------------------------------------------------------------
(***************************************************************************)
(* The inductive invariant.  As long as the requests for a deposit neither *)
(* overlapped nor were cut short, only one request at a time is about it,  *)
(* for an event that is still undecided; once it has looked for copies,    *)
(* there is none; and what uses the deposit up, a row of the queue or a    *)
(* payment, is said by the event, or will be by the request that did it.   *)
(***************************************************************************)
Clean(e) == DepositOf[e] \notin met

WorkerOK(w) ==
    ~At(w, "idle") =>
        /\ E(w) \in Events
        /\ worker[w].pc \in {"attach", "enqueue", "reservation"} => worker[w].p \in Payments
        /\ Clean(E(w)) => event[E(w)].status \in Retryable
        /\ Clean(E(w)) /\ worker[w].pc \in MatchPCs => Active(E(w)) = {}

WorkersOK == \A w \in Workers : WorkerOK(w)

\* One request at a time for a deposit.
Alone ==
    \A w, v \in Workers :
        w # v /\ ~At(w, "idle") /\ ~At(v, "idle") /\ DepositOf[E(w)] = DepositOf[E(v)]
            => ~Clean(E(w))

\* The event's message is spoken for.
Used(e) == queue[e] # Free \/ spent[e] # {}

\* The request is about to write this of the event.
Writes(w, e, s) == At(w, "mark") /\ E(w) = e /\ worker[w].row.status = s

UsedIsSaid ==
    \A e \in Events :
        Clean(e) /\ Used(e) =>
            \/ event[e].status \in MatchedStatuses
            \/ \E w \in Workers : \E s \in MatchedStatuses : Writes(w, e, s)

UsedOnce ==
    \A e, f \in Events :
        e # f /\ DepositOf[e] = DepositOf[f] /\ DepositOf[e] \in Traced /\ Clean(e)
            => ~Used(e) \/ ~Used(f)

SpentOnQueued ==
    \A e \in Events : Clean(e) =>
        /\ \A p, q \in spent[e] : p = q
        /\ queue[e] # Free => spent[e] \subseteq {queue[e].pay}

ConsumerOK ==
    IF consumer.pc = "idle" THEN Ev = Nothing ELSE Ev \in Events /\ queue[Ev] # Free

\* A closed row that is not waiting for the last step of its execution.
Closed(e) == queue[e].done /\ cause[e] = {} /\ ~(Ev = e /\ On("close"))

\* The request that has inserted the row is the only one to say so, once, and
\* until it does the row is not executed.
InsertedOnce ==
    \A w \in Workers, e \in Events : Writes(w, e, "agency_queued") =>
        /\ queue[e] # Free /\ ~Closed(e)
        /\ event[e].status # "agency_queued"
        /\ Ev = e => consumer.pc \notin ExecutePCs
        /\ \A v \in Workers : Writes(v, e, "agency_queued") => v = w

QueuedHasRow ==
    \A e \in Events : event[e].status = "agency_queued" => queue[e] # Free /\ ~Closed(e)

Inv ==
    /\ WorkersOK /\ Alone
    /\ UsedIsSaid /\ UsedOnce /\ SpentOnQueued
    /\ ConsumerOK /\ ReservedWhileExecuted
    /\ InsertedOnce /\ QueuedHasRow

-----------------------------------------------------------------------------
(* Who writes what.                                                        *)

USE DEF Next, RequestStep, QueueStep, Send, LookPrior, LookActive, LookManual, Attach, LookPending,
        Enqueue, EnqueueRaises, LookReservation, Mark, Dies, Take, Drop, ReadSettings, ReadEvent,
        Claim, ClaimFails, Finish, FinishFails, CloseRow, CloseEvent, Crash, CreatePayment, Button,
        SwitchAuto, vars, payVars, history, requestOnly, queueOnly

LEMMA WorkerWriters ==
    ASSUME [Next]_vars
    PROVE  \/ worker' = worker
           \/ \E w \in Workers, e \in Events : Send(w, e)
           \/ \E w \in Workers : RequestStep(w) \/ Dies(w)
OBVIOUS

LEMMA EventWriters ==
    ASSUME [Next]_vars
    PROVE  \/ event' = event
           \/ \E w \in Workers, e \in Events : Send(w, e)
           \/ \E w \in Workers : Mark(w)
           \/ CloseEvent
OBVIOUS

LEMMA QueueWriters ==
    ASSUME [Next]_vars
    PROVE  \/ queue' = queue
           \/ \E w \in Workers : Enqueue(w)
           \/ ~On("idle") /\ Close
BY DEF On

LEMMA ConsumerWriters ==
    ASSUME [Next]_vars
    PROVE  \/ consumer' = consumer \/ Stop
           \/ \E e \in Events : Take(e)
           \/ \E pc \in ConsumerPCs \ {"idle"} : ~On("idle") /\ Step(pc)
BY DEF On, ConsumerPCs

LEMMA PaymentWriters ==
    ASSUME [Next]_vars
    PROVE  /\ \/ status' = status
              \/ \E p : \E s \in PaymentStatuses : status' = [status EXCEPT ![p] = s]
           /\ \/ marker' = marker
              \/ \E w \in Workers : Attach(w)
BY DEF PaymentStatuses

LEMMA SpentWriters ==
    ASSUME [Next]_vars
    PROVE  \/ spent' = spent
           \/ \E w \in Workers : Attach(w)
           \/ (Claim \/ Finish) /\ Spend(Ev, Pay)
OBVIOUS

LEMMA CauseWriters ==
    ASSUME [Next]_vars
    PROVE  \/ cause' = cause
           \/ \E why \in Causes : cause' = [cause EXCEPT ![Ev] = @ \cup {why}]
BY DEF Causes

LEMMA MetWriters ==
    ASSUME [Next]_vars
    PROVE  \/ met' = met
           \/ \E w \in Workers, e \in Events : Send(w, e)
           \/ \E w \in Workers : Dies(w)
OBVIOUS

LEMMA CountWriters ==
    ASSUME [Next]_vars
    PROVE  /\ sends' = sends \/ (sends < MaxSends /\ sends' = sends + 1)
           /\ upsets' = upsets \/ (upsets < MaxUpsets /\ upsets' = upsets + 1)
           /\ auto' = auto \/ auto' = ~auto
BY DEF Upset

\* What is neither a request nor the worker touches no event, no row and no
\* history.
LEMMA OthersWrite ==
    ASSUME \/ \E p \in Payments : CreatePayment(p)
           \/ \E p \in Payments : \E target \in {"approved", "rejected"} : Button(p, target)
           \/ SwitchAuto
           \/ UNCHANGED vars
    PROVE  UNCHANGED <<event, queue, worker, consumer, history>>
OBVIOUS

HIDE DEF Next, RequestStep, QueueStep, Send, LookPrior, LookActive, LookManual, Attach, LookPending,
         Enqueue, EnqueueRaises, LookReservation, Mark, Dies, Take, Drop, ReadSettings, ReadEvent,
         Claim, ClaimFails, Finish, FinishFails, CloseRow, CloseEvent, Crash, CreatePayment, Button,
         SwitchAuto, vars, payVars, history, requestOnly, queueOnly

-----------------------------------------------------------------------------
(* The helpers the actions are made of.                                    *)

LEMMA RowsOfEvents ==
    /\ NoRow \in EventRows
    /\ \A s \in OtherStatuses : Row(s, Nothing) \in EventRows
    /\ \A s \in MatchedStatuses : \A p \in Payments : Row(s, p) \in EventRows
    /\ \A p \in Payments \cup {Nothing} : Row("approved_duplicate", p) \in EventRows
    /\ \A r \in EventRows : r.matched \in Payments \cup {Nothing}
    /\ \A s, p : Row(s, p).status = s /\ Row(s, p).matched = p
BY DEF EventRows, NoRow, Row, OtherStatuses, MatchedStatuses

LEMMA RowsOfQueue ==
    /\ Free \in QueueRows
    /\ \A p \in Payments : \A d \in BOOLEAN : Reserved(p, d) \in QueueRows /\ Reserved(p, d) # Free
    /\ \A r \in QueueRows : r # Free => r.pay \in Payments
    /\ \A p, d : Reserved(p, d).pay = p
    /\ \A p : Reserved(p, TRUE).done /\ ~Reserved(p, FALSE).done
BY QueueAssumption DEF QueueRows, Free, Reserved

LEMMA IdleIsWorker == Idle \in WorkerRec /\ Idle.pc = "idle"
BY RowsOfEvents DEF Idle, WorkerRec, WorkerPCs

LEMMA WorkerMoves ==
    ASSUME TypeOK, NEW w \in Workers, NEW pc \in WorkerPCs, Goto(w, pc)
    PROVE  /\ worker' \in [Workers -> WorkerRec]
           /\ worker'[w].pc = pc /\ worker'[w].e = E(w) /\ worker'[w].p = worker[w].p
           /\ worker'[w].row = worker[w].row
           /\ \A v \in Workers \ {w} : worker'[v] = worker[v]
<1>1. worker \in [Workers -> WorkerRec] /\ worker[w] \in WorkerRec
    BY DEF TypeOK, WorkerRec
<1>2. [worker[w] EXCEPT !.pc = pc] \in WorkerRec
    BY <1>1 DEF WorkerRec
<1>3. worker' = [worker EXCEPT ![w] = [worker[w] EXCEPT !.pc = pc]]
    BY <1>1 DEF Goto
<1> QED
    BY <1>1, <1>2, <1>3 DEF WorkerRec, E

LEMMA WorkerMovesWith ==
    ASSUME TypeOK, NEW w \in Workers, NEW pc \in WorkerPCs, NEW p \in Payments, With(w, pc, p)
    PROVE  /\ worker' \in [Workers -> WorkerRec]
           /\ worker'[w].pc = pc /\ worker'[w].e = E(w) /\ worker'[w].p = p
           /\ \A v \in Workers \ {w} : worker'[v] = worker[v]
<1>1. worker \in [Workers -> WorkerRec] /\ worker[w] \in WorkerRec
    BY DEF TypeOK, WorkerRec
<1>2. [worker[w] EXCEPT !.pc = pc, !.p = p] \in WorkerRec
    BY <1>1 DEF WorkerRec
<1>3. worker' = [worker EXCEPT ![w] = [worker[w] EXCEPT !.pc = pc, !.p = p]]
    BY <1>1 DEF With
<1> QED
    BY <1>1, <1>2, <1>3 DEF WorkerRec, E

LEMMA WorkerDecides ==
    ASSUME TypeOK, NEW w \in Workers, NEW s, NEW p, Row(s, p) \in EventRows, Decide(w, s, p)
    PROVE  /\ worker' \in [Workers -> WorkerRec]
           /\ worker'[w].pc = "mark" /\ worker'[w].e = E(w) /\ worker'[w].row = Row(s, p)
           /\ \A v \in Workers \ {w} : worker'[v] = worker[v]
<1>1. worker \in [Workers -> WorkerRec] /\ worker[w] \in WorkerRec
    BY DEF TypeOK, WorkerRec
<1> DEFINE r == Row(s, p)
<1> HIDE DEF r
<1>2. r \in EventRows /\ "mark" \in WorkerPCs
    BY DEF r, WorkerPCs
<1>3. [worker[w] EXCEPT !.pc = "mark", !.row = r] \in WorkerRec
    BY <1>1, <1>2 DEF WorkerRec
<1>4. worker' = [worker EXCEPT ![w] = [worker[w] EXCEPT !.pc = "mark", !.row = r]]
    BY <1>1 DEF Decide, r
<1>5. /\ worker' \in [Workers -> WorkerRec]
      /\ worker'[w].pc = "mark" /\ worker'[w].e = worker[w].e /\ worker'[w].row = r
      /\ \A v \in Workers \ {w} : worker'[v] = worker[v]
    BY <1>1, <1>3, <1>4 DEF WorkerRec
<1> QED
    BY <1>5 DEF r, E

LEMMA WorkerEnds ==
    ASSUME TypeOK, NEW w \in Workers, worker' = [worker EXCEPT ![w] = Idle]
    PROVE  /\ worker' \in [Workers -> WorkerRec]
           /\ worker'[w] = Idle /\ worker'[w].pc = "idle"
           /\ \A v \in Workers \ {w} : worker'[v] = worker[v]
BY IdleIsWorker DEF TypeOK, WorkerRec

LEMMA WorkerStarts ==
    ASSUME TypeOK, NEW w \in Workers, NEW e \in Events, Send(w, e)
    PROVE  /\ worker' \in [Workers -> WorkerRec]
           /\ worker'[w].pc = "prior" /\ worker'[w].e = e
           /\ \A v \in Workers \ {w} : worker'[v] = worker[v]
<1> DEFINE r == [Idle EXCEPT !.pc = "prior", !.e = e, !.on = auto]
<1>1. "prior" \in WorkerPCs /\ auto \in BOOLEAN
    BY DEF TypeOK, WorkerPCs
<1>2. r \in WorkerRec /\ r.pc = "prior" /\ r.e = e
    BY <1>1, IdleIsWorker DEF WorkerRec
<1>3. worker' = [worker EXCEPT ![w] = r]
    BY DEF Send
<1> HIDE DEF r
<1>4. worker \in [Workers -> WorkerRec]
    BY DEF TypeOK, WorkerRec
<1> QED
    BY <1>2, <1>3, <1>4

LEMMA RowCloses ==
    ASSUME TypeOK, ConsumerOK, ~On("idle"), Close
    PROVE  /\ queue' \in [Events -> QueueRows]
           /\ Ev \in Events /\ queue'[Ev] = Reserved(Pay, TRUE)
           /\ \A e \in Events : (queue'[e] = Free <=> queue[e] = Free) /\ queue'[e].pay = queue[e].pay
           /\ \A e \in Events \ {Ev} : queue'[e] = queue[e]
<1>1. queue \in [Events -> QueueRows] /\ Ev \in Events /\ queue[Ev] # Free
    BY DEF TypeOK, QueueRows, ConsumerOK, On
<1>2. Pay \in Payments
    BY <1>1, RowsOfQueue DEF Pay
<1>3. Reserved(Pay, TRUE) \in QueueRows /\ Reserved(Pay, TRUE) # Free /\ Reserved(Pay, TRUE).pay = Pay
    BY <1>2, RowsOfQueue
<1> QED
    BY <1>1, <1>3 DEF Close, Pay

-----------------------------------------------------------------------------
(* What a request does before its last step: it stays with its event, and  *)
(* it says that the message was used only when it has used it.             *)

Inserts(w) ==
    /\ At(w, "enqueue") /\ queue[E(w)] = Free
    /\ queue' = [queue EXCEPT ![E(w)] = Reserved(worker[w].p, FALSE)]
    /\ UNCHANGED spent

Attaches(w) ==
    /\ At(w, "attach") /\ Spend(E(w), worker[w].p)
    /\ UNCHANGED queue

LEMMA RequestMoves ==
    ASSUME TypeOK, WorkersOK, NEW w \in Workers, RequestStep(w), ~Mark(w)
    PROVE  /\ ~At(w, "idle") /\ E(w) \in Events
           /\ worker' \in [Workers -> WorkerRec]
           /\ \A v \in Workers \ {w} : worker'[v] = worker[v]
           /\ worker'[w].e = E(w) /\ worker'[w].pc # "idle"
           /\ worker'[w].pc \in {"attach", "enqueue", "reservation"} => worker'[w].p \in Payments
           /\ worker'[w].pc \in MatchPCs => worker[w].pc \in MatchPCs \/ Active(E(w)) = {}
           /\ UNCHANGED <<event, consumer, met, cause>>
           /\ \/ /\ UNCHANGED <<queue, spent>>
                 /\ worker'[w].pc = "mark" => worker'[w].row.status \notin MatchedStatuses
              \/ Inserts(w) /\ worker'[w].pc = "mark" /\ worker'[w].row.status = "agency_queued"
              \/ Attaches(w) /\ worker'[w].pc = "mark" /\ worker'[w].row.status = "approved"
<1> DEFINE kept ==
            /\ worker' \in [Workers -> WorkerRec]
            /\ worker'[w].e = E(w)
            /\ \A v \in Workers \ {w} : worker'[v] = worker[v]
<1>a. ~At(w, "idle")
    BY DEF RequestStep, LookPrior, LookActive, LookManual, Attach, LookPending, Enqueue,
           EnqueueRaises, LookReservation, Mark, At
<1>b. /\ E(w) \in Events
      /\ worker[w].pc \in {"attach", "enqueue", "reservation"} => worker[w].p \in Payments
    BY <1>a DEF WorkersOK, WorkerOK
<1>c. {"active", "manual", "attach", "pending", "enqueue", "reservation"} \subseteq WorkerPCs
    BY DEF WorkerPCs
<1>d. event[E(w)] \in EventRows /\ \A f \in Events : event[f].matched \in Payments \cup {Nothing}
    BY <1>b, RowsOfEvents DEF TypeOK
<1>e. \A s, p : Decide(w, s, p) /\ Row(s, p) \in EventRows
          => kept /\ worker'[w].pc = "mark" /\ worker'[w].row.status = s
    BY WorkerDecides, RowsOfEvents
<1>f. \A pc \in WorkerPCs : Goto(w, pc) => kept /\ worker'[w].pc = pc /\ worker'[w].p = worker[w].p
    BY WorkerMoves
<1>g. \A pc \in WorkerPCs : \A p \in Payments : With(w, pc, p)
          => kept /\ worker'[w].pc = pc /\ worker'[w].p = p
    BY WorkerMovesWith
<1> HIDE DEF kept
<1>1. CASE LookPrior(w)
    <2>1. UNCHANGED <<event, queue, consumer, met, spent, cause>>
        BY <1>1 DEF LookPrior, requestOnly, history
    <2>2. \/ Goto(w, "active")
          \/ \E p \in Payments \cup {Nothing} : Decide(w, "approved_duplicate", p)
        BY <1>1, <1>d DEF LookPrior, Prior, Copies
    <2>3. \/ kept /\ worker'[w].pc = "active"
          \/ kept /\ worker'[w].pc = "mark" /\ worker'[w].row.status = "approved_duplicate"
        BY <2>2, <1>c, <1>e, <1>f, RowsOfEvents
    <2> QED
        BY <1>a, <1>b, <2>1, <2>3 DEF kept, MatchPCs, MatchedStatuses
<1>2. CASE LookActive(w)
    <2>1. UNCHANGED <<event, queue, consumer, met, spent, cause>>
        BY <1>2 DEF LookActive, requestOnly, history
    <2>2. \/ Active(E(w)) = {} /\ Goto(w, "manual")
          \/ \E p \in Payments \cup {Nothing} : Decide(w, "approved_duplicate", p)
        BY <1>2, <1>d DEF LookActive, Active, Copies
    <2>3. \/ Active(E(w)) = {} /\ kept /\ worker'[w].pc = "manual"
          \/ kept /\ worker'[w].pc = "mark" /\ worker'[w].row.status = "approved_duplicate"
        BY <2>2, <1>c, <1>e, <1>f, RowsOfEvents
    <2> QED
        BY <1>a, <1>b, <2>1, <2>3 DEF kept, MatchPCs, MatchedStatuses
<1>3. CASE LookManual(w)
    <2>1. UNCHANGED <<event, queue, consumer, met, spent, cause>> /\ worker[w].pc = "manual"
        BY <1>3 DEF LookManual, requestOnly, history, At
    <2>2. \/ Goto(w, "pending")
          \/ \E s \in {"agent_auto_disabled", "ambiguous"} : Decide(w, s, Nothing)
          \/ \E p \in Payments : With(w, "attach", p)
        BY <1>3 DEF LookManual, Manual
    <2>3. \/ kept /\ worker'[w].pc = "pending"
          \/ kept /\ worker'[w].pc = "mark"
             /\ worker'[w].row.status \in {"agent_auto_disabled", "ambiguous"}
          \/ kept /\ worker'[w].pc = "attach" /\ worker'[w].p \in Payments
        BY <2>2, <1>c, <1>e, <1>f, <1>g, RowsOfEvents DEF OtherStatuses
    <2> QED
        BY <1>a, <1>b, <2>1, <2>3 DEF kept, MatchPCs, MatchedStatuses
<1>4. CASE Attach(w)
    <2>1. UNCHANGED <<event, queue, consumer, met, cause>> /\ Attaches(w)
        BY <1>4 DEF Attach, Attaches
    <2>2. Decide(w, "approved", worker[w].p) /\ worker[w].p \in Payments
        BY <1>4, <1>b DEF Attach, At
    <2>3. kept /\ worker'[w].pc = "mark" /\ worker'[w].row.status = "approved"
        BY <2>2, <1>e, RowsOfEvents DEF MatchedStatuses
    <2> QED
        BY <1>a, <1>b, <2>1, <2>3 DEF kept, MatchPCs, MatchedStatuses
<1>5. CASE LookPending(w)
    <2>1. UNCHANGED <<event, queue, consumer, met, spent, cause>> /\ worker[w].pc = "pending"
        BY <1>5 DEF LookPending, requestOnly, history, At
    <2>2. \/ \E s \in {"no_pending_match", "ambiguous"} : Decide(w, s, Nothing)
          \/ \E p \in Payments : With(w, "enqueue", p)
        BY <1>5 DEF LookPending, Pending
    <2>3. \/ kept /\ worker'[w].pc = "mark"
             /\ worker'[w].row.status \in {"no_pending_match", "ambiguous"}
          \/ kept /\ worker'[w].pc = "enqueue" /\ worker'[w].p \in Payments
        BY <2>2, <1>c, <1>e, <1>f, <1>g, RowsOfEvents DEF OtherStatuses
    <2> QED
        BY <1>a, <1>b, <2>1, <2>3 DEF kept, MatchPCs, MatchedStatuses
<1>6. CASE Enqueue(w)
    <2>1. UNCHANGED <<event, consumer, met, spent, cause>> /\ worker[w].pc = "enqueue"
        BY <1>6 DEF Enqueue, history, At
    <2>2. worker[w].p \in Payments
        BY <2>1, <1>b
    <2>3. \/ Inserts(w) /\ Decide(w, "agency_queued", worker[w].p)
          \/ UNCHANGED queue /\ Goto(w, "reservation")
        BY <1>6, <2>1 DEF Enqueue, Inserts, At
    <2>4. \/ /\ Inserts(w) /\ kept
             /\ worker'[w].pc = "mark" /\ worker'[w].row.status = "agency_queued"
          \/ /\ UNCHANGED queue /\ kept
             /\ worker'[w].pc = "reservation" /\ worker'[w].p \in Payments
        BY <2>2, <2>3, <1>c, <1>e, <1>f, RowsOfEvents DEF MatchedStatuses
    <2> QED
        BY <1>a, <1>b, <2>1, <2>4 DEF kept, MatchPCs, MatchedStatuses
<1>7. CASE EnqueueRaises(w)
    <2>1. /\ UNCHANGED <<event, queue, consumer, met, spent, cause>> /\ worker[w].pc = "enqueue"
          /\ Goto(w, "reservation")
        BY <1>7 DEF EnqueueRaises, history, At
    <2>2. kept /\ worker'[w].pc = "reservation" /\ worker'[w].p \in Payments
        BY <2>1, <1>b, <1>c, <1>f
    <2> QED
        BY <1>a, <1>b, <2>1, <2>2 DEF kept, MatchPCs
<1>8. CASE LookReservation(w)
    <2>1. /\ UNCHANGED <<event, queue, consumer, met, spent, cause>>
          /\ \E s \in {"payment_reserved", "approve_failed"} : Decide(w, s, Nothing)
        BY <1>8 DEF LookReservation, requestOnly, history
    <2>2. /\ kept /\ worker'[w].pc = "mark"
          /\ worker'[w].row.status \in {"payment_reserved", "approve_failed"}
        BY <2>1, <1>e, RowsOfEvents DEF OtherStatuses
    <2> QED
        BY <1>a, <1>b, <2>1, <2>2 DEF kept, MatchPCs, MatchedStatuses
<1> QED
    BY <1>1, <1>2, <1>3, <1>4, <1>5, <1>6, <1>7, <1>8 DEF RequestStep

LEMMA MarkMoves ==
    ASSUME TypeOK, WorkersOK, NEW w \in Workers, Mark(w)
    PROVE  /\ At(w, "mark") /\ E(w) \in Events
           /\ worker' \in [Workers -> WorkerRec] /\ worker'[w].pc = "idle"
           /\ \A v \in Workers \ {w} : worker'[v] = worker[v]
           /\ event' = [event EXCEPT ![E(w)] = worker[w].row] /\ worker[w].row \in EventRows
           /\ UNCHANGED <<queue, consumer, spent, met, cause>>
<1>1. /\ At(w, "mark") /\ worker' = [worker EXCEPT ![w] = Idle]
      /\ event' = [event EXCEPT ![E(w)] = worker[w].row]
      /\ UNCHANGED <<queue, consumer, spent, met, cause>>
    BY DEF Mark, history
<1>2. E(w) \in Events
    BY <1>1 DEF WorkersOK, WorkerOK, At
<1>3. worker[w].row \in EventRows
    BY DEF TypeOK
<1> QED
    BY <1>1, <1>2, <1>3, WorkerEnds

LEMMA DiesMoves ==
    ASSUME TypeOK, WorkersOK, NEW w \in Workers, Dies(w)
    PROVE  /\ ~At(w, "idle") /\ E(w) \in Events
           /\ worker' \in [Workers -> WorkerRec] /\ worker'[w].pc = "idle"
           /\ \A v \in Workers \ {w} : worker'[v] = worker[v]
           /\ met' = met \cup {DepositOf[E(w)]}
           /\ UNCHANGED <<event, queue, consumer, spent, cause>>
<1>1. /\ ~At(w, "idle") /\ worker' = [worker EXCEPT ![w] = Idle]
      /\ met' = met \cup {DepositOf[E(w)]}
      /\ UNCHANGED <<event, queue, consumer, spent, cause>>
    BY DEF Dies
<1>2. E(w) \in Events
    BY <1>1 DEF WorkersOK, WorkerOK
<1> QED
    BY <1>1, <1>2, WorkerEnds

LEMMA SendMoves ==
    ASSUME TypeOK, NEW w \in Workers, NEW e \in Events, Send(w, e)
    PROVE  /\ At(w, "idle")
           /\ worker' \in [Workers -> WorkerRec] /\ worker'[w].pc = "prior" /\ worker'[w].e = e
           /\ \A v \in Workers \ {w} : worker'[v] = worker[v]
           /\ event' \in [Events -> EventRows] /\ event'[e].status \in Retryable
           /\ \/ event' = event
              \/ event[e].status = "none" /\ event'[e].status = "received"
           /\ \A f \in Events \ {e} : event'[f] = event[f]
           /\ met \subseteq met' /\ met' \subseteq met \cup {DepositOf[e]}
           /\ \A v \in Workers : ~At(v, "idle") /\ DepositOf[E(v)] = DepositOf[e] => DepositOf[e] \in met'
           /\ UNCHANGED <<queue, consumer, spent, cause>>
<1>1. /\ At(w, "idle") /\ event[e].status \in Retryable \cup {"none"}
      /\ event' = IF event[e].status = "none" THEN [event EXCEPT ![e] = Row("received", Nothing)] ELSE event
      /\ met' = met \cup ({DepositOf[e]} \cap Busy)
      /\ UNCHANGED <<queue, consumer, spent, cause>>
    BY DEF Send
<1>2. Row("received", Nothing) \in EventRows /\ Row("received", Nothing).status = "received"
    BY RowsOfEvents DEF OtherStatuses
<1>3. /\ event' \in [Events -> EventRows] /\ event'[e].status \in Retryable
      /\ \/ event' = event
         \/ event[e].status = "none" /\ event'[e].status = "received"
      /\ \A f \in Events \ {e} : event'[f] = event[f]
    BY <1>1, <1>2 DEF TypeOK, Retryable
<1>4. \A v \in Workers : ~At(v, "idle") /\ DepositOf[E(v)] = DepositOf[e] => DepositOf[e] \in Busy
    BY DEF Busy
<1> QED
    BY <1>1, <1>3, <1>4, WorkerStarts

-----------------------------------------------------------------------------
(* What the worker of the queue does: no row comes or goes, none is closed *)
(* without a reason or an approval, and what it executes its event says.   *)

ConsumerStep == (\E e \in Events : Take(e)) \/ QueueStep \/ Crash

LEMMA ConsumerKeepsRows ==
    ASSUME TypeOK, ConsumerOK, ConsumerStep
    PROVE  /\ UNCHANGED <<worker, met>>
           /\ queue' \in [Events -> QueueRows]
           /\ \A e \in Events : (queue'[e] = Free <=> queue[e] = Free) /\ queue'[e].pay = queue[e].pay
<1>1. UNCHANGED <<worker, met>>
    BY DEF ConsumerStep, Take, QueueStep, Crash, ReadSettings, ReadEvent, Claim, ClaimFails, Finish,
           FinishFails, CloseRow, CloseEvent, queueOnly
<1>2. queue' = queue \/ (~On("idle") /\ Close)
    BY DEF ConsumerStep, Take, QueueStep, Crash, ReadSettings, ReadEvent, Claim, ClaimFails, Finish,
           FinishFails, CloseRow, CloseEvent, Drop, On
<1>3. queue \in [Events -> QueueRows]
    BY DEF TypeOK, QueueRows
<1> QED
    BY <1>1, <1>2, <1>3, RowCloses

LEMMA ConsumerMoves ==
    ASSUME TypeOK, ConsumerOK, ConsumerStep
    PROVE  /\ ConsumerOK'
           /\ (consumer.pc \in ExecutePCs)' =>
                  /\ Ev' = Ev
                  /\ consumer.pc \in ExecutePCs \/ event[Ev] = Row("agency_queued", Pay)
           /\ \/ event' = event
              \/ On("close") /\ Stop /\ event' = [event EXCEPT ![Ev] = Row("approved", Pay)]
           /\ \/ spent' = spent
              \/ consumer.pc \in ExecutePCs /\ Spend(Ev, Pay)
<1>1. consumer \in ConsumerRec /\ Rest.pc = "idle" /\ Rest.e = Nothing
    BY DEF TypeOK, ConsumerRec, Rest
<1>2. \A pc \in ConsumerPCs : Step(pc) => consumer'.pc = pc /\ consumer'.e = consumer.e
    BY <1>1 DEF Step, ConsumerRec
<1>3. ConsumerPCs = {"idle", "settings", "event"} \cup ExecutePCs
    BY DEF ConsumerPCs, ExecutePCs
<1>4. \A e \in Events : queue'[e] = Free <=> queue[e] = Free
    BY ConsumerKeepsRows
<1>5. /\ \/ event' = event
         \/ On("close") /\ Stop /\ event' = [event EXCEPT ![Ev] = Row("approved", Pay)]
      /\ \/ spent' = spent
         \/ consumer.pc \in ExecutePCs /\ Spend(Ev, Pay)
    BY DEF ConsumerStep, Take, QueueStep, Crash, ReadSettings, ReadEvent, Claim, ClaimFails, Finish,
           FinishFails, CloseRow, CloseEvent, On, ExecutePCs
<1>6. \/ Stop
      \/ \E e \in Events : queue[e] # Free /\ consumer' = [pc |-> "settings", e |-> e]
      \/ ~On("idle") /\ Step("event")
      \/ Confirmed /\ ~On("idle") /\ Step("approve")
      \/ consumer.pc \in ExecutePCs /\ \E pc \in {"row", "finish", "close"} : Step(pc)
    BY DEF ConsumerStep, Take, QueueStep, Crash, ReadSettings, ReadEvent, Claim, ClaimFails, Finish,
           FinishFails, CloseRow, CloseEvent, Drop, On, ExecutePCs
<1>7. \/ consumer' = Rest
      \/ \E e \in Events : queue[e] # Free /\ consumer'.pc = "settings" /\ consumer'.e = e
      \/ /\ ~On("idle") /\ consumer'.e = consumer.e /\ consumer'.pc # "idle"
         /\ \/ consumer'.pc \notin ExecutePCs
            \/ Confirmed
            \/ consumer.pc \in ExecutePCs
    BY <1>2, <1>3, <1>6 DEF Stop, ExecutePCs, On
<1> QED
    BY <1>1, <1>4, <1>5, <1>7 DEF ConsumerOK, Ev, On, ExecutePCs, Confirmed

LEMMA ConsumerCloses ==
    ASSUME TypeOK, ConsumerOK, ConsumerStep, NEW e \in Events, Closed(e)'
    PROVE  Closed(e) \/ (Ev = e /\ On("close") /\ event' = [event EXCEPT ![Ev] = Row("approved", Pay)])
<1>1. consumer \in ConsumerRec /\ cause \in [Events -> SUBSET Causes] /\ queue \in [Events -> QueueRows]
    BY DEF TypeOK, ConsumerRec, QueueRows
<1>2. ~On("idle") => Ev \in Events
    BY DEF ConsumerOK, On
<1>3. \/ UNCHANGED <<queue, cause>> /\ ~On("close")
      \/ \E why : ~On("idle") /\ ~On("close") /\ Drop(why)
      \/ ~On("idle") /\ ~On("close") /\ (Close \/ UNCHANGED queue) /\ Step("close") /\ UNCHANGED cause
      \/ On("close") /\ event' = [event EXCEPT ![Ev] = Row("approved", Pay)] /\ UNCHANGED <<queue, cause>>
      \/ On("close") /\ cause' = [cause EXCEPT ![Ev] = @ \cup {"cut"}] /\ UNCHANGED queue
    BY DEF ConsumerStep, Take, QueueStep, Crash, ReadSettings, ReadEvent, Claim, ClaimFails, Finish,
           FinishFails, CloseRow, CloseEvent, On
<1>4. CASE UNCHANGED <<queue, cause>> /\ ~On("close")
    BY <1>4 DEF Closed
<1>5. ASSUME NEW why, ~On("idle"), ~On("close"), Drop(why)
      PROVE  Closed(e)
    <2>1. /\ cause'[Ev] # {}
          /\ \A f \in Events \ {Ev} : cause'[f] = cause[f] /\ queue'[f] = queue[f]
        BY <1>1, <1>2, <1>5, RowCloses DEF Drop
    <2> QED
        BY <2>1, <1>5 DEF Closed
<1>6. CASE ~On("idle") /\ ~On("close") /\ (Close \/ UNCHANGED queue) /\ Step("close") /\ UNCHANGED cause
    <2>1. Ev' = Ev /\ On("close")'
        BY <1>1, <1>6 DEF Step, Ev, On, ConsumerRec
    <2>2. e # Ev
        BY <2>1 DEF Closed
    <2>3. queue'[e] = queue[e]
        BY <2>2, <1>6, RowCloses
    <2> QED
        BY <2>1, <2>2, <2>3, <1>6 DEF Closed
<1>7. CASE On("close") /\ event' = [event EXCEPT ![Ev] = Row("approved", Pay)] /\ UNCHANGED <<queue, cause>>
    BY <1>7 DEF Closed
<1>8. CASE On("close") /\ cause' = [cause EXCEPT ![Ev] = @ \cup {"cut"}] /\ UNCHANGED queue
    <2>1. cause'[Ev] # {} /\ \A f \in Events \ {Ev} : cause'[f] = cause[f]
        BY <1>1, <1>2, <1>8 DEF On
    <2> QED
        BY <2>1, <1>8 DEF Closed
<1> QED
    BY <1>3, <1>4, <1>5, <1>6, <1>7, <1>8

-----------------------------------------------------------------------------
(* Type correctness.                                                       *)

LEMMA TypeStep ==
    ASSUME TypeOK, WorkersOK, ConsumerOK, [Next]_vars
    PROVE  TypeOK'
<1>1. worker' \in [Workers -> WorkerRec]
    <2>1. CASE worker' = worker
        BY <2>1 DEF TypeOK, WorkerRec
    <2> QED
        BY <2>1, WorkerWriters, SendMoves, RequestMoves, MarkMoves, DiesMoves
<1>2. event' \in [Events -> EventRows]
    <2>1. CASE CloseEvent
        <3>1. Pay \in Payments
            BY <2>1, RowsOfQueue DEF CloseEvent, On, ConsumerOK, TypeOK, Pay, QueueRows
        <3>2. Row("approved", Pay) \in EventRows
            BY <3>1, RowsOfEvents DEF MatchedStatuses
        <3> QED
            BY <2>1, <3>2 DEF CloseEvent, TypeOK
    <2>2. ASSUME NEW w \in Workers, Mark(w) PROVE event' \in [Events -> EventRows]
        BY <2>2, MarkMoves DEF TypeOK
    <2>3. CASE event' = event
        BY <2>3 DEF TypeOK
    <2> QED
        BY <2>1, <2>2, <2>3, EventWriters, SendMoves
<1>3. queue' \in [Events -> QueueRows]
    <2>1. queue \in [Events -> QueueRows]
        BY DEF TypeOK, QueueRows
    <2>2. ASSUME NEW w \in Workers, Enqueue(w) PROVE queue' \in [Events -> QueueRows]
        <3>1. worker[w].p \in Payments
            BY <2>2 DEF WorkersOK, WorkerOK, Enqueue, At
        <3>2. Reserved(worker[w].p, FALSE) \in QueueRows
            BY <3>1, RowsOfQueue
        <3> QED
            BY <2>1, <2>2, <3>2 DEF Enqueue
    <2> QED
        BY <2>1, <2>2, QueueWriters, RowCloses
<1>4. consumer' \in ConsumerRec
    <2>1. consumer \in ConsumerRec
        BY DEF TypeOK, ConsumerRec
    <2>2. Rest \in ConsumerRec
        BY DEF Rest, ConsumerRec, ConsumerPCs
    <2>3. \A e \in Events : Take(e) => consumer' \in ConsumerRec
        BY DEF Take, ConsumerRec, ConsumerPCs
    <2>4. \A pc \in ConsumerPCs : Step(pc) => consumer' \in ConsumerRec
        BY <2>1 DEF Step, ConsumerRec
    <2> QED
        BY <2>1, <2>2, <2>3, <2>4, ConsumerWriters DEF Stop
<1>5. status' \in [Payments -> PaymentStatuses]
    BY PaymentWriters DEF TypeOK
<1>6. marker' \in [Payments -> Events \cup {Nothing}]
    <2>1. ASSUME NEW w \in Workers, Attach(w) PROVE marker' \in [Payments -> Events \cup {Nothing}]
        <3>1. E(w) \in Events
            BY <2>1 DEF WorkersOK, WorkerOK, Attach, At
        <3> QED
            BY <2>1, <3>1 DEF Attach, TypeOK
    <2> QED
        BY <2>1, PaymentWriters DEF TypeOK
<1>7. spent' \in [Events -> SUBSET Payments]
    <2>1. ASSUME NEW w \in Workers, Attach(w) PROVE spent' \in [Events -> SUBSET Payments]
        <3>1. worker[w].p \in Payments
            BY <2>1 DEF WorkersOK, WorkerOK, Attach, At
        <3> QED
            BY <2>1, <3>1 DEF Attach, Spend, TypeOK
    <2>2. CASE (Claim \/ Finish) /\ Spend(Ev, Pay)
        <3>1. Pay \in Payments
            BY <2>2, RowsOfQueue DEF Claim, Finish, On, ConsumerOK, TypeOK, Pay, QueueRows
        <3> QED
            BY <2>2, <3>1 DEF Spend, TypeOK
    <2> QED
        BY <2>1, <2>2, SpentWriters DEF TypeOK
<1>8. cause' \in [Events -> SUBSET Causes]
    BY CauseWriters DEF TypeOK
<1>9. met' \in SUBSET Deposits
    <2>1. \A e \in Events : DepositOf[e] \in Deposits
        BY QueueAssumption
    <2>2. ASSUME NEW w \in Workers, Dies(w) PROVE met' \in SUBSET Deposits
        BY <2>1, <2>2, DiesMoves DEF TypeOK
    <2>3. ASSUME NEW w \in Workers, NEW e \in Events, Send(w, e) PROVE met' \in SUBSET Deposits
        <3>1. met' \subseteq met \cup {DepositOf[e]}
            BY <2>3, SendMoves
        <3> QED
            BY <2>1, <3>1 DEF TypeOK
    <2> QED
        BY <2>2, <2>3, MetWriters DEF TypeOK
<1>10. auto' \in BOOLEAN
    BY CountWriters DEF TypeOK
<1>11. sends' \in 0..MaxSends
    BY CountWriters, QueueAssumption DEF TypeOK
<1>12. upsets' \in 0..MaxUpsets
    BY CountWriters, QueueAssumption DEF TypeOK
<1> QED
    BY <1>1, <1>2, <1>3, <1>4, <1>5, <1>6, <1>7, <1>8, <1>9, <1>10, <1>11, <1>12
    DEF TypeOK, WorkerRec, QueueRows, ConsumerRec

-----------------------------------------------------------------------------
(* Each kind of step keeps the invariant.                                  *)

\* Which copies of a message are active depends on what the events say.
LEMMA ActiveKept ==
    ASSUME NEW e \in Events,
           \A f \in Events : DepositOf[f] = DepositOf[e] => event'[f].status = event[f].status,
           Active(e) = {}
    PROVE  Active(e)' = {}
BY DEF Active, Copies

LEMMA RequestKeeps ==
    ASSUME TypeOK, Inv, NEW w \in Workers, RequestStep(w), ~Mark(w)
    PROVE  Inv'
<1> USE DEF Inv
<1>1. /\ ~At(w, "idle") /\ E(w) \in Events
      /\ \A v \in Workers \ {w} : worker'[v] = worker[v]
      /\ worker'[w].e = E(w) /\ worker'[w].pc # "idle"
      /\ worker'[w].pc \in {"attach", "enqueue", "reservation"} => worker'[w].p \in Payments
      /\ worker'[w].pc \in MatchPCs => worker[w].pc \in MatchPCs \/ Active(E(w)) = {}
      /\ UNCHANGED <<event, consumer, met, cause>>
    BY RequestMoves
<1>2. \/ /\ UNCHANGED <<queue, spent>>
         /\ worker'[w].pc = "mark" => worker'[w].row.status \notin MatchedStatuses
      \/ Inserts(w) /\ worker'[w].pc = "mark" /\ worker'[w].row.status = "agency_queued"
      \/ Attaches(w) /\ worker'[w].pc = "mark" /\ worker'[w].row.status = "approved"
    BY RequestMoves
<1>t. /\ queue \in [Events -> QueueRows] /\ spent \in [Events -> SUBSET Payments]
      /\ event \in [Events -> EventRows] /\ consumer \in ConsumerRec
    BY DEF TypeOK, QueueRows, ConsumerRec
<1>p. worker[w].pc \in {"attach", "enqueue"} => worker[w].p \in Payments
    BY <1>1 DEF WorkersOK, WorkerOK
<1>i. Inserts(w) => /\ queue[E(w)] = Free /\ queue'[E(w)] # Free /\ queue'[E(w)].pay = worker[w].p
                    /\ ~queue'[E(w)].done
                    /\ \A e \in Events \ {E(w)} : queue'[e] = queue[e]
                    /\ UNCHANGED spent
    <2>1. SUFFICES ASSUME Inserts(w)
                   PROVE  /\ queue[E(w)] = Free /\ queue'[E(w)] # Free /\ queue'[E(w)].pay = worker[w].p
                          /\ ~queue'[E(w)].done
                          /\ \A e \in Events \ {E(w)} : queue'[e] = queue[e]
                          /\ UNCHANGED spent
        OBVIOUS
    <2>2. queue' = [queue EXCEPT ![E(w)] = Reserved(worker[w].p, FALSE)] /\ worker[w].p \in Payments
        BY <2>1, <1>p DEF Inserts, At
    <2>3. queue'[E(w)] = Reserved(worker[w].p, FALSE) /\ \A e \in Events \ {E(w)} : queue'[e] = queue[e]
        BY <1>1, <1>t, <2>2
    <2>4. /\ Reserved(worker[w].p, FALSE) # Free
          /\ Reserved(worker[w].p, FALSE).pay = worker[w].p
        BY <2>2, RowsOfQueue
    <2>5. ~Reserved(worker[w].p, FALSE).done
        BY RowsOfQueue
    <2>6. queue[E(w)] = Free /\ UNCHANGED spent
        BY <2>1 DEF Inserts
    <2> QED
        BY <2>3, <2>4, <2>5, <2>6
<1>j. Attaches(w) => /\ spent'[E(w)] = spent[E(w)] \cup {worker[w].p}
                     /\ \A e \in Events \ {E(w)} : spent'[e] = spent[e]
                     /\ UNCHANGED queue
    BY <1>1, <1>t DEF Attaches, Spend
<1>a. \A e \in Events : Active(e)' = Active(e)
    BY <1>1 DEF Active, Copies
<1>3. WorkersOK'
    <2> SUFFICES ASSUME NEW v \in Workers PROVE WorkerOK(v)'
        BY DEF WorkersOK
    <2>1. CASE v = w
        BY <1>1, <1>a, <2>1 DEF WorkersOK, WorkerOK, E, At, Clean
    <2>2. CASE v # w
        BY <1>1, <1>a, <2>2 DEF WorkersOK, WorkerOK, E, At, Clean
    <2> QED
        BY <2>1, <2>2
<1>4. Alone'
    BY <1>1 DEF Alone, E, At, Clean
\* The message was not used before the request uses it.
<1>5. Clean(E(w)) => /\ event[E(w)].status \notin MatchedStatuses
                     /\ worker[w].pc # "mark" => ~Used(E(w))
    <2>1. Clean(E(w)) => event[E(w)].status \notin MatchedStatuses
        BY <1>1 DEF WorkersOK, WorkerOK, Retryable, MatchedStatuses
    <2>2. ASSUME Clean(E(w)), NEW v \in Workers, NEW s \in MatchedStatuses, Writes(v, E(w), s)
          PROVE  v = w
        BY <1>1, <2>2 DEF Alone, Writes, At
    <2> QED
        BY <1>1, <2>1, <2>2 DEF UsedIsSaid, Writes, At
<1>m. worker[w].pc # "mark"
    BY DEF RequestStep, LookPrior, LookActive, LookManual, Attach, LookPending, Enqueue, EnqueueRaises, LookReservation, At
\* Nor was a copy of it.
<1>6. Clean(E(w)) /\ DepositOf[E(w)] \in Traced /\ worker[w].pc \in MatchPCs
        => \A f \in Events \ {E(w)} : DepositOf[f] = DepositOf[E(w)] => ~Used(f)
    <2> SUFFICES ASSUME Clean(E(w)), DepositOf[E(w)] \in Traced, worker[w].pc \in MatchPCs,
                        NEW f \in Events \ {E(w)}, DepositOf[f] = DepositOf[E(w)], Used(f)
                 PROVE  FALSE
        OBVIOUS
    <2>1. Active(E(w)) = {} /\ f \in Copies(E(w))
        BY <1>1 DEF WorkersOK, WorkerOK, Copies
    <2>2. event[f].status \notin MatchedStatuses
        BY <2>1 DEF Active, ActiveStatuses, MatchedStatuses
    <2>3. PICK v \in Workers, s \in MatchedStatuses : Writes(v, f, s)
        BY <2>2 DEF UsedIsSaid, Clean
    <2>4. v # w /\ ~At(v, "idle") /\ DepositOf[E(v)] = DepositOf[E(w)]
        BY <2>3 DEF Writes, At
    <2> QED
        BY <1>1, <2>4 DEF Alone
<1>u. Inserts(w) \/ Attaches(w) => worker[w].pc \in MatchPCs
    BY DEF Inserts, Attaches, At, MatchPCs
<1>q. /\ \A e \in Events \ {E(w)} : UNCHANGED <<queue[e], spent[e]>>
      /\ UNCHANGED <<queue, spent>> \/ (worker[w].pc \in MatchPCs /\ worker'[w].pc = "mark"
                                       /\ worker'[w].row.status \in MatchedStatuses)
    BY <1>2, <1>i, <1>j, <1>u DEF MatchedStatuses
<1>7. UsedIsSaid'
    <2> SUFFICES ASSUME NEW e \in Events, Clean(e), Used(e)'
                 PROVE  \/ event[e].status \in MatchedStatuses
                        \/ \E v \in Workers : \E s \in MatchedStatuses : Writes(v, e, s)'
        BY <1>1 DEF UsedIsSaid, Clean
    <2>1. CASE UNCHANGED <<queue, spent>> \/ e # E(w)
        <3>1. Used(e)
            BY <1>q, <2>1 DEF Used
        <3>2. \A v \in Workers, s \in MatchedStatuses : Writes(v, e, s) => Writes(v, e, s)'
            BY <1>1, <1>m DEF Writes, At, E
        <3> QED
            BY <3>1, <3>2 DEF UsedIsSaid
    <2>2. CASE e = E(w) /\ worker'[w].pc = "mark" /\ worker'[w].row.status \in MatchedStatuses
        BY <1>1, <2>2 DEF Writes, At, E
    <2> QED
        BY <1>q, <2>1, <2>2
<1>8. UsedOnce'
    <2>1. CASE UNCHANGED <<queue, spent>>
        BY <1>1, <2>1 DEF UsedOnce, Used, Clean
    <2>2. CASE worker[w].pc \in MatchPCs
        BY <1>1, <1>6, <1>q, <2>2 DEF UsedOnce, Used, Clean
    <2> QED
        BY <1>q, <2>1, <2>2
<1>9. SpentOnQueued'
    <2> SUFFICES ASSUME NEW e \in Events, Clean(e)
                 PROVE  /\ \A p, q \in spent'[e] : p = q
                        /\ queue'[e] # Free => spent'[e] \subseteq {queue'[e].pay}
        BY <1>1 DEF SpentOnQueued, Clean
    <2>1. CASE UNCHANGED <<queue[e], spent[e]>>
        BY <2>1 DEF SpentOnQueued
    <2>2. CASE e = E(w) /\ (Inserts(w) \/ Attaches(w))
        <3>1. queue[e] = Free /\ spent[e] = {}
            BY <1>5, <1>m, <2>2 DEF Used
        <3> QED
            BY <1>i, <1>j, <2>2, <3>1
    <2> QED
        BY <1>2, <1>q, <2>1, <2>2
<1>10. ConsumerOK' /\ ReservedWhileExecuted'
    <2>1. consumer.pc # "idle" => Ev \in Events /\ queue[Ev] # Free /\ queue'[Ev] = queue[Ev]
        BY <1>2, <1>i, <1>q DEF ConsumerOK, Attaches
    <2>2. consumer.pc = "idle" => Ev = Nothing
        BY DEF ConsumerOK
    <2> QED
        BY <1>1, <2>1, <2>2 DEF ConsumerOK, ReservedWhileExecuted, Ev, Pay, ExecutePCs
\* No row is closed here, and one that is inserted is open.
<1>c. \A e \in Events : Closed(e)' => Closed(e)
    BY <1>1, <1>2, <1>i, <1>q DEF Closed, Attaches, Ev, On
<1>f. \A e \in Events : queue[e] # Free => queue'[e] # Free
    BY <1>2, <1>i, <1>q DEF Attaches
<1>11. InsertedOnce'
    <2> SUFFICES ASSUME NEW v \in Workers, NEW e \in Events, Writes(v, e, "agency_queued")'
                 PROVE  /\ queue'[e] # Free /\ ~Closed(e)'
                        /\ event[e].status # "agency_queued"
                        /\ Ev = e => consumer.pc \notin ExecutePCs
                        /\ \A u \in Workers : Writes(u, e, "agency_queued")' => u = v
        BY <1>1 DEF InsertedOnce, Ev
    <2>1. \A u \in Workers \ {w} : \A f : Writes(u, f, "agency_queued")' <=> Writes(u, f, "agency_queued")
        BY <1>1 DEF Writes, At, E
    <2>2. CASE v # w
        <3>1. Writes(v, e, "agency_queued") /\ queue[e] # Free
            BY <2>1, <2>2 DEF InsertedOnce
        <3>2. ~Writes(w, e, "agency_queued")'
            BY <1>1, <1>2, <3>1 DEF Writes, At, E, Inserts, MatchedStatuses
        <3> QED
            BY <1>c, <1>f, <2>1, <3>1, <3>2 DEF InsertedOnce
    <2>3. CASE v = w
        <3>1. e = E(w) /\ Inserts(w)
            BY <1>1, <1>2, <2>3 DEF Writes, At, E, MatchedStatuses
        <3>2. queue[e] = Free /\ queue'[e] # Free /\ ~queue'[e].done
            BY <1>i, <3>1
        <3>3. Ev = e => consumer.pc \notin ExecutePCs
            BY <3>2 DEF ConsumerOK, ExecutePCs
        <3>4. ~Closed(e)' /\ event[e].status # "agency_queued"
            BY <3>2 DEF Closed, QueuedHasRow
        <3> QED
            BY <2>1, <2>3, <3>2, <3>3, <3>4 DEF InsertedOnce
    <2> QED
        BY <2>2, <2>3
<1>12. QueuedHasRow'
    BY <1>1, <1>c, <1>f DEF QueuedHasRow
<1> QED
    BY <1>3, <1>4, <1>7, <1>8, <1>9, <1>10, <1>11, <1>12 DEF Inv

\* The last step of a request: what it has done is said.
LEMMA MarkKeeps ==
    ASSUME TypeOK, Inv, NEW w \in Workers, Mark(w)
    PROVE  Inv'
<1> USE DEF Inv
<1> DEFINE e0 == E(w)
<1>1. /\ At(w, "mark") /\ e0 \in Events
      /\ worker'[w].pc = "idle" /\ \A v \in Workers \ {w} : worker'[v] = worker[v]
      /\ event'[e0] = worker[w].row /\ \A e \in Events \ {e0} : event'[e] = event[e]
      /\ UNCHANGED <<queue, consumer, spent, met, cause>>
    BY MarkMoves DEF TypeOK
<1>2. Clean(e0) => event[e0].status \in Retryable
    BY <1>1 DEF WorkersOK, WorkerOK, At
\* No other request is about the deposit.
<1>3. \A v \in Workers \ {w} :
          ~At(v, "idle") /\ Clean(E(v)) => E(v) # e0 /\ e0 \notin Copies(E(v))
    BY <1>1 DEF Alone, At, Copies, Clean
<1>4. \A v \in Workers \ {w} : \A e, s : Writes(v, e, s)' <=> Writes(v, e, s)
    BY <1>1 DEF Writes, At, E
<1>5. \A e, s : ~Writes(w, e, s)'
    BY <1>1 DEF Writes, At
<1>6. WorkersOK'
    <2> SUFFICES ASSUME NEW v \in Workers, v # w, ~At(v, "idle") PROVE WorkerOK(v)'
        BY <1>1 DEF WorkersOK, WorkerOK, At
    <2>1. WorkerOK(v) /\ worker'[v] = worker[v] /\ E(v) \in Events /\ E(v)' = E(v)
        BY <1>1 DEF WorkersOK, WorkerOK, E
    <2>2. Clean(E(v)) => Active(E(v))' = Active(E(v)) /\ event'[E(v)] = event[E(v)]
        BY <1>1, <1>3, <2>1 DEF Active, Copies
    <2>3. Clean(E(v))' <=> Clean(E(v))
        BY <1>1, <2>1 DEF Clean
    <2> QED
        BY <2>1, <2>2, <2>3 DEF WorkerOK, At
<1>7. Alone'
    BY <1>1 DEF Alone, E, At, Clean
<1>8. UsedIsSaid'
    <2> SUFFICES ASSUME NEW e \in Events, Clean(e), Used(e)
                 PROVE  \/ event'[e].status \in MatchedStatuses
                        \/ \E v \in Workers : \E s \in MatchedStatuses : Writes(v, e, s)'
        BY <1>1 DEF UsedIsSaid, Clean, Used
    <2>1. CASE event[e].status \in MatchedStatuses
        BY <1>1, <1>2, <2>1 DEF Retryable, MatchedStatuses
    <2>2. ASSUME NEW v \in Workers, NEW s \in MatchedStatuses, Writes(v, e, s)
          PROVE  \/ event'[e].status \in MatchedStatuses
                 \/ Writes(v, e, s)'
        BY <1>1, <1>4, <2>2 DEF Writes
    <2> QED
        BY <2>1, <2>2 DEF UsedIsSaid
<1>9. UsedOnce' /\ SpentOnQueued'
    BY <1>1 DEF UsedOnce, SpentOnQueued, Clean, Used
<1>10. ConsumerOK'
    BY <1>1 DEF ConsumerOK, Ev
<1>11. ReservedWhileExecuted'
    <2> SUFFICES ASSUME consumer.pc \in ExecutePCs, Clean(Ev), event[Ev] = Row("agency_queued", Pay)
                 PROVE  event'[Ev] = event[Ev]
        BY <1>1 DEF ReservedWhileExecuted, Ev, Pay, ExecutePCs, Clean
    <2>1. Ev # e0 /\ Ev \in Events
        BY <1>2, RowsOfEvents DEF Retryable, ConsumerOK, ExecutePCs
    <2> QED
        BY <1>1, <2>1
<1>12. InsertedOnce'
    <2> SUFFICES ASSUME NEW v \in Workers, NEW e \in Events, v # w, Writes(v, e, "agency_queued")
                 PROVE  /\ queue[e] # Free /\ ~Closed(e)
                        /\ event'[e].status # "agency_queued"
                        /\ Ev = e => consumer.pc \notin ExecutePCs
                        /\ \A u \in Workers : Writes(u, e, "agency_queued") => u = v
        BY <1>1, <1>4, <1>5 DEF InsertedOnce, Closed, Ev, On
    <2>1. event[e].status # "agency_queued" /\ ~Writes(w, e, "agency_queued")
        BY DEF InsertedOnce
    <2>2. event'[e].status # "agency_queued"
        BY <1>1, <2>1 DEF Writes
    <2> QED
        BY <2>2 DEF InsertedOnce
<1>13. QueuedHasRow'
    <2> SUFFICES ASSUME NEW e \in Events, event'[e].status = "agency_queued"
                 PROVE  queue[e] # Free /\ ~Closed(e)
        BY <1>1 DEF QueuedHasRow, Closed, Ev, On
    <2>1. event[e].status = "agency_queued" \/ Writes(w, e, "agency_queued")
        BY <1>1 DEF Writes
    <2> QED
        BY <2>1 DEF QueuedHasRow, InsertedOnce
<1> QED
    BY <1>6, <1>7, <1>8, <1>9, <1>10, <1>11, <1>12, <1>13

\* A request that is cut short spoils its deposit, and no other.
LEMMA DiesKeeps ==
    ASSUME TypeOK, Inv, NEW w \in Workers, Dies(w)
    PROVE  Inv'
<1> USE DEF Inv
<1>1. /\ ~At(w, "idle") /\ E(w) \in Events
      /\ worker'[w].pc = "idle" /\ \A v \in Workers \ {w} : worker'[v] = worker[v]
      /\ met' = met \cup {DepositOf[E(w)]}
      /\ UNCHANGED <<event, queue, consumer, spent, cause>>
    BY DiesMoves
<1>2. \A v \in Workers \ {w} : \A e, s : Writes(v, e, s)' <=> Writes(v, e, s)
    BY <1>1 DEF Writes, At, E
<1>3. \A e, s : ~Writes(w, e, s)'
    BY <1>1 DEF Writes, At
<1>4. \A e : Clean(e)' => Clean(e) /\ DepositOf[e] # DepositOf[E(w)]
    BY <1>1 DEF Clean
<1>5. WorkersOK'
    <2>1. \A e \in Events : Active(e)' = Active(e)
        BY <1>1 DEF Active, Copies
    <2> QED
        BY <1>1, <2>1 DEF WorkersOK, WorkerOK, At, E, Clean
<1>6. Alone'
    BY <1>1 DEF Alone, E, At, Clean
<1>7. UsedIsSaid'
    <2> SUFFICES ASSUME NEW e \in Events, Clean(e)', Used(e)
                 PROVE  \/ event[e].status \in MatchedStatuses
                        \/ \E v \in Workers : \E s \in MatchedStatuses : Writes(v, e, s)'
        BY <1>1 DEF UsedIsSaid, Used
    <2>1. \A s : ~Writes(w, e, s)
        BY <1>4 DEF Writes
    <2> QED
        BY <1>2, <1>4, <2>1 DEF UsedIsSaid
<1>8. UsedOnce' /\ SpentOnQueued'
    BY <1>1 DEF UsedOnce, SpentOnQueued, Clean, Used
<1>9. ConsumerOK' /\ ReservedWhileExecuted'
    BY <1>1 DEF ConsumerOK, ReservedWhileExecuted, Ev, Pay
<1>10. InsertedOnce' /\ QueuedHasRow'
    BY <1>1, <1>2, <1>3 DEF InsertedOnce, QueuedHasRow, Closed, Ev, On
<1> QED
    BY <1>5, <1>6, <1>7, <1>8, <1>9, <1>10

\* A request begins: another one that is at work on the deposit spoils it.
LEMMA SendKeeps ==
    ASSUME TypeOK, Inv, NEW w \in Workers, NEW e0 \in Events, Send(w, e0)
    PROVE  Inv'
<1> USE DEF Inv
<1>1. /\ At(w, "idle")
      /\ worker'[w].pc = "prior" /\ worker'[w].e = e0
      /\ \A v \in Workers \ {w} : worker'[v] = worker[v]
      /\ event'[e0].status \in Retryable
      /\ event' = event \/ event[e0].status = "none"
      /\ \A f \in Events \ {e0} : event'[f] = event[f]
      /\ met \subseteq met' /\ met' \subseteq met \cup {DepositOf[e0]}
      /\ \A v \in Workers : ~At(v, "idle") /\ DepositOf[E(v)] = DepositOf[e0] => DepositOf[e0] \in met'
      /\ UNCHANGED <<queue, consumer, spent, cause>>
    BY SendMoves
<1>2. \A v \in Workers : \A e, s : Writes(v, e, s)' <=> Writes(v, e, s)
    BY <1>1 DEF Writes, At, E
<1>3. \A e : Clean(e)' => Clean(e)
    BY <1>1 DEF Clean
\* An event that is not recorded yet is not reserved.
<1>4. /\ \A e \in Events : event'[e].status = "agency_queued" => event[e].status = "agency_queued"
      /\ \A e \in Events : event[e].status \in MatchedStatuses => event'[e] = event[e]
    BY <1>1 DEF Retryable, MatchedStatuses
<1>5. WorkersOK'
    <2>1. WorkerOK(w)'
        BY <1>1 DEF WorkerOK, At, E, Clean, MatchPCs
    <2>2. ASSUME NEW v \in Workers \ {w}, ~At(v, "idle") PROVE WorkerOK(v)'
        <3>1. WorkerOK(v) /\ E(v) \in Events /\ E(v)' = E(v)
            BY <1>1, <2>2 DEF WorkersOK, WorkerOK, E
        <3>2. Clean(E(v))' => DepositOf[E(v)] # DepositOf[e0]
            BY <1>1, <2>2, <3>1 DEF Clean
        <3>3. Clean(E(v))' => Active(E(v))' = Active(E(v)) /\ event'[E(v)] = event[E(v)]
            BY <1>1, <3>1, <3>2 DEF Active, Copies
        <3> QED
            BY <1>1, <1>3, <3>1, <3>3 DEF WorkerOK, At
    <2> QED
        BY <1>1, <2>1, <2>2 DEF WorkersOK, WorkerOK, At
<1>6. Alone'
    BY <1>1 DEF Alone, E, At, Clean
<1>7. UsedIsSaid'
    BY <1>1, <1>2, <1>3, <1>4 DEF UsedIsSaid, Used
<1>8. UsedOnce' /\ SpentOnQueued'
    BY <1>1, <1>3 DEF UsedOnce, SpentOnQueued, Used
<1>9. ConsumerOK'
    BY <1>1 DEF ConsumerOK, Ev
<1>10. ReservedWhileExecuted'
    <2> SUFFICES ASSUME consumer.pc \in ExecutePCs, Clean(Ev)
                 PROVE  event'[Ev] = Row("agency_queued", Pay)
        BY <1>1, <1>3 DEF ReservedWhileExecuted, Ev, Pay, ExecutePCs, Clean
    <2>1. event[Ev] = Row("agency_queued", Pay) /\ Ev \in Events
        BY DEF ReservedWhileExecuted, ConsumerOK, ExecutePCs, Clean
    <2> QED
        BY <1>4, <2>1, RowsOfEvents DEF MatchedStatuses
<1>11. InsertedOnce' /\ QueuedHasRow'
    BY <1>1, <1>2, <1>4 DEF InsertedOnce, QueuedHasRow, Closed, Ev, On
<1> QED
    BY <1>5, <1>6, <1>7, <1>8, <1>9, <1>10, <1>11

\* The worker of the queue: it executes what its event says.
LEMMA ConsumerKeeps ==
    ASSUME TypeOK, Inv, ConsumerStep
    PROVE  Inv'
<1> USE DEF Inv
<1>1. /\ UNCHANGED <<worker, met>>
      /\ queue' \in [Events -> QueueRows]
      /\ \A e \in Events : (queue'[e] = Free <=> queue[e] = Free) /\ queue'[e].pay = queue[e].pay
    BY ConsumerKeepsRows
<1>2. /\ ConsumerOK'
      /\ (consumer.pc \in ExecutePCs)' =>
             /\ Ev' = Ev
             /\ consumer.pc \in ExecutePCs \/ event[Ev] = Row("agency_queued", Pay)
    BY ConsumerMoves
<1>3. \/ event' = event
      \/ On("close") /\ Stop /\ event' = [event EXCEPT ![Ev] = Row("approved", Pay)]
    BY ConsumerMoves
<1>4. \/ spent' = spent
      \/ consumer.pc \in ExecutePCs /\ Spend(Ev, Pay)
    BY ConsumerMoves
<1>t. /\ event \in [Events -> EventRows] /\ spent \in [Events -> SUBSET Payments]
      /\ consumer.pc \in ExecutePCs => Ev \in Events /\ queue[Ev] # Free
    BY DEF TypeOK, ConsumerOK, ExecutePCs
<1>5. /\ \A e \in Events \ {Ev} : event'[e] = event[e] /\ spent'[e] = spent[e]
      /\ spent'[Ev] = spent[Ev] \/ (consumer.pc \in ExecutePCs /\ spent'[Ev] = spent[Ev] \cup {Pay})
      /\ \/ event'[Ev] = event[Ev]
         \/ On("close") /\ Stop /\ event'[Ev] = Row("approved", Pay)
    BY <1>3, <1>4, <1>t DEF Spend, On, ExecutePCs
<1>6. /\ \A e \in Events : Clean(e)' <=> Clean(e)
      /\ \A v \in Workers : \A e, s : Writes(v, e, s)' <=> Writes(v, e, s)
    BY <1>1 DEF Clean, Writes, At, E
\* Only a reserved event of a clean deposit is written.
<1>7. /\ \A e \in Events : Clean(e) /\ event'[e] # event[e] =>
             event[e].status = "agency_queued" /\ event'[e].status = "approved"
      /\ \A e \in Events : event'[e].status = "agency_queued" => event[e].status = "agency_queued"
    <2>1. ASSUME event'[Ev] # event[Ev]
          PROVE  Ev \in Events /\ event'[Ev].status = "approved"
                 /\ (Clean(Ev) => event[Ev].status = "agency_queued")
        BY <1>5, <1>t, <2>1, RowsOfEvents DEF ReservedWhileExecuted, On, ExecutePCs, Clean
    <2> QED
        BY <1>5, <2>1
<1>8. WorkersOK'
    <2> SUFFICES ASSUME NEW v \in Workers, ~At(v, "idle") PROVE WorkerOK(v)'
        BY <1>1 DEF WorkersOK, WorkerOK, At
    <2>1. WorkerOK(v) /\ worker'[v] = worker[v] /\ E(v) \in Events /\ E(v)' = E(v)
        BY <1>1 DEF WorkersOK, WorkerOK, E
    <2>2. Clean(E(v))' <=> Clean(E(v))
        BY <1>6, <2>1
    <2>3. Clean(E(v)) => event'[E(v)] = event[E(v)]
        BY <1>7, <2>1 DEF WorkerOK, Retryable
    <2>4. Clean(E(v)) /\ Active(E(v)) = {} => Active(E(v))' = {}
        BY <1>7, <2>1 DEF Active, Copies, ActiveStatuses, Clean
    <2> QED
        BY <2>1, <2>2, <2>3, <2>4 DEF WorkerOK, At
<1>9. Alone'
    BY <1>1 DEF Alone, E, At, Clean
\* A payment is spent on a message that has a row already.
<1>10. \A e \in Events : Used(e)' <=> Used(e)
    BY <1>1, <1>5, <1>t DEF Used
<1>11. UsedIsSaid'
    BY <1>6, <1>7, <1>10 DEF UsedIsSaid, MatchedStatuses
<1>12. UsedOnce'
    BY <1>6, <1>10 DEF UsedOnce
<1>13. SpentOnQueued'
    <2> SUFFICES ASSUME NEW e \in Events, Clean(e)
                 PROVE  /\ \A p, q \in spent'[e] : p = q
                        /\ queue[e] # Free => spent'[e] \subseteq {queue[e].pay}
        BY <1>1, <1>6 DEF SpentOnQueued
    <2>1. CASE spent'[e] = spent[e]
        BY <2>1 DEF SpentOnQueued
    <2>2. CASE e = Ev /\ consumer.pc \in ExecutePCs /\ spent'[e] = spent[e] \cup {Pay}
        BY <1>t, <2>2 DEF SpentOnQueued, Pay
    <2> QED
        BY <1>5, <2>1, <2>2
<1>14. ReservedWhileExecuted'
    <2> SUFFICES ASSUME (consumer.pc \in ExecutePCs)', Clean(Ev)
                 PROVE  event'[Ev] = Row("agency_queued", queue'[Ev].pay)
        BY <1>1, <1>2 DEF ReservedWhileExecuted, Ev, Pay, ExecutePCs, Clean
    <2>1. event[Ev] = Row("agency_queued", Pay)
        BY <1>2 DEF ReservedWhileExecuted, ExecutePCs, Clean
    <2>2. Ev \in Events
        BY <1>2 DEF ConsumerOK, ExecutePCs, Ev
    <2>3. event'[Ev] = event[Ev]
        BY <1>5 DEF Stop, Rest, ExecutePCs
    <2> QED
        BY <1>1, <2>1, <2>2, <2>3 DEF Pay
<1>15. \A e \in Events : Closed(e)' => Closed(e) \/ event'[e].status = "approved"
    BY ConsumerCloses, <1>t, RowsOfEvents DEF On, ExecutePCs
<1>16. InsertedOnce'
    <2> SUFFICES ASSUME NEW v \in Workers, NEW e \in Events, Writes(v, e, "agency_queued")
                 PROVE  /\ queue'[e] # Free /\ ~Closed(e)'
                        /\ event'[e].status # "agency_queued"
                        /\ Ev' = e => consumer'.pc \notin ExecutePCs
                        /\ \A u \in Workers : Writes(u, e, "agency_queued") => u = v
        BY <1>6 DEF InsertedOnce, Ev
    <2>1. /\ queue[e] # Free /\ ~Closed(e) /\ event[e].status # "agency_queued"
          /\ Ev = e => consumer.pc \notin ExecutePCs
          /\ \A u \in Workers : Writes(u, e, "agency_queued") => u = v
        BY DEF InsertedOnce
    <2>2. Ev' = e => consumer'.pc \notin ExecutePCs
        BY <1>2, <2>1, RowsOfEvents
    <2>3. event'[e] = event[e]
        BY <1>5, <2>1 DEF On, ExecutePCs
    <2>4. ~Closed(e)'
        <3>1. ~(Ev = e /\ On("close"))
            BY <2>1 DEF On, ExecutePCs
        <3> QED
            BY <2>1, <3>1, ConsumerCloses
    <2> QED
        BY <1>1, <1>7, <2>1, <2>2, <2>3, <2>4
<1>17. QueuedHasRow'
    BY <1>1, <1>7, <1>15 DEF QueuedHasRow
<1> QED
    BY <1>2, <1>8, <1>9, <1>11, <1>12, <1>13, <1>14, <1>16, <1>17

LEMMA OthersKeep ==
    ASSUME Inv, UNCHANGED <<event, queue, worker, consumer, history>>
    PROVE  Inv'
<1> USE DEF Inv, history
<1>1. \A e : (Clean(e)' <=> Clean(e)) /\ (Used(e)' <=> Used(e)) /\ (Closed(e)' <=> Closed(e))
    BY DEF Clean, Used, Closed, Ev, On
<1>2. \A w, e, s : Writes(w, e, s)' <=> Writes(w, e, s)
    BY DEF Writes, At, E
<1>3. \A e : Active(e)' = Active(e)
    BY DEF Active, Copies
<1>4. WorkersOK' /\ Alone'
    BY <1>3 DEF WorkersOK, WorkerOK, Alone, At, E, Clean
<1>5. UsedIsSaid' /\ UsedOnce' /\ SpentOnQueued'
    BY <1>1, <1>2 DEF UsedIsSaid, UsedOnce, SpentOnQueued
<1>6. ConsumerOK' /\ ReservedWhileExecuted'
    BY DEF ConsumerOK, ReservedWhileExecuted, Ev, Pay
<1>7. InsertedOnce' /\ QueuedHasRow'
    BY <1>1, <1>2 DEF InsertedOnce, QueuedHasRow, Ev
<1> QED
    BY <1>4, <1>5, <1>6, <1>7

LEMMA InitInv == Init => TypeOK /\ Inv
<1> SUFFICES ASSUME Init PROVE TypeOK /\ Inv
    OBVIOUS
<1> USE DEF Init
<1>1. Idle \in WorkerRec /\ NoRow \in EventRows /\ Free \in QueueRows /\ NoRow.status = "none"
    BY IdleIsWorker, RowsOfEvents, RowsOfQueue DEF NoRow, Row
<1>2. Rest \in ConsumerRec /\ Rest.pc = "idle" /\ Rest.e = Nothing
    BY DEF Rest, ConsumerRec, ConsumerPCs
<1>3. sends \in 0..MaxSends /\ upsets \in 0..MaxUpsets
    BY QueueAssumption
<1>4. TypeOK
    BY <1>1, <1>2, <1>3 DEF TypeOK, WorkerRec, ConsumerRec, QueueRows, PaymentStatuses
<1>5. \A w \in Workers : At(w, "idle")
    BY IdleIsWorker DEF At
<1>6. \A e \in Events : ~Used(e) /\ event[e].status = "none"
    BY <1>1 DEF Used
<1>7. WorkersOK /\ Alone
    BY <1>5 DEF WorkersOK, WorkerOK, Alone
<1>8. UsedIsSaid /\ UsedOnce /\ SpentOnQueued
    BY <1>6 DEF UsedIsSaid, UsedOnce, SpentOnQueued, Used
<1>9. ConsumerOK /\ ReservedWhileExecuted
    BY <1>2 DEF ConsumerOK, ReservedWhileExecuted, Ev
<1>10. InsertedOnce /\ QueuedHasRow
    BY <1>5, <1>6 DEF InsertedOnce, QueuedHasRow, Writes, At
<1> QED
    BY <1>4, <1>7, <1>8, <1>9, <1>10 DEF Inv

LEMMA StepInv == TypeOK /\ Inv /\ [Next]_vars => TypeOK' /\ Inv'
<1> SUFFICES ASSUME TypeOK, Inv, [Next]_vars PROVE TypeOK' /\ Inv'
    OBVIOUS
<1>1. TypeOK'
    BY TypeStep DEF Inv
<1>2. ASSUME NEW w \in Workers, NEW e \in Events, Send(w, e) PROVE Inv'
    BY <1>2, SendKeeps
<1>3. ASSUME NEW w \in Workers, RequestStep(w) PROVE Inv'
    BY <1>3, RequestKeeps, MarkKeeps
<1>4. ASSUME NEW w \in Workers, Dies(w) PROVE Inv'
    BY <1>4, DiesKeeps
<1>5. CASE (\E e \in Events : Take(e)) \/ QueueStep \/ Crash
    BY <1>1, <1>5, ConsumerKeeps DEF ConsumerStep
<1>6. CASE \/ \E p \in Payments : CreatePayment(p)
           \/ \E p \in Payments : \E target \in {"approved", "rejected"} : Button(p, target)
           \/ SwitchAuto
           \/ UNCHANGED vars
    BY <1>1, <1>6, OthersWrite, OthersKeep
<1> QED
    BY <1>1, <1>2, <1>3, <1>4, <1>5, <1>6 DEF Next

LEMMA Invariant == Spec => [](TypeOK /\ Inv)
BY InitInv, StepInv, PTL DEF Spec

-----------------------------------------------------------------------------
\* Payments, events, rows of the queue, requests and worker have the declared
\* shape, whatever overlaps, raises or is cut short.
THEOREM QueueTypeCorrect == Spec => []TypeOK
BY Invariant, PTL

\* From the look at the event to the end of the approval no request, and no
\* other copy of the message, takes the reservation away.
THEOREM QueueReservedWhileExecuted == Spec => []ReservedWhileExecuted
BY Invariant, PTL DEF Inv

\* A message that says it is reserved has a row to be taken, or there is a
\* reason on record why that row was closed.
THEOREM QueueNoForgottenReservation == Spec => []NoForgottenReservation
<1>1. TypeOK /\ Inv => NoForgottenReservation
    BY DEF Inv, QueuedHasRow, Closed, NoForgottenReservation
<1> QED
    BY <1>1, Invariant, PTL

LEMMA SpentOnOne ==
    ASSUME TypeOK, Inv, NEW d \in Traced \ met
    PROVE  Cardinality(SpentOn(d)) <= 1
<1>1. \A p, q \in SpentOn(d) : p = q
    <2> SUFFICES ASSUME NEW e \in Events, NEW f \in Events, DepositOf[e] = d, DepositOf[f] = d,
                        NEW p \in spent[e], NEW q \in spent[f]
                 PROVE  p = q
        BY DEF SpentOn
    <2>1. Clean(e) /\ Used(e) /\ Used(f)
        BY DEF Clean, Used
    <2>2. e = f
        BY <2>1 DEF Inv, UsedOnce
    <2> QED
        BY <2>1, <2>2 DEF Inv, SpentOnQueued
<1>2. CASE SpentOn(d) = {}
    BY <1>2, FS_EmptySet
<1>3. ASSUME NEW p \in SpentOn(d) PROVE Cardinality(SpentOn(d)) <= 1
    <2>1. SpentOn(d) = {p}
        BY <1>1, <1>3
    <2> QED
        BY <2>1, FS_Singleton
<1> QED
    BY <1>2, <1>3

\* However often, and under however many ids, the message of a deposit is sent,
\* the deposit pays for one payment at most, unless two requests for it
\* overlapped or one was cut short.
THEOREM QueueDepositSpentOnce == Spec => []DepositSpentOnce
<1>1. TypeOK /\ Inv => DepositSpentOnce
    BY SpentOnOne DEF DepositSpentOnce
<1> QED
    BY <1>1, Invariant, PTL
=============================================================================
