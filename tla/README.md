# Verification of Hiddify-SellBot

Hiddify-SellBot sells VPN subscriptions through four Telegram bots. This
directory keeps TLA+ models of the parts of it that move money and services,
the TLC runs that check them on small instances, and TLAPS proofs of their main
safety properties for every instance.

Paths below are relative to the repository (`src/`).

## 1. Inventory

### Processes and stores

| process | code | writes |
|---|---|---|
| AdminBot | `AdminBot/` | every database, `servers.json`, plan files, env files |
| UserBot  | `UserBot/`, hosts the HTTP threads of `Shared/sub_http_server.py` | `hiddify_sellbot.db`, `agency.db`, `agent_bot.db`, `customer_bot.db` |
| AgentBot | `AgentBot/` | `agent_bot.db`, `agency.db`, `customer_bot.db` |
| CustomerBot | `CustomerBot/` | `customer_bot.db`, `agency.db` |
| panels   | remote (Hiddify, 3x-ui, Marzban, xnet) | the VPN users themselves |

A bot handles one Telegram update at a time (no `concurrent_updates`), but its
background jobs run on the same event loop and interleave with a handler at
every `await`; the HTTP threads of UserBot are real threads; the four bots are
separate processes on the same SQLite files. One SQLite transaction is atomic
(`BEGIN IMMEDIATE`, WAL). **No transaction spans two files or a file and a
panel**, so every sale is a saga, and every bot can be killed between two of its
steps: the service units have `Restart=always` (`install.sh:939,967,995,1023`).

### Components

| component | state | operations | what is hard | what makes it correct |
|---|---|---|---|---|
| Representative wallet (`Shared/agent_db.py`) | `agent_wallets`, `agent_transactions` | charge, deduct, refund, and their keyed forms | retries after a crash, two processes spending at once | balance = sum of rows, no overdraft, one row per key |
| Representative top-up (`Shared/agent_wallet_payments.py`, `AdminBot/agencies.py`) | `agent_payments` | approve from SMS, approve, reject, recover | threads, buttons and recovery on one row; crash between claim, credit and finish | credited once, decided once, one deposit for one payment |
| Customer payment (`AgentBot/handlers/settings_customer_payments.py`, `CustomerBot/handlers/receipt.py`) | `customer_payments`, `customer_orders`, SMS queue, services | receipt, approve by button, approve from queue, refund, recover, reject, reopen | saga over three stores and a panel, two tasks on one loop, another process rewriting the row | paid before delivered, delivered once, what is refunded is not delivered |
| Central SMS webhook and end-user payments (`Shared/sub_http_server.py`, `Shared/userbot_db.py`) | `userbot_payments`, user wallets, `sms_webhook_events`, referral rewards | match and approve, late match, approve / reject / reopen, direct purchase | unlocked threads, two databases competing for one bank message | a deposit is spent once; wallet follows status |
| Representative-scoped SMS webhook | events, `customer_payment_sms_queue` | match and reserve, consume, retry | queue and event status are in two databases | a reserved event is used once and is not lost |
| End-user purchase and renewal (`UserBot/main.py`, `UserBot/delivery.py`) | wallet, services, node mappings | buy, renew, deliver after payment, roll back | panel calls on several nodes, each may fail | a user pays for what is delivered |
| Representative purchase and renewal (`AgentBot/services/subscription_service.py`) | wallet, services, the wizard in memory | buy, renew, delete, refund | keyed and unkeyed debits; crash between debit and delivery; both bots on one service | the same; what was taken and not used stays in reach |
| Customer purchase and renewal (`CustomerBot/services.py`) | – | `buy_service`, `renew_service` | – | neither function has a caller at this commit: customers buy by card |
| Usage enforcers (`Shared/service_enforcer.py`, `Shared/agent_enforcer.py`) | usage per node, frozen nodes | sample, accumulate, disable | panels that reset or lose counters; a renewal during a cycle | usage never goes back; a renewed service is not disabled |
| Vouchers, discount codes, referral, slot claims | counters, one-time rows | redeem, use, claim, grant, revoke | concurrent redemption at the limit | never more uses than allowed |
| Server store, plan files (`Shared/database.py`, `Shared/plans_storage.py`) | JSON files | read-modify-write | two processes | no lost update |
| Env file and backups (`Shared/secure_io.py`, `Shared/backup_integrity.py`) | files | replace atomically, validate and restore | crash in the middle | old or new, never half |
| Panel clients (`Shared/multi_panel.py`, `hiddify_api.py`, `xui_*.py`, `xnet_api.py`) | none local | create, patch, delete, recover identity | lost answers | the user is found again, not made twice |
| Node provisioning, health (`Shared/node_ops.py`, `AdminBot/nodes.py`) | node status | provision, monitor, reboot | partial failure | – |
| Subscription server, links, reports, menus, tickets, installer | – | rendering | – | not modelled, see section 7 |

`PROJECT.json` lists the same components with their status, and under
`hazards` every place where this code can go wrong in a way a unit test would
hardly reach, with the property that would catch it or the reason there is none
yet.

## 2. Modules

| module | models | relation |
|---|---|---|
| `AgentWallet` | the wallet tables; one operator per transaction | used by the three sagas of representatives |
| `TopupPromise` | what a representative is promised about a top-up | abstract specification |
| `WalletTopup` | the top-up saga: webhook threads, AdminBot, recovery | EXTENDS `AgentWallet`, implements `TopupPromise` |
| `CustomerPayment` | the customer payment saga: two tasks, recovery, CustomerBot, panel | EXTENDS `AgentWallet` |
| `AgentPurchase` | purchases, renewals and deletions of a representative, by both bots | EXTENDS `AgentWallet` |
| `SmsWebhook` | the central bank-message webhook, late receipts, AdminBot | ends where `UserPurchase` begins: an approved payment |
| `AgentSmsQueue` | the webhook of one representative, the reservation queue, its worker | ends where `CustomerPayment` begins: a queued message |
| `UserPurchase` | what a user pays for and what is delivered: orders, direct purchases, their retries | |
| `UsageEnforcer` | usage counters, the enforcer cycle, refresh and renewal on the panels | continues a renewal of `AgentPurchase` |
| `AgentWalletProofs`, `WalletTopupProofs`, `CustomerPaymentProofs`, `AgentPurchaseProofs` | theorems | EXTEND their module, the last three also `AgentWalletProofs` |
| `SmsWebhookProofs`, `AgentSmsQueueProofs`, `UserPurchaseProofs`, `UsageEnforcerProofs` | theorems | EXTEND their module |
| `MC*` | constants, bounds and symmetry for TLC | |

The components meet at rows: `SmsWebhook` and `AgentSmsQueue` take one step
for an approval that `CustomerPayment` and `UserPurchase` take apart, and these
take one step (`Enqueue`, `SmsApprove`) for everything the webhook does before.
Composed in one module they would have no property that needs more than the
row they meet at, and no instance TLC could finish.

In all modules an action is one database transaction or one remote call with the
Python code up to the next one. `Mutant_*` definitions are plausible bugs in the
definition below them; `PROJECT.json` names the run and the property that finds
each.

### AgentWallet

`balance` is `agent_wallets.balance`, `ledger` the rows of
`agent_transactions` in insertion order. `TransactionOnce` is
`_wallet_transaction_once` with its four outcomes as predicates
(`Replayed`, `Postable`, `Refused`, `Clashing`), because its callers tell them
apart; `Credit` and `Deduct` are the unkeyed operations. `Post` is the pair of
statements every path shares.

### WalletTopup

* `status`, `claim`, `event` are the columns `status`, `processing_key`,
  `sms_event_id` of `agent_payments`. The key is `agent-wallet-payment:<id>`,
  so it is modelled by the payment itself and `Keys = Payments`.
* `worker[w]` is one call of `approve_wallet_charge_from_sms`: its program
  counter, arguments, and the row it read in `ReadPayment` (`seen`), which is
  used by the three branches `AttachEvent`, `JoinClaim`, `ClaimForEvent` and
  may be stale by then. `Fits` says which messages match which payments.
* `admin` is AdminBot: `approve_agent_payment` (`AdminClaim` ... `AdminRelease`),
  `reject_agent_payment`, and `recover_processing_agent_wallet_payments`
  (`AdminRestart`, `RecoverLook`, `RecoverSettle`, `RecoverDone`), which runs in
  `main` at start-up and when a row cannot be finished. The ids to recover are
  read once (`todo`).
* `funded` is history: the message, or `Manual`, by which a payment was credited.
* `Decided(p)` is what the representative has seen of a payment; the refinement maps the
  promise's `decision` to it.
* `Faults` lets a database call of a `try` block raise (SQLite "database is
  locked"); `OverlappingRecovery` lets a recovery run while a worker is under
  way, which nothing in the code prevents. `topup_saga` has both; `topup_quiet`,
  for the promise that a payment is decided once from the outside, has neither.

### CustomerPayment

* Rows: `status`, `claim` (a random key, modelled as payment and attempt
  number), `orderDone`, `queued`; services: `created` (keys of created services),
  `lastKey` (the last renewal key of a service); `panel` and `renewed` are what
  was really done, kept as history.
* AgentBot is `bot` and its two tasks. `Runs(t)` states the event loop: a task
  moves only when the other one is at an `await` (`Waiting`). The steps of
  `_approve_payment` and `_auto_approve_from_sms_webhook` are the actions of
  `TaskStep`; both tasks share them, and the places where they differ (the worker
  notifies the customer before delivery; only the handler resets the order) are
  in the actions. A renewal that the books refuse (`StoreRefused`: the enforcer took
  the last day of the service meanwhile) and a refund that raises (`RefundRaises`)
  end with the payment left in processing for a person to look at.
* The recovery is run by the process at start-up and by a task that could not
  finish its row; one row is one action because the code between its reads and
  its update does not wait and AgentBot is the only one that works on such rows.
* CustomerBot is `SendReceipt` and `RewriteReceipt`, the webhook is `Enqueue`.
  `DropQueued` takes a message off the queue without using it: the representative
  is disabled, has switched automatic approval off, or the reservation is void.
* `Faults`, `RejectClaimed` and `LateReceipts` switch on database errors of
  AgentBot (`DeductRaises`, `StoreRaises`, `DeliverRaises`, `RefundRaises`, and
  `Abandon` for every call whose exception ends the approval where it is), a
  reject pressed on a payment in processing, and receipts that are written while
  an approval is under way. All three can happen: `custpay_calm` shows what holds
  without them, `custpay_storm` what survives them, section 8 what does not.

### AgentPurchase

* `create_subscription` is `CreateDebit` ... `CreateRefundRaises`. Its key is that
  of the wizard in `context.user_data` (`wizard`), which is kept for a retry until
  the purchase is stored or refunded; `opened` remembers the keys that were used.
  `served` are the keys with a row in `agent_services`, `users` those with a user
  on the panel. The price may change under a key (`Reprice`).
* `renew_subscription` is `RenewStart` ... `RenewTimeout`, run by the `Handler` of
  AgentBot and by `Admin`, another process, on one service: debit without a key,
  row, a second look at the row, the panel, and back again when it fails. A renewal
  replaces what was left, so the number of the renewal in effect is the state of
  the service (`row` in the books, `panel` on the panel). `delete_subscription`
  is `DeleteStart` ... `DeleteRow`.
* A failed panel call may have been carried out. `upset` is history: what
  disturbed an operation or renewal (a lost answer, a refused rollback, a crash, an
  exception, the sixty-second timeout of AdminBot, an overlap, a deletion). The
  properties name the disturbances they allow.

### SmsWebhook

* A request (`worker[w]`) is a thread in `_handle_sms_webhook` and
  `_try_approve_sms_event`: `Send` writes the event row and takes it if its status
  is `Retryable`, the `Look*` actions are the searches in the order of the code,
  `Approve`, `Patch`, `ApproveCharge`, `Attach` the writes, `Mark` the last one. A
  thread may die anywhere (`Dies`).
* `receipt` is `try_approve_payment_from_unmatched_sms`, which UserBot runs when
  a receipt is sent and which looks at the kept messages (`Kept`).
* `status` and `smsOf` are `status` and the `sms_event_id` of the meta of card
  payments and top-ups; `event` is the row of `userbot_sms_webhook_events`.
  `Events` are ids, `Deposits` what the messages tell of; one deposit may come
  under several ids. `Prior`, `ApprovedBy`, `Manual` are the searches themselves.
* `met`, `uses`, `undone` and `stopped` are history: who worked on what at the same
  time, what a deposit was spent on, the payments that the administrator made pending
  again, and those whose receipt stopped at a message that was a second copy of one
  already used. Such a receipt looks no further, so a kept message behind that one may
  wait beside the payment it fits: `NoLostMatch` excuses this, a crossing of the two,
  and nothing else.

### AgentSmsQueue

* `worker[w]` is a thread in `_process_agent_sms_event`: `Enqueue` writes the row
  in `customer_bot.db`, `Mark` the event in `userbot.db`, in this order.
* `consumer` is `process_sms_webhook_queue`: `Take`, `ReadSettings`, `ReadEvent`
  (which drops the row of an event that is not marked yet), `Claim` ... `CloseEvent`.
* `auto` are the switches of the representative; `cause` is history: why a row
  was closed without its payment.

### UserPurchase

* `task` are the two tasks of UserBot: the delivery `Loop` and the `Handler`.
  `StartDirect` claims a direct purchase in the meta of its payment row
  (`meta`: `direct_done`, `direct_attempts`, `delivered_service_id`), `StartOrder`
  begins a purchase from the wallet; `Check`, `Charge`, `Recheck`, `PanelDone`,
  `PanelFails`, `Store`, `StoreFails`, `Rollback`, `Refund`, `Announce`, `Settle` are
  shared as the code shares them. `Runs(t)` is the event loop, as above.
* `thread` is the bank message that approves a payment and then patches the meta
  in two steps (`SmsLook`, `SmsWrite`); `admin` is the button of AdminBot, which
  changes the status and then resets or takes back a delivery from what it read
  before.

### UsageEnforcer

* `svc` is the row of `agent_services`, `row[n]` that of `agent_service_nodes`
  (`eff` the monotonic counter, `raw` the last sample, `off` the offset, `reason` the
  `disabled_reason`), `panel[n]` the user on the panel. `Recorded` is the monotonic rule
  with its sixty per cent (`ResetDetected`).
* `e` is one visit of `run_agent_usage_enforcer` (`_process_service`) with the snapshot it works from:
  `Visit*` per node, `Thaw*` for nodes that missed a renewal, `Record`, `Note`,
  `Close*`, `Off*`. `view` is a refresh of the service page. `r` is the renewal as it
  reaches the panels (`RenewPrimary`, `RenewNode`, `RenewReset`, `RenewEnable`).
* `used`, `seen`, `zeroed` are history: what was used, what samples have shown of
  it, and the counters that were lost since.

## 3. Runs

| run | question | result |
|---|---|---|
| `topup_saga` | 2 threads, AdminBot, recovery, 1 crash, errors, overlap: credited once, approved only when credited, one deposit for one payment, decisions final | holds |
| `topup_quiet` | no errors, no overlap, 2 crashes: the saga implements `TopupPromise` | holds |
| `topup_live` | a claim left by a crash ends | holds under `FairSpec` |
| `custpay_calm` | purchase and renewal, both tasks, 1 crash, panel failures: no service without its money, delivered once, nothing owed for what is undecided, approved is final | holds |
| `custpay_storm` | a renewal with a second attempt: what survives errors, rewritten receipts and rejects in processing | holds |
| `custpay_live` | a delivered payment is finalized after a crash; a decided one leaves the queue | holds under `FairSpec` |
| `user_purchase` | two orders, or a card payment with buttons, retries, lost answers and crashes: delivered once, nothing for free, money kept only where the code says so, and approved is delivered in the end | holds, the last under `FairSpec` |
| `sms_webhook` | 2 threads, 2 payments and a top-up, a deposit under two ids, receipts, buttons: a deposit pays once and is not swallowed, manual approvals get their message, no match is lost | holds |
| `agent_sms_queue` | 2 threads, the worker, a deposit under two ids, buttons, switches, crashes: a deposit is spent once, stays reserved while it is executed, and is not forgotten | holds |
| `agent_sms_second` | a message is attached only to what was approved by hand | **violated** |
| `agent_purchase` | two bots: keyed purchases with retries and price changes, unkeyed renewals, deletions, crashes: what is paid, delivered and given back agrees | holds |
| `usage_enforcer` | 2 nodes, lost counters, lost answers, a renewal, a refresh, removed servers: charged is what was used, disabled for a cause, what has ended is watched | holds |

Every property of a passing run has a mutant under which the run fails. A
property that lists exceptions (`upset`, `met`, `cause`) is one that the code
breaks in just these ways; without any one of them it does not hold, which is how
the list was found.

`agent_sms_second` is a finding. `find_recently_agent_approved_card_payments`
promises payments "that were approved manually (without SMS)" and takes for one
every payment without a message attached. An approval through the queue attaches
none. The second deposit of the same amount is then attached to the payment the
first one paid for, and its own payer waits.

## 4. Bounds

* Top-up: two payments of one representative with the same amount, two
  messages that both fit both, two workers (one message and one worker in
  `topup_live`). Two of each is where competition starts: every conflict is
  between two parties on one row or on the unique event column. Amounts are 1,
  so sums count payments. `MaxCrashes` is 1 or 2.
* Customer payment: one purchase and one renewal in `custpay_calm`, a purchase
  and a payment without an order in `custpay_live`, one renewal in `custpay_storm`;
  at most two operation keys, one bank message, one or two receipts per payment,
  one crash; funds for two orders at price 1, so that one spend elsewhere makes
  the second refused.
* `sms_webhook`, `agent_sms_queue`: three event ids of two deposits, so that a
  message can come again under another id while a different one of the same amount
  is handled; three requests; one or two buttons, faults or crashes. In
  `sms_webhook` the constraint keeps two of the three targets in play and does not
  follow what comes after two requests for one deposit overlapped, which its
  properties excuse.
* `agent_purchase`: two keys, two renewals, one deletion, one change of price,
  two faults, money for a purchase and a half. Purchases and renewals share only
  the wallet, so the constraint allows two operations in all when there is a
  purchase; the price stays when there is a deletion.
* `user_purchase`: one card payment and two orders, each new or a renewal, money
  for one order, two tries, two deliveries, two disturbances. The constraint leaves out
  combinations that share nothing but the event loop, and what follows when a
  delivery's claim was erased, which every property excuses.
* `usage_enforcer`: a primary and a node, quotas 2 and 1, two units of traffic, so
  that one node alone and both together can use it up. The constraint allows two
  disturbances of any kind and does not follow books that have been upset.

Threads, payments, keys and messages that nothing tells apart are symmetry sets in
the runs without liveness.

`CHECK_DEADLOCK FALSE` everywhere: when the last payment is decided, or the bounds
are reached, and nobody sends anything, the system rests.

## 5. Fairness

`WalletTopup!FairSpec`: weak fairness of each worker's next step, and of
AdminBot's own steps including its restart. A Python thread that is running goes
on, SQLite calls return or raise, and systemd restarts the process. No fairness
for people, bank messages or crashes.

`CustomerPayment!FairSpec`: strong fairness for each task's step, since a task
is ready again and again while the other one holds the loop, and asyncio's
ready queue is first-in first-out; strong fairness for the poll of each queue
row and for the mark at its end; weak fairness of restart and recovery.
`process_sms_webhook_queue` reads the ten oldest open rows every few seconds, so
this is justified while fewer than ten rows are open; ten rows that cannot be
executed starve the later ones, which is listed as a hazard. `DropQueued` is not
part of what is fair: nobody has to switch anything off. The panel's answers, good
or bad, are steps of the task: its calls have a timeout.

`UserPurchase!FairSpec`: weak fairness of both tasks, of the thread and of the
button AdminBot is working on; strong fairness of the loop taking an approved
payment it may claim, since it looks at all of them every six seconds and its turn
comes again and again between two orders. No fairness for users, buttons or
crashes. The constraint of the run cuts behaviours only where something new would
begin (an order, a press) or a claim was erased, never in the middle of a delivery.

## 6. Proofs

`AgentWalletProofs` proves, for any sets of representatives, keys and amounts,
`WalletTypeCorrect`, `WalletNoOverdraft` and `WalletKeyPostedOnce`. The argument
goes through one lemma (`StepsAreAllowed`): whatever is called, the tables
change only by `Post` of an entry that is covered and whose key is new.

`WalletTopupProofs` proves for any number of payments, messages, workers and
crashes, with errors and overlapping recoveries:

* `TopupTypeCorrect`. `TypeOK` is not inductive: a process that moves on must
  have a payment. `Typing` adds that (`WorkersBusy`, `AdminBusy`).
* `TopupApprovedIsCredited`. `Credits` adds to the property that whoever is about
  to write `approved` has the credit in the ledger: a worker at `finish`,
  `confirm` or `retry`, AdminBot at `finish`, or a recovery that saw it. It is
  stable because the ledger only grows (`PaidForGood`).
* `TopupDepositSpentOnce`. `Deposits` adds that a worker at `charge` holds its
  message attached to its payment, and that what it read of the attachment is
  still true. The key lemma is `EventStep`: a step attaches at most one
  message, to a payment without one, and one no other payment has; so links are
  made once (`LinkedForGood`), which is what makes the stale read harmless.
* `TopupCreditedOnce`, from `Balanced`: the property, and that finitely many payments have
  a credit, without which the sum says nothing. Every step leaves the wallets alone or
  posts the credit of a payment that has none (`CreditStep`), so the sum gains one term.
* `TopupDecisionIsFinal`, an action property, by the statements that write the
  status.
* `TopupKeepsPromise`, the refinement, under `~Faults` and `~OverlappingRecovery` (with
  either of them the promise is broken, which is why `topup_saga` does not check it).
  `Calm` says that whoever is about to credit still has the payment claimed, that a
  recovery has the rows to itself, and that what is credited is claimed or approved.
  The simulation is by step: a new row is `Request`, a reject `Refuse`, the first credit
  of a payment `Pay`, and everything else, approvals and crashes included, leaves balance
  and decisions as they are.

`CustomerPaymentProofs` proves for any number of payments, attempts, services
and crashes, with database errors, late receipts and rejects of payments in
processing switched on or off:

* `PaymentTypeCorrect`, `PaymentPaidBefore`, `PaymentApprovedIsDelivered`,
  `PaymentNoOverdraft`. They rest on one inductive invariant, `Saga`: a task past a
  point of the saga has behind it what that point stands for (`TaskOK`: an attempt
  of its own, then the debit, then the panel, then the books), a claimed row has a
  key of its own payment (`ClaimsOK`), and what the books show is on the panel
  (`BooksOK`). None of the three properties is inductive without the first: they say
  nothing of a task on its way. `TaskOK` survives the steps of everyone else
  because debits, panel calls and books are only added to (`Grows`), which is why
  no crash, reject or rewritten receipt can break these properties although they
  break others.
* `PaymentApprovedIsFinal`, under `~LateReceipts`: receipts written while a payment
  is approved are the only way an approved payment changes.
* `PaymentNoFreeService`, `PaymentDeliveredOnce` and `PaymentUndecidedIsClear`, under
  `~Faults`, `~RejectClaimed` and `~LateReceipts`, the conditions of `custpay_calm`. None
  of them is inductive; together with `Saga` the invariant `Calm` is. Its core is
  exclusion: two tasks do not hold one payment (`Apart`), and an attempt that is paid and
  not refunded has the payment to itself, because it holds the claim or because the
  payment is approved (`CalmBooks`). Two such attempts of one payment are then the same.
  Each of the three switches breaks this exclusion at one place: an error leaves a claim
  whose debit is not known, a reject or a late receipt takes the claim from a task that
  goes on.

`AgentPurchaseProofs` proves for any number of keys, renewals, deletions, prices,
crashes and errors, with both bots on one service:

* `PurchaseTypeCorrect`, `PurchaseIsSettled`, `PurchaseIsResumable`, from the
  inductive invariant `Purchase`. `PurchaseSettled` says nothing of a purchase that is
  under way, or of a key that might be used again; `TasksOK` adds that whoever is
  between debit and end works for the open wizard, debited and neither refunded
  nor stored; `Closed`, that a key once stored or refunded is never the wizard's
  again, nor a new one; `Clean`, that a user the open wizard has left on the panel is
  accounted for whenever a refund may come next; `Held`, that debited money is
  the wizard's or has its excuse. Renewals and deletions, half of the actions, are dealt with
  by one lemma (`BooksApart`): they touch neither the keys nor what hangs on them
  (`Apart`, `SameKeys`).
* `PurchaseRenewalSettled` and `PurchaseBooksAgree`, from the invariant `Service`. A
  renewal under way and undisturbed keeps its course (`CourseOK`): it is alone on the
  service, and row and panel show as much of it as its place in the code says. A
  renewal that is over keeps its result (`OverOK`), which needs that the number of one
  that went back is nowhere any more, not even in what another renewal remembers to
  put back (`Traceless`, `Numbered`). Rows and panel differ only while the one renewal
  under way accounts for it (`AgreeOK`, `GoneOK`).
* `PurchaseNoOverdraft`, `PurchaseKeyPostedOnce`: `MoneySteps` shows that every step is
  a posting `AgentWalletProofs` allows, with a key that is that of the purchase under
  way or none.

`AgentSmsQueueProofs` proves, for any number of payments, messages, deposits, threads
and crashes, `QueueTypeCorrect`, `QueueReservedWhileExecuted`,
`QueueNoForgottenReservation` and `QueueDepositSpentOnce`. The row of the queue and the
status of the event are in two databases and are written by two processes; `Inv` ties
them together. For a deposit whose requests did not overlap, one request at a time is
about it (`Alone`), what uses it up is said by the event or will be by that request
(`UsedIsSaid`), and no two events of it are used (`UsedOnce`). For every event, the
request that inserted a row is the only one that will say so, and the row is neither
executed nor closed without a cause before it does (`InsertedOnce`): this is the check
in `ReadEvent`, and it makes the two writes safe in their order.

`SmsWebhookProofs` proves, for any number of payments, top-ups, deposits, event ids,
threads, deaths and buttons:

* `SmsTypeCorrect`, `SmsManualKeepsItsMessage`, `SmsNoLostMatch`, `SmsSpentOnce`, from `Inv`.
  A request that is about to keep its message has seen every pending payment
  the message fits (`KeepOK`), and a kept message beside a payment it fits has the
  receipt still coming to it (`MatchOK`), unless the two met. A payment that is owed
  the message stays approved and gets it (`OwedOK`). A deposit's use is in the books or
  on its way there while every request for it is still undecided (`SpentOK`).
  The first attempt at `SmsNoLostMatch` failed for a good reason: the exception it then
  had for a message used already was read off the present state, and a later step can take
  the exception away and leave the miss (TLC finds it with one request more than the run
  has). The history variable `stopped` is what the code really does there, and the
  property with it is stronger.
* `SmsOneDepositPerPayment`, under `OneBlank`: at most one deposit comes without a reference
  number. The code takes two messages without a number, for one amount and payment, for the
  same transfer, and with two such deposits the property is false. `Claims` says for which
  deposit a target is taken, by the books, by a request or receipt at work or by its own
  row, and that these agree. The run has no deposit without a number.

`UserPurchaseProofs` proves, for any number of card payments, orders, retries, buttons and
crashes, `UserTypeCorrect`, `UserDeliveredOnce`, `UserNothingForFree` and `UserOrderSettled`.
While nothing has upset the delivery of a payment, one task at a time delivers it, the meta
says `processing` and the status `approved` (`DeliveryOK`); at rest the panel has
the delivery the meta names or none, and when the status has been taken back, AdminBot is at
work to undo it (`AtRestOK`). An order runs once, in the handler, and `HandlerOK` says where
its money is at each place.

`UsageEnforcerProofs` proves, for any nodes, quotas, renewals, lost counters, removed
servers, refreshes and crashes, `UsageTypeCorrect`, `UsageChargedIsUsed`,
`UsageEndedIsWatched`, `UsageDisabledForCause` and `UsageIsMonotonic`. `UsageTypeCorrect` is
`TypeOK` with its parts named (`Typing`) and that a cycle's total is a natural number. The
next three speak of books that nothing has upset, and so do their invariants: while
`upset` is empty, `Sound` (`InOrder`), and for the last of them `Founded` too. A step that
would break `Sound` is one that adds its cause to `upset`, and no cause is ever taken
off (`UpsetGrows`).

* `InStep(n)` is the relation the monotonic rule keeps: the row has what samples
  have shown, and the rest of the traffic is what the panel shows beyond the last sample,
  or all it shows when its counter was lost since. `RecordedFits` is the lemma that the rule
  with its sixty per cent re-establishes it. A node that is not in step has
  missed the renewal and is known to have (`Missed`), or has no server.
* `CycleOK` says of the snapshot a cycle works from that a node it is still to ask is in
  step or marked in it; `RenewalOK`, that every node with a server is renewed, still to be
  renewed, or noted as failed, which is what `RenewReset` needs; `ViewOK`, that a refresh
  that saw only panels of this period has samples that fit.
* `DisabledIsOff`: a node noted as disabled is disabled, and none is so noted while a renewal
  enables the users. From it an enabled user is in a row the cycle looks at.
* `Founded` is what `UsageDisabledForCause` needs beside `Sound`. The cycle decides by a total it
  has added up from rows as they were when it began, while the property is about the rows as
  they are: `CycleFounded` has that the total is at most what the nodes already asked are
  charged now (rows only gain meanwhile, `ChargeGrows`), and that a panel which says the
  service is over counts for the present period. The second needs `PlansKnown`: a panel of
  an older period is marked. `VerifiedForCause` has the property for the books of the last
  period as long as a renewal may still be taken back, since `RenewPrimaryFails` brings
  them back; `OnePeriod`, that quota and end are always of the same period.
* `UsageIsMonotonic` has no condition: whatever overlaps, crashes or is lost, what a node is charged
  goes down only in `RenewReset`. It is the promise of the monotonic rule
  (`SampleGrows`), for every step of the system.

`CreditedOnce` and `DisabledForCause` speak of sums, which the community modules define by a fold:
a recursive function on the subsets of the domain that takes an arbitrary element
first. That it adds up is induction over data, and the library's induction theorems
cannot be used here. Both modules prove what they need from first-order facts instead: a
property of finite sets that fails fails for one of least size (`Least`, from the
well-foundedness of the natural numbers), so the fold exists (`SmallerFirst`, `Folds`), and
one element can be taken out of it, whichever the fold takes first. `SumTakes` and
`TotalTakes` are what the proofs cite. The lemmas stand in both modules because each
component's proofs are self-contained.

Assumptions are those named in the modules (`WalletAssumption`, `TopupAssumption`,
`PaymentAssumption`, `PurchaseAssumption` of `AgentPurchase` and of `UserPurchase`,
`QueueAssumption`, `SmsAssumption`, `UsageAssumption`): constants have their types,
special values are not members, amounts and prices are positive (the dialogues refuse
others). TLC evaluates them in every run. The conditions `~Faults` and the like are
hypotheses of the theorems that need them, and named there.

Only model-checked: liveness (`RecoveryEndsClaims`, `RecoveryFinalizes`, `DecidedLeavesQueue`,
`EventuallyDelivered`), which is out of the prover's reach. Every other property of a
passing run is stated by a theorem.

## 7. Assumptions and what is left out

* In `CustomerPayment` a panel call that reports failure has changed nothing; the
  lost answer is in `AgentPurchase`, `UserPurchase` and `UsageEnforcer`.
* `status` and `meta` updates of an order that follow each other without an
  `await` are one action.
* The wholesale price of a customer's order is positive and does not change between
  approval attempts.
* Whether a message fits a payment (amount, card, time) is the constant `Fits`;
  manual approvals are recent.
* `UserPurchase` and `AgentPurchase` have the primary panel only; nodes are in
  `UsageEnforcer`. Trials, gifts, renames and changes of link are left out.
* `UsageEnforcer` leaves out the probe of the visibility of users, `fail_count` and the
  frozen flag (display only), enabling and disabling by hand, database errors that are
  swallowed, renewals in add mode, the healing of node mappings, and the enforcer
  of end users (`Shared/service_enforcer.py`), which has the same counters and its own
  loop.
* Vouchers, discount codes, referral rewards and slot claims are not modelled; two
  hazards of theirs are listed.
* JSON stores, env file and backups, panel clients, node provisioning: remote or file
  input and output, with rules that are one guard or one rename each.
* Subscription links, reports, keyboards and texts, tickets, the installer: they keep
  no state that a sale depends on. Most lines of the repository are of these
  kinds: dialogues, formatting and clients of remote APIs.

## 8. What the models show beside the properties

Places where the code departs from one of its comments, or where a reader may expect
more than it does. The models contain each of them as an action, and the
properties name it as an exception or are stated for runs without it.

* A recovery of AdminBot that overlaps a webhook thread releases a live claim; the
  payment is credited and pending (`AdminBot/agencies.py:1419`).
* `_reject_payment` finds payments in processing and writes without an expected
  status (`settings_customer_payments.py:1088`).
* `_finalize_receipt` writes `pending` around two Telegram calls, whatever the
  status has become (`CustomerBot/handlers/receipt.py:442`).
* `create_service` raises where the caller tests for a false value, so the remote user is
  not removed (`settings_customer_payments.py:1313`).
* The proof of a renewal is one column that the next renewal of the service
  overwrites (`settings_customer_payments.py:105`).
* An order whose service is gone at the second look keeps the money
  (`UserBot/main.py:5547`, against the comment at 5522).
* The sixty-second timeout of AdminBot leaves a renewal that is paid and written in
  the books without the panel (`AdminBot/agencies.py:3652`, against
  `subscription_service.py:538`).
* A wizard that keeps its key for a retry cannot use it once the price has changed: the
  keyed debit raises (`handlers/subscriptions.py:1958` says "Keep the same key").
* A direct purchase is not looked for among payments approved by hand, so its
  message may go to another payment of the amount.
* The detach of CustomerBot (`CustomerBot/handlers/callback.py:1103`) switches only the
  service row off, and the next cycle of the enforcer switches it on again.
* A refresh of the service page samples nodes that missed a renewal, against the
  docstring at `Shared/agent_db.py:3011`, and disabling overwrites that mark.
* A cycle that overlaps a renewal writes back the old quota and state
  (`Shared/agent_enforcer.py:530`).

## 9. Plan

1. (done) `AgentWallet`, `WalletTopup` with `TopupPromise`, `CustomerPayment`, and their proofs.
2. (done) `SmsWebhook`, `AgentSmsQueue`, `UserPurchase`, `AgentPurchase`,
   `UsageEnforcer`.
3. (done) Proofs of every safety property of the runs, and of the refinement of
   `TopupPromise`.
4. Further modules, each in place of a run that asks less: vouchers and one-time
   claims at their limit; JSON stores with two writers; the enforcer of end users.
