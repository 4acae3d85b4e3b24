----------------------------- MODULE AgentWallet -----------------------------
(***************************************************************************)
(* The representative wallet of agency.db (Shared/agent_db.py): one        *)
(* balance per representative and the table of transactions behind it.     *)
(* Every operation below is one SQLite transaction, hence one action.      *)
(*                                                                         *)
(* A transaction either carries an idempotency key, and is then applied    *)
(* once however often its caller repeats it after a crash or a timeout, or *)
(* carries none (NoKey), and is applied every time it is called.           *)
(***************************************************************************)
EXTENDS Integers, Sequences

CONSTANTS
    Agents,       \* the representatives
    Keys,         \* idempotency keys in use
    NoKey,        \* a transaction without an idempotency key
    WalletAmounts \* the amounts callers pass, in toman

ASSUME WalletAssumption ==
    /\ NoKey \notin Keys
    /\ WalletAmounts \subseteq Nat

VARIABLES
    balance,  \* agent_wallets.balance
    ledger    \* agent_transactions, in insertion order

walletVars == <<balance, ledger>>

TxTypes == {"charge", "purchase", "refund"}

Tx == [agent : Agents, amount : Int, type : TxTypes, key : Keys \cup {NoKey}]

\* Mutant: a transaction type outside the allowed set is stored.
Mutant_EntryType(a, v, type, k) == [agent |-> a, amount |-> v, type |-> "credit", key |-> k]

Entry(a, v, type, k) == [agent |-> a, amount |-> v, type |-> type, key |-> k]

\* Mutant: the look-up by key is forgotten.
Mutant_HasTx(k) == FALSE

\* get_wallet_transaction_by_key
HasTx(k) == \E i \in DOMAIN ledger : ledger[i].key = k
TxIs(k, entry) == \E i \in DOMAIN ledger : ledger[i].key = k /\ ledger[i] = entry

Signed(entry) == IF entry.type = "purchase" THEN 0 - entry.amount ELSE entry.amount

\* Mutant: AND balance >= ? is missing from the UPDATE.
Mutant_Covered(entry) == TRUE

\* A purchase is refused when the balance does not cover it.
Covered(entry) == entry.type = "purchase" => balance[entry.agent] >= entry.amount

\* The balance change and the row that explains it, in one transaction.
Post(entry) ==
    /\ balance' = [balance EXCEPT ![entry.agent] = @ + Signed(entry)]
    /\ ledger' = Append(ledger, entry)

-----------------------------------------------------------------------------
(***************************************************************************)
(* _wallet_transaction_once.  Its outcomes are told apart by the callers:  *)
(* it returns True (Posted now, or Replayed), returns False (Refused) or   *)
(* raises ValueError (Clashing).                                           *)
(***************************************************************************)
Replayed(entry) == entry.amount = 0 \/ TxIs(entry.key, entry)
Clashing(entry) == entry.amount # 0 /\ HasTx(entry.key) /\ ~TxIs(entry.key, entry)
Postable(entry) == entry.amount # 0 /\ ~HasTx(entry.key) /\ Covered(entry)
Refused(entry) == entry.amount # 0 /\ ~HasTx(entry.key) /\ ~Covered(entry)

\* The call that does not raise and is not refused.
OnceOk(entry) ==
    \/ Replayed(entry) /\ UNCHANGED walletVars
    \/ Postable(entry) /\ Post(entry)

\* The call that leaves the database as it was and reports failure.
OnceFails(entry) == (Refused(entry) \/ Clashing(entry)) /\ UNCHANGED walletVars

TransactionOnce(a, v, type, k) ==
    LET entry == Entry(a, v, type, k) IN OnceOk(entry) \/ OnceFails(entry)

\* charge_wallet, refund_wallet
Credit(a, v, type) ==
    /\ v > 0
    /\ type \in {"charge", "refund"}
    /\ Post(Entry(a, v, type, NoKey))

\* deduct_wallet
Deduct(a, v) ==
    /\ v > 0
    /\ balance[a] >= v
    /\ Post(Entry(a, v, "purchase", NoKey))

WalletInit ==
    /\ balance = [a \in Agents |-> 0]
    /\ ledger = << >>

WalletNext ==
    \E a \in Agents, v \in WalletAmounts :
        \/ \E type \in TxTypes, k \in Keys : TransactionOnce(a, v, type, k)
        \/ \E type \in {"charge", "refund"} : Credit(a, v, type)
        \/ Deduct(a, v)

WalletSpec == WalletInit /\ [][WalletNext]_walletVars

-----------------------------------------------------------------------------
WalletTypeOK ==
    /\ balance \in [Agents -> Int]
    /\ ledger \in Seq(Tx)

(***************************************************************************)
(* No sequence of purchases, repeated or not, overdraws a wallet.          *)
(***************************************************************************)
NoOverdraft == \A a \in Agents : balance[a] >= 0

(***************************************************************************)
(* "Apply one wallet mutation exactly once": however often a keyed call is *)
(* repeated, and whatever else is posted in between, its key has one row.  *)
(***************************************************************************)
KeyPostedOnce ==
    \A i, j \in DOMAIN ledger :
        (ledger[i].key # NoKey /\ ledger[i].key = ledger[j].key) => i = j
=============================================================================
