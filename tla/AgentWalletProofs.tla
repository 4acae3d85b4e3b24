-------------------------- MODULE AgentWalletProofs --------------------------
(***************************************************************************)
(* The wallet's guarantees for any number of representatives, keys and     *)
(* transactions.                                                           *)
(***************************************************************************)
EXTENDS AgentWallet, TLAPS

\* What a caller of the wallet can post: one of its own amounts.
LEMMA EntryIsTx ==
    ASSUME NEW a \in Agents, NEW v \in WalletAmounts, NEW type \in TxTypes,
           NEW k \in Keys \cup {NoKey}
    PROVE  Entry(a, v, type, k) \in Tx
BY WalletAssumption DEF Entry, Tx

(***************************************************************************)
(* One posting, from a state of the right type.                            *)
(***************************************************************************)
LEMMA PostKeepsType ==
    ASSUME WalletTypeOK, NEW entry \in Tx, Post(entry)
    PROVE  WalletTypeOK'
<1>1. entry.agent \in Agents /\ entry.amount \in Int
    BY DEF Tx
<1>2. Signed(entry) \in Int
    BY <1>1 DEF Signed
<1>3. balance' \in [Agents -> Int]
    BY <1>1, <1>2 DEF Post, WalletTypeOK
<1>4. ledger' \in Seq(Tx)
    BY DEF Post, WalletTypeOK
<1> QED
    BY <1>3, <1>4 DEF WalletTypeOK

\* A purchase that is covered, and any credit, leaves every balance covered.
LEMMA PostKeepsCover ==
    ASSUME WalletTypeOK, NoOverdraft, NEW entry \in Tx, Post(entry),
           entry.amount >= 0, Covered(entry)
    PROVE  NoOverdraft'
<1>1. entry.agent \in Agents /\ entry.amount \in Int
    BY DEF Tx
<1>2. balance[entry.agent] + Signed(entry) >= 0
    BY <1>1 DEF Signed, Covered, NoOverdraft, WalletTypeOK
<1> QED
    BY <1>1, <1>2 DEF Post, NoOverdraft, WalletTypeOK

\* A row may be added when it has no key or when its key is not in use.
LEMMA PostKeepsKeys ==
    ASSUME WalletTypeOK, KeyPostedOnce, NEW entry \in Tx, Post(entry),
           entry.key = NoKey \/ ~HasTx(entry.key)
    PROVE  KeyPostedOnce'
<1>1. ledger' = Append(ledger, entry) /\ ledger \in Seq(Tx)
    BY DEF Post, WalletTypeOK
<1>2. /\ DOMAIN ledger' = 1 .. Len(ledger) + 1
      /\ \A i \in 1 .. Len(ledger) : ledger'[i] = ledger[i]
      /\ ledger'[Len(ledger) + 1] = entry
      /\ DOMAIN ledger = 1 .. Len(ledger)
      /\ Len(ledger) \in Nat
    BY <1>1
<1>3. SUFFICES ASSUME NEW i \in DOMAIN ledger', NEW j \in DOMAIN ledger',
                      ledger'[i].key # NoKey, ledger'[i].key = ledger'[j].key
               PROVE  i = j
    BY DEF KeyPostedOnce
<1>4. CASE i \in DOMAIN ledger /\ j \in DOMAIN ledger
    BY <1>2, <1>3, <1>4 DEF KeyPostedOnce
<1>5. CASE i \notin DOMAIN ledger /\ j \in DOMAIN ledger
    BY <1>2, <1>3, <1>5 DEF HasTx
<1>6. CASE i \in DOMAIN ledger /\ j \notin DOMAIN ledger
    BY <1>2, <1>3, <1>6 DEF HasTx
<1>7. CASE i \notin DOMAIN ledger /\ j \notin DOMAIN ledger
    BY <1>2, <1>3, <1>7
<1> QED
    BY <1>4, <1>5, <1>6, <1>7

\* A posting adds its own key to the ledger and no other.
LEMMA PostHasTx ==
    ASSUME WalletTypeOK, NEW entry \in Tx, Post(entry), NEW x
    PROVE  HasTx(x)' <=> HasTx(x) \/ x = entry.key
<1>1. ledger \in Seq(Tx) /\ ledger' = Append(ledger, entry)
    BY DEF WalletTypeOK, Post
<1>2. /\ DOMAIN ledger' = 1 .. Len(ledger) + 1
      /\ \A i \in 1 .. Len(ledger) : ledger'[i] = ledger[i]
      /\ ledger'[Len(ledger) + 1] = entry
      /\ DOMAIN ledger = 1 .. Len(ledger)
      /\ Len(ledger) \in Nat
    BY <1>1
<1>3. HasTx(x) => HasTx(x)'
    BY <1>2 DEF HasTx
<1>4. x = entry.key => HasTx(x)'
    BY <1>2 DEF HasTx
<1>5. HasTx(x)' => HasTx(x) \/ x = entry.key
    BY <1>2 DEF HasTx
<1> QED
    BY <1>3, <1>4, <1>5

\* A keyed call that succeeds leaves its key in the ledger.
LEMMA OnceOkHasTx ==
    ASSUME WalletTypeOK, NEW entry \in Tx, entry.amount # 0, OnceOk(entry)
    PROVE  HasTx(entry.key)'
<1>1. CASE Replayed(entry) /\ UNCHANGED walletVars
    BY <1>1 DEF Replayed, TxIs, HasTx, walletVars
<1>2. CASE Postable(entry) /\ Post(entry)
    BY <1>2, PostHasTx
<1> QED
    BY <1>1, <1>2 DEF OnceOk

-----------------------------------------------------------------------------
(***************************************************************************)
(* Whatever is called, the tables change only by postings that satisfy the *)
(* hypotheses of the lemmas above.                                         *)
(***************************************************************************)
Allowed(entry) ==
    /\ entry \in Tx
    /\ entry.amount >= 0
    /\ Covered(entry)
    /\ entry.key = NoKey \/ ~HasTx(entry.key)

LEMMA StepsAreAllowed ==
    ASSUME [WalletNext]_walletVars
    PROVE  UNCHANGED walletVars \/ \E entry : Allowed(entry) /\ Post(entry)
<1>1. SUFFICES ASSUME WalletNext, ~ UNCHANGED walletVars
               PROVE  \E entry : Allowed(entry) /\ Post(entry)
    OBVIOUS
<1>2. PICK a \in Agents, v \in WalletAmounts :
        \/ \E type \in TxTypes, k \in Keys : TransactionOnce(a, v, type, k)
        \/ \E type \in {"charge", "refund"} : Credit(a, v, type)
        \/ Deduct(a, v)
    BY <1>1 DEF WalletNext
<1>3. v \in Nat
    BY WalletAssumption
<1>4. CASE \E type \in TxTypes, k \in Keys : TransactionOnce(a, v, type, k)
    <2>1. PICK type \in TxTypes, k \in Keys : TransactionOnce(a, v, type, k)
        BY <1>4
    <2> DEFINE entry == Entry(a, v, type, k)
    <2>2. Postable(entry) /\ Post(entry)
        BY <1>1, <2>1 DEF TransactionOnce, OnceOk, OnceFails
    <2>3. Allowed(entry)
        BY <1>3, <2>2, EntryIsTx DEF Allowed, Postable, Entry
    <2> QED
        BY <2>2, <2>3
<1>5. CASE \E type \in {"charge", "refund"} : Credit(a, v, type)
    <2>1. PICK type \in {"charge", "refund"} : Credit(a, v, type)
        BY <1>5
    <2> DEFINE entry == Entry(a, v, type, NoKey)
    <2>2. entry \in Tx
        BY EntryIsTx DEF TxTypes
    <2>3. Allowed(entry)
        BY <1>3, <2>1, <2>2 DEF Allowed, Covered, Entry
    <2> QED
        BY <2>1, <2>3 DEF Credit
<1>6. CASE Deduct(a, v)
    <2> DEFINE entry == Entry(a, v, "purchase", NoKey)
    <2>1. entry \in Tx
        BY EntryIsTx DEF TxTypes
    <2>2. Allowed(entry)
        BY <1>3, <1>6, <2>1 DEF Allowed, Covered, Entry, Deduct
    <2> QED
        BY <1>6, <2>2 DEF Deduct
<1> QED
    BY <1>2, <1>4, <1>5, <1>6

\* Every reachable wallet has tables of the declared shape.
THEOREM WalletTypeCorrect == WalletSpec => []WalletTypeOK
<1>1. WalletInit => WalletTypeOK
    BY DEF WalletInit, WalletTypeOK
<1>2. WalletTypeOK /\ [WalletNext]_walletVars => WalletTypeOK'
    BY StepsAreAllowed, PostKeepsType DEF Allowed, WalletTypeOK, walletVars
<1> QED
    BY <1>1, <1>2, PTL DEF WalletSpec

\* No interleaving of keyed and unkeyed purchases overdraws a wallet.
THEOREM WalletNoOverdraft == WalletSpec => []NoOverdraft
<1>1. WalletInit => NoOverdraft
    <2>1. WalletInit => balance \in [Agents -> Nat]
        BY DEF WalletInit
    <2> QED
        BY <2>1 DEF NoOverdraft
<1>2. WalletTypeOK /\ NoOverdraft /\ [WalletNext]_walletVars => NoOverdraft'
    BY StepsAreAllowed, PostKeepsCover DEF Allowed, NoOverdraft, walletVars
<1> QED
    BY <1>1, <1>2, WalletTypeCorrect, PTL DEF WalletSpec

\* An idempotency key is posted at most once, however often it is retried.
THEOREM WalletKeyPostedOnce == WalletSpec => []KeyPostedOnce
<1>1. WalletInit => KeyPostedOnce
    BY DEF WalletInit, KeyPostedOnce
<1>2. WalletTypeOK /\ KeyPostedOnce /\ [WalletNext]_walletVars => KeyPostedOnce'
    BY StepsAreAllowed, PostKeepsKeys DEF Allowed, KeyPostedOnce, walletVars
<1> QED
    BY <1>1, <1>2, WalletTypeCorrect, PTL DEF WalletSpec
=============================================================================
