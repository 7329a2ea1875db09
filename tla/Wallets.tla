------------------------------ MODULE Wallets ------------------------------
(***************************************************************************)
(* What a transaction does to the wallets: Wallet and CommonWallet of      *)
(* src/metalibs/meta_wallet, for the payments and the methods that common  *)
(* blocks carry.  Ledger and DailyCycle extend it, with wallets of their   *)
(* own: records that have at least the fields used here.                   *)
(***************************************************************************)
EXTENDS Integers, Sequences, SequencesExt

CONSTANTS
    Addr,                   \* addresses of wallets
    STATE_FEE_WALLET,       \* where the fees go
    MASTER_WALLETS,         \* MASTER_WALLET_COIN_FORGING and _NODE_FORGING
    Role,                   \* roles a wallet can ask for
    Tx,                     \* signed transactions in circulation
    MinimumCoinForging,     \* smallest delegation, per receiver
    LIMIT_DELEGATE_TO, LIMIT_DELEGATE_FROM,
    FREE_SIZE               \* bytes of a transaction that cost nothing

ASSUME WalletsAssumption ==
    /\ STATE_FEE_WALLET \in Addr
    /\ MASTER_WALLETS \subseteq Addr
    /\ MinimumCoinForging \in [Addr -> Nat]
    /\ LIMIT_DELEGATE_TO \in Nat /\ LIMIT_DELEGATE_FROM \in Nat
    /\ FREE_SIZE \in Nat

Method == {"none", "delegate", "undelegate", "register"}

ASSUME TxAssumption ==
    \A tx \in Tx :
        /\ tx.from \in Addr /\ tx.to \in Addr
        /\ tx.value \in Nat /\ tx.fee \in Nat /\ tx.nonce \in Nat /\ tx.size \in Nat
        /\ tx.method \in Method /\ tx.amount \in Nat /\ tx.roles \in SUBSET Role

Delegation == Addr \X Nat

(* Mutant: delegated coins count as free. *)
GetBalanceAll(w) == w.balance

GetBalance(w) == w.balance - w.delegated_to_sum

TX_REJECT_INSUFFICIENT_FEE == 65282
TX_REJECT_INSUFFICIENT_FUNDS == 65283
TX_REJECT_INVALID_NONCE == 65284
TX_REJECT_INSUFFICIENT_FUNDS_EXT == 65285
TX_REJECT_FOUNDER_LIMIT == 65286

(* What sub returns: 0, or the first reason that applies. *)
SubResult(w, tx, real_fee) ==
    LET total_sub == tx.value + real_fee IN
    IF GetBalance(w) < total_sub THEN TX_REJECT_INSUFFICIENT_FUNDS_EXT
    ELSE IF w.founder /\ w.used_limit + total_sub > w.limit THEN TX_REJECT_FOUNDER_LIMIT
    ELSE IF tx.fee < real_fee THEN TX_REJECT_INSUFFICIENT_FEE
    ELSE IF w.balance < total_sub THEN TX_REJECT_INSUFFICIENT_FUNDS
    ELSE IF w.transaction_id # tx.nonce THEN TX_REJECT_INVALID_NONCE
    ELSE 0

Add(W, a, value) == [W EXCEPT ![a].balance = @ + value]

(* Mutant: the nonce is not counted up. *)
PayKeepNonce(w, total_sub) ==
    [w EXCEPT !.balance = @ - total_sub,
              !.used_limit = IF w.founder THEN @ + total_sub ELSE @]

Pay(w, total_sub) ==
    [w EXCEPT !.balance = @ - total_sub,
              !.transaction_id = @ + 1,
              !.used_limit = IF w.founder THEN @ + total_sub ELSE @]

(* Mutant: the receiver's balance is read before the sender pays. *)
SubOldReceiver(W, tx, real_fee) ==
    [[W EXCEPT ![tx.from] = Pay(@, tx.value + real_fee)]
        EXCEPT ![tx.to].balance = W[tx.to].balance + tx.value]

(* What a sub that returns 0 does; a wallet may pay itself. *)
Sub(W, tx, real_fee) ==
    Add([W EXCEPT ![tx.from] = Pay(@, tx.value + real_fee)], tx.to, tx.value)

CanDelegate(W, tx) ==
    /\ GetBalance(W[tx.from]) >= tx.amount
    /\ tx.amount >= MinimumCoinForging[tx.to]
    /\ Len(W[tx.from].delegate_to) < LIMIT_DELEGATE_TO
    /\ tx.to \in MASTER_WALLETS \/ Len(W[tx.to].delegated_from) < LIMIT_DELEGATE_FROM

Lend(w, to, amount) ==
    [w EXCEPT !.delegate_to = Append(@, <<to, amount>>), !.delegated_to_sum = @ + amount]

Borrow(w, from, amount) ==
    [w EXCEPT !.delegated_from = Append(@, <<from, amount>>), !.delegated_from_sum = @ + amount]

Delegate(W, tx) ==
    LET lent == [W EXCEPT ![tx.from] = Lend(@, tx.to, tx.amount)]
    IN  [lent EXCEPT ![tx.to] = Borrow(@, tx.from, tx.amount)]

(* The positions of the delegations of a list that name a. *)
Naming(list, a) == {i \in DOMAIN list : list[i][1] = a}

(* The last of them, which is the one taken back. *)
LastNaming(list, a) == CHOOSE i \in Naming(list, a) : \A j \in Naming(list, a) : j <= i

CanUndelegate(W, tx) ==
    /\ Naming(W[tx.from].delegate_to, tx.to) # {}
    /\ Naming(W[tx.to].delegated_from, tx.from) # {}

TakeBack(w, to) ==
    LET i_to == LastNaming(w.delegate_to, to)
    IN  [w EXCEPT !.delegated_to_sum = @ - w.delegate_to[i_to][2],
                  !.delegate_to = RemoveAt(@, i_to)]

(* Mutant: the first delegation of the sender is dropped. *)
GiveBackFirst(w, from) ==
    LET i_from == CHOOSE i \in Naming(w.delegated_from, from) :
                    \A j \in Naming(w.delegated_from, from) : i <= j
    IN  [w EXCEPT !.delegated_from_sum = @ - w.delegated_from[i_from][2],
                  !.delegated_from = RemoveAt(@, i_from)]

GiveBack(w, from) ==
    LET i_from == LastNaming(w.delegated_from, from)
    IN  [w EXCEPT !.delegated_from_sum = @ - w.delegated_from[i_from][2],
                  !.delegated_from = RemoveAt(@, i_from)]

Undelegate(W, tx) ==
    LET taken == [W EXCEPT ![tx.from] = TakeBack(@, tx.to)]
    IN  [taken EXCEPT ![tx.to] = GiveBack(@, tx.from)]

(* Whether try_apply_method succeeds, and what it then does. *)
CanApplyMethod(W, tx) ==
    /\ tx.method = "delegate" => CanDelegate(W, tx)
    /\ tx.method = "undelegate" => CanUndelegate(W, tx)

ApplyMethod(W, tx) ==
    CASE tx.method = "delegate" -> Delegate(W, tx)
      [] tx.method = "undelegate" -> Undelegate(W, tx)
      [] tx.method = "register" -> [W EXCEPT ![tx.from].state = tx.roles]
      [] OTHER -> W

(* The coins of a list of delegations, and the amounts that name a. *)
Total(list) == SumFunction([i \in DOMAIN list |-> list[i][2]])

Amounts(list, a) ==
    FoldLeft(LAMBDA amounts, d : IF d[1] = a THEN Append(amounts, d[2]) ELSE amounts,
             << >>, list)

(* The fee grows by a coin per byte above FREE_SIZE. *)
Excess(size, free) == IF size > free THEN size - free ELSE 0
=============================================================================
