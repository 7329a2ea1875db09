---------------------------- MODULE LedgerProofs ----------------------------
(***************************************************************************)
(* Proofs about Ledger, for every set of wallets, transactions and blocks. *)
(***************************************************************************)
EXTENDS Ledger, WalletTheorems, WellFoundedInduction

(* Wallets of the right type that are covered. *)
Good(W) ==
    /\ W \in [Addr -> Wallet]
    /\ \A a \in Addr : Covered(W[a])

(* W2 differs from W only in the wallets of D, none of which falls behind. *)
Moves(W, W2, D) ==
    /\ \A a \in Addr \ D : W2[a] = W[a]
    /\ \A a \in Addr : Ahead(W2[a], W[a])

-----------------------------------------------------------------------------
(* One write to one wallet, and two writes in a row. *)

LEMMA PutGood ==
    ASSUME NEW W, Good(W), NEW x \in Addr,
           NEW w \in Wallet, Covered(w), Ahead(w, W[x])
    PROVE  /\ Good([W EXCEPT ![x] = w])
           /\ Moves(W, [W EXCEPT ![x] = w], {x})
<1>1. \A a \in Addr : [W EXCEPT ![x] = w][a] = IF a = x THEN w ELSE W[a]
  BY DEF Good
<1>2. \A a \in Addr : Ahead(W[a], W[a])
  <2> TAKE a \in Addr
  <2>1. W[a] \in Wallet
    BY DEF Good
  <2>2. W[a].transaction_id \in Nat /\ W[a].balance \in Nat
    BY <2>1 DEF Wallet
  <2>3. QED
    BY <2>2 DEF Ahead
<1>3. QED
  BY <1>1, <1>2 DEF Good, Moves

LEMMA MovesTwice ==
    ASSUME NEW W1, Good(W1), NEW W2, Good(W2), NEW W3, Good(W3), NEW D1, NEW D2,
           Moves(W1, W2, D1), Moves(W2, W3, D2)
    PROVE  Moves(W1, W3, D1 \cup D2)
<1>1. \A a \in Addr : Ahead(W3[a], W1[a])
  <2> TAKE a \in Addr
  <2>1. W1[a] \in Wallet /\ W2[a] \in Wallet /\ W3[a] \in Wallet
    BY DEF Good
  <2>2. \A w \in {W1[a], W2[a], W3[a]} : w.transaction_id \in Nat /\ w.balance \in Nat
    BY <2>1 DEF Wallet
  <2>3. Ahead(W2[a], W1[a]) /\ Ahead(W3[a], W2[a])
    BY DEF Moves
  <2>4. QED
    BY <2>2, <2>3 DEF Ahead
<1>2. QED
  BY <1>1 DEF Moves

-----------------------------------------------------------------------------
(* The writes of a transaction keep wallets good and move them on. *)

LEMMA AddGood ==
    ASSUME NEW W, Good(W), NEW x \in Addr, NEW value \in Nat
    PROVE  Good(Add(W, x, value)) /\ Moves(W, Add(W, x, value), {x})
<1> DEFINE w == W[x]
           more == [w EXCEPT !.balance = @ + value]
<1>1. w \in Wallet /\ Covered(w)
  BY DEF Good
<1>2. w.balance \in Nat /\ w.transaction_id \in Nat /\ w.delegated_to_sum \in Int
  BY <1>1 DEF Wallet
<1>3. more \in Wallet
  <2>1. w.balance + value \in Nat
    BY <1>2
  <2>2. QED
    BY <1>1, <2>1 DEF Wallet
<1>4. /\ more.balance = w.balance + value
      /\ more.transaction_id = w.transaction_id
      /\ more.delegated_to_sum = w.delegated_to_sum
      /\ more.founder = w.founder /\ more.used_limit = w.used_limit /\ more.limit = w.limit
  BY <1>1 DEF Wallet
<1>5. Covered(more) /\ Ahead(more, w)
  BY <1>1, <1>2, <1>4 DEF Covered, Ahead
<1>6. Add(W, x, value) = [W EXCEPT ![x] = more]
  BY DEF Add, Good
<1> HIDE DEF more
<1>7. LET W1 == [W EXCEPT ![x] = more] IN Good(W1) /\ Moves(W, W1, {x})
  BY <1>3, <1>5, PutGood
<1>8. QED
  BY <1>6, <1>7

(* What a payment that sub accepts leaves undisputed. *)
LEMMA SubAccepts ==
    ASSUME NEW w, NEW tx, NEW real_fee, SubResult(w, tx, real_fee) = 0
    PROVE  /\ ~ (GetBalance(w) < tx.value + real_fee)
           /\ ~ (w.founder /\ w.used_limit + (tx.value + real_fee) > w.limit)
           /\ ~ (w.balance < tx.value + real_fee)
<1> DEFINE total_sub == tx.value + real_fee
<1>1. CASE GetBalance(w) < total_sub
  <2>1. SubResult(w, tx, real_fee) = TX_REJECT_INSUFFICIENT_FUNDS_EXT
    BY <1>1 DEF SubResult
  <2>2. QED
    BY <2>1 DEF TX_REJECT_INSUFFICIENT_FUNDS_EXT
<1>2. CASE ~ (GetBalance(w) < total_sub) /\ w.founder /\ w.used_limit + total_sub > w.limit
  <2>1. SubResult(w, tx, real_fee) = TX_REJECT_FOUNDER_LIMIT
    BY <1>2 DEF SubResult
  <2>2. QED
    BY <2>1 DEF TX_REJECT_FOUNDER_LIMIT
<1>3. CASE /\ ~ (GetBalance(w) < total_sub)
           /\ ~ (w.founder /\ w.used_limit + total_sub > w.limit)
           /\ w.balance < total_sub
  <2>1. SubResult(w, tx, real_fee) \in {TX_REJECT_INSUFFICIENT_FEE, TX_REJECT_INSUFFICIENT_FUNDS}
    BY <1>3 DEF SubResult
  <2>2. QED
    BY <2>1 DEF TX_REJECT_INSUFFICIENT_FEE, TX_REJECT_INSUFFICIENT_FUNDS
<1>4. QED
  BY <1>1, <1>2, <1>3

LEMMA SubGood ==
    ASSUME NEW W, Good(W), NEW tx \in Tx, NEW real_fee \in Nat,
           SubResult(W[tx.from], tx, real_fee) = 0
    PROVE  /\ Good(Sub(W, tx, real_fee))
           /\ Moves(W, Sub(W, tx, real_fee), {tx.from, tx.to})
<1> DEFINE total_sub == tx.value + real_fee
           w == W[tx.from]
           paid == Pay(w, total_sub)
           W1 == [W EXCEPT ![tx.from] = paid]
<1>1. tx.from \in Addr /\ tx.to \in Addr /\ tx.value \in Nat /\ total_sub \in Nat
  BY TxAssumption, WalletsAssumption
<1>2. w \in Wallet /\ Covered(w)
  BY <1>1 DEF Good
<1>3. /\ w.balance - w.delegated_to_sum >= total_sub
      /\ ~(w.founder /\ w.used_limit + total_sub > w.limit)
      /\ w.balance >= total_sub
  <2>1. w.balance - w.delegated_to_sum \in Int /\ w.balance \in Int
    <3>1. w.balance \in Nat /\ w.delegated_to_sum \in Int
      BY <1>2 DEF Wallet
    <3>2. QED
      BY <3>1
  <2>2. /\ ~ (w.balance - w.delegated_to_sum < total_sub)
        /\ ~ (w.founder /\ w.used_limit + total_sub > w.limit)
        /\ ~ (w.balance < total_sub)
    BY SubAccepts DEF GetBalance
  <2>3. \A k \in Int : ~ (k < total_sub) => k >= total_sub
    BY <1>1
  <2>4. QED
    BY <2>1, <2>2, <2>3
<1>4. paid \in Wallet /\ Covered(paid) /\ Ahead(paid, w)
  <2>1. /\ w.balance \in Nat /\ w.transaction_id \in Nat /\ w.delegated_to_sum \in Int
        /\ w.founder \in BOOLEAN /\ w.used_limit \in Nat /\ w.limit \in Nat
    BY <1>2 DEF Wallet
  <2>2. w.balance - total_sub \in Nat /\ w.transaction_id + 1 \in Nat
    BY <1>1, <1>3, <2>1
  <2>3. (IF w.founder THEN w.used_limit + total_sub ELSE w.used_limit) \in Nat
    BY <1>1, <2>1
  <2>4. paid \in Wallet
    BY <1>2, <2>2, <2>3 DEF Pay, Wallet
  <2>5. /\ paid.balance = w.balance - total_sub
        /\ paid.transaction_id = w.transaction_id + 1
        /\ paid.delegated_to_sum = w.delegated_to_sum
        /\ paid.founder = w.founder /\ paid.limit = w.limit
        /\ paid.used_limit = IF w.founder THEN w.used_limit + total_sub ELSE w.used_limit
    BY <1>2 DEF Pay, Wallet
  <2>6. QED
    BY <1>1, <1>2, <1>3, <2>1, <2>4, <2>5 DEF Covered, Ahead
<1>5. Good(W1) /\ Moves(W, W1, {tx.from})
  BY <1>1, <1>4, PutGood
<1>6. Sub(W, tx, real_fee) = Add(W1, tx.to, tx.value)
  BY DEF Sub
<1> HIDE DEF W1
<1>7. Good(Add(W1, tx.to, tx.value)) /\ Moves(W1, Add(W1, tx.to, tx.value), {tx.to})
  BY <1>1, <1>5, AddGood
<1>8. Moves(W, Add(W1, tx.to, tx.value), {tx.from} \cup {tx.to})
  BY <1>5, <1>7, MovesTwice
<1>9. QED
  BY <1>6, <1>7, <1>8 DEF Moves

(* The four writes to the lists of delegations. *)
LEMMA LendGood ==
    ASSUME NEW w \in Wallet, Covered(w), NEW to \in Addr, NEW amount \in Nat,
           GetBalance(w) >= amount
    PROVE  LET v == Lend(w, to, amount) IN v \in Wallet /\ Covered(v) /\ Ahead(v, w)
<1> DEFINE v == Lend(w, to, amount)
<1>1. /\ w.balance \in Nat /\ w.transaction_id \in Nat /\ w.delegated_to_sum \in Int
      /\ w.delegate_to \in Seq(Delegation)
  BY DEF Wallet
<1>2. Append(w.delegate_to, <<to, amount>>) \in Seq(Delegation)
  BY <1>1, AppendProperties DEF Delegation
<1>3. v \in Wallet
  <2>1. w.delegated_to_sum + amount \in Int
    BY <1>1
  <2>2. QED
    BY <1>2, <2>1 DEF Lend, Wallet
<1>4. /\ v.balance = w.balance /\ v.transaction_id = w.transaction_id
      /\ v.delegated_to_sum = w.delegated_to_sum + amount
      /\ v.founder = w.founder /\ v.used_limit = w.used_limit /\ v.limit = w.limit
  BY DEF Lend, Wallet
<1>5. QED
  BY <1>1, <1>3, <1>4 DEF Covered, Ahead, GetBalance

LEMMA BorrowGood ==
    ASSUME NEW w \in Wallet, Covered(w), NEW from \in Addr, NEW amount \in Nat
    PROVE  LET v == Borrow(w, from, amount) IN v \in Wallet /\ Covered(v) /\ Ahead(v, w)
<1> DEFINE v == Borrow(w, from, amount)
<1>1. /\ w.balance \in Nat /\ w.transaction_id \in Nat
      /\ w.delegated_from \in Seq(Delegation) /\ w.delegated_from_sum \in Int
  BY DEF Wallet
<1>2. Append(w.delegated_from, <<from, amount>>) \in Seq(Delegation)
  BY <1>1, AppendProperties DEF Delegation
<1>3. v \in Wallet
  <2>1. w.delegated_from_sum + amount \in Int
    BY <1>1
  <2>2. QED
    BY <1>2, <2>1 DEF Borrow, Wallet
<1>4. /\ v.balance = w.balance /\ v.transaction_id = w.transaction_id
      /\ v.delegated_to_sum = w.delegated_to_sum
      /\ v.founder = w.founder /\ v.used_limit = w.used_limit /\ v.limit = w.limit
  BY DEF Borrow, Wallet
<1>5. QED
  BY <1>1, <1>3, <1>4 DEF Covered, Ahead

(* A list with a delegation that names a has a last one that does. *)
LEMMA LastNamingExists ==
    ASSUME NEW list \in Seq(Delegation), NEW a, Naming(list, a) # {}
    PROVE  LastNaming(list, a) \in DOMAIN list
<1> DEFINE left == {Len(list) - i : i \in Naming(list, a)}
<1>1. Len(list) \in Nat /\ DOMAIN list = 1 .. Len(list)
  BY LenProperties
<1>2. Naming(list, a) \subseteq 1 .. Len(list)
  BY <1>1 DEF Naming
<1>3. left \subseteq Nat /\ left # {}
  BY <1>1, <1>2
<1>4. PICK k \in left : \A l \in left : k <= l
  <2> DEFINE T == {1 .. m : m \in left}
             R == StrictSubsetOrdering(Nat)
  <2> HIDE DEF left
  <2>1. T \subseteq FiniteSubsetsOf(Nat) /\ T # {}
    <3>1. \A m \in Nat : IsFiniteSet(1 .. m) /\ 1 .. m \subseteq Nat
      BY FS_Interval
    <3>2. \A m \in left : 1 .. m \in FiniteSubsetsOf(Nat)
      BY <1>3, <3>1 DEF FiniteSubsetsOf
    <3>3. QED
      BY <1>3, <3>2
  <2>2. IsWellFoundedOn(R, FiniteSubsetsOf(Nat))
    BY FS_StrictSubsetOrderingWellFounded
  <2>3. PICK x \in T : \A y \in T : ~(<<y, x>> \in R)
    <3> HIDE DEF T, R
    <3>1. QED
      BY <2>1, <2>2, WFMin
  <2>4. PICK m \in left : x = 1 .. m
    OBVIOUS
  <2>5. \A l \in left : m <= l
    <3> SUFFICES ASSUME NEW l \in left, l < m
                 PROVE  FALSE
      BY <1>3
    <3>1. m \in Nat /\ l \in Nat
      BY <1>3
    <3>2. 1 .. l \subseteq 1 .. m /\ m \in 1 .. m /\ m \notin 1 .. l
      BY <3>1
    <3>3. 1 .. l \in SUBSET Nat /\ 1 .. m \in SUBSET Nat /\ 1 .. l # 1 .. m
      BY <3>1, <3>2
    <3>4. <<1 .. l, 1 .. m>> \in R
      BY <3>2, <3>3 DEF StrictSubsetOrdering
    <3>5. 1 .. l \in T
      OBVIOUS
    <3>6. QED
      BY <2>3, <2>4, <3>4, <3>5
  <2>6. QED
    BY <2>5
<1>6. PICK i \in Naming(list, a) : k = Len(list) - i
  OBVIOUS
<1>7. \A j \in Naming(list, a) : j <= i
  <2> TAKE j \in Naming(list, a)
  <2>1. k <= Len(list) - j
    BY <1>4
  <2>2. QED
    BY <1>1, <1>2, <1>6, <2>1
<1>8. LastNaming(list, a) \in Naming(list, a)
  BY <1>7 DEF LastNaming
<1>9. QED
  BY <1>8 DEF Naming

LEMMA RemoveAtSeq ==
    ASSUME NEW S, NEW s \in Seq(S), NEW i \in DOMAIN s
    PROVE  RemoveAt(s, i) \in Seq(S)
<1>1. i \in 1..Len(s)
  BY LenProperties
<1>2. SubSeq(s, 1, i-1) \in Seq(S) /\ SubSeq(s, i+1, Len(s)) \in Seq(S)
  BY <1>1, SubSeqProperties
<1>3. QED
  BY <1>2, ConcatProperties DEF RemoveAt

LEMMA TakeBackGood ==
    ASSUME NEW w \in Wallet, Covered(w), NEW to, Naming(w.delegate_to, to) # {}
    PROVE  LET v == TakeBack(w, to) IN v \in Wallet /\ Covered(v) /\ Ahead(v, w)
<1> DEFINE v == TakeBack(w, to)
           i == LastNaming(w.delegate_to, to)
<1>1. /\ w.balance \in Nat /\ w.transaction_id \in Nat /\ w.delegated_to_sum \in Int
      /\ w.delegate_to \in Seq(Delegation)
  BY DEF Wallet
<1>2. i \in DOMAIN w.delegate_to
  BY <1>1, LastNamingExists
<1>3. w.delegate_to[i][2] \in Nat
  BY <1>1, <1>2, ElementOfSeq, LenProperties DEF Delegation
<1>4. RemoveAt(w.delegate_to, i) \in Seq(Delegation)
  BY <1>1, <1>2, RemoveAtSeq
<1>5. w.delegated_to_sum - w.delegate_to[i][2] \in Int
  BY <1>1, <1>3
<1>6. v = [w EXCEPT !.delegated_to_sum = w.delegated_to_sum - w.delegate_to[i][2],
                    !.delegate_to = RemoveAt(w.delegate_to, i)]
  BY DEF TakeBack
<1> HIDE DEF i, v
<1>7. v \in Wallet
  BY <1>4, <1>5, <1>6 DEF Wallet
<1>8. /\ v.balance = w.balance /\ v.transaction_id = w.transaction_id
      /\ v.delegated_to_sum = w.delegated_to_sum - w.delegate_to[i][2]
      /\ v.founder = w.founder /\ v.used_limit = w.used_limit /\ v.limit = w.limit
  BY <1>6 DEF Wallet
<1>9. Covered(v) /\ Ahead(v, w)
  BY <1>1, <1>3, <1>8 DEF Covered, Ahead
<1>10. QED
  BY <1>7, <1>9 DEF v

LEMMA GiveBackGood ==
    ASSUME NEW w \in Wallet, Covered(w), NEW from, Naming(w.delegated_from, from) # {}
    PROVE  LET v == GiveBack(w, from) IN v \in Wallet /\ Covered(v) /\ Ahead(v, w)
<1> DEFINE v == GiveBack(w, from)
           i == LastNaming(w.delegated_from, from)
<1>1. /\ w.balance \in Nat /\ w.transaction_id \in Nat
      /\ w.delegated_from_sum \in Int /\ w.delegated_from \in Seq(Delegation)
  BY DEF Wallet
<1>2. i \in DOMAIN w.delegated_from
  BY <1>1, LastNamingExists
<1>3. w.delegated_from[i][2] \in Nat
  BY <1>1, <1>2, ElementOfSeq, LenProperties DEF Delegation
<1>4. RemoveAt(w.delegated_from, i) \in Seq(Delegation)
  BY <1>1, <1>2, RemoveAtSeq
<1>5. w.delegated_from_sum - w.delegated_from[i][2] \in Int
  BY <1>1, <1>3
<1>6. v = [w EXCEPT !.delegated_from_sum = w.delegated_from_sum - w.delegated_from[i][2],
                    !.delegated_from = RemoveAt(w.delegated_from, i)]
  BY DEF GiveBack
<1> HIDE DEF i, v
<1>7. v \in Wallet
  BY <1>4, <1>5, <1>6 DEF Wallet
<1>8. /\ v.balance = w.balance /\ v.transaction_id = w.transaction_id
      /\ v.delegated_to_sum = w.delegated_to_sum
      /\ v.founder = w.founder /\ v.used_limit = w.used_limit /\ v.limit = w.limit
  BY <1>6 DEF Wallet
<1>9. Covered(v) /\ Ahead(v, w)
  BY <1>1, <1>8 DEF Covered, Ahead
<1>10. QED
  BY <1>7, <1>9 DEF v

-----------------------------------------------------------------------------
(* The methods. *)

LEMMA DelegateGood ==
    ASSUME NEW W, Good(W), NEW tx \in Tx, CanDelegate(W, tx)
    PROVE  Good(Delegate(W, tx)) /\ Moves(W, Delegate(W, tx), {tx.from, tx.to})
<1> DEFINE lent == Lend(W[tx.from], tx.to, tx.amount)
           W1 == [W EXCEPT ![tx.from] = lent]
           owed == Borrow(W1[tx.to], tx.from, tx.amount)
           W2 == [W1 EXCEPT ![tx.to] = owed]
<1>1. tx.from \in Addr /\ tx.to \in Addr /\ tx.amount \in Nat
  BY TxAssumption, WalletsAssumption
<1>2. W[tx.from] \in Wallet /\ Covered(W[tx.from])
  BY <1>1 DEF Good
<1>3. lent \in Wallet /\ Covered(lent) /\ Ahead(lent, W[tx.from])
  BY <1>1, <1>2, LendGood DEF CanDelegate
<1> HIDE DEF lent
<1>4. Good(W1) /\ Moves(W, W1, {tx.from})
  BY <1>1, <1>3, PutGood
<1> HIDE DEF W1
<1>5. W1[tx.to] \in Wallet /\ Covered(W1[tx.to])
  BY <1>1, <1>4 DEF Good
<1>6. owed \in Wallet /\ Covered(owed) /\ Ahead(owed, W1[tx.to])
  BY <1>1, <1>5, BorrowGood
<1>7. Delegate(W, tx) = W2
  BY DEF Delegate, W1, lent
<1> HIDE DEF owed
<1>8. Good(W2) /\ Moves(W1, W2, {tx.to})
  BY <1>1, <1>4, <1>6, PutGood
<1> HIDE DEF W2
<1>9. Moves(W, W2, {tx.from} \cup {tx.to})
  BY <1>4, <1>8, MovesTwice
<1>10. QED
  BY <1>7, <1>8, <1>9 DEF Moves

LEMMA UndelegateGood ==
    ASSUME NEW W, Good(W), NEW tx \in Tx, CanUndelegate(W, tx)
    PROVE  Good(Undelegate(W, tx)) /\ Moves(W, Undelegate(W, tx), {tx.from, tx.to})
<1> DEFINE less == TakeBack(W[tx.from], tx.to)
           W1 == [W EXCEPT ![tx.from] = less]
           left == GiveBack(W1[tx.to], tx.from)
           W2 == [W1 EXCEPT ![tx.to] = left]
<1>1. tx.from \in Addr /\ tx.to \in Addr
  BY TxAssumption, WalletsAssumption
<1>2. W[tx.from] \in Wallet /\ Covered(W[tx.from])
  BY <1>1 DEF Good
<1>3. less \in Wallet /\ Covered(less) /\ Ahead(less, W[tx.from])
  BY <1>1, <1>2, TakeBackGood DEF CanUndelegate
<1>4. less.delegated_from = W[tx.from].delegated_from
  BY <1>2 DEF TakeBack, Wallet
<1> HIDE DEF less
<1>5. Good(W1) /\ Moves(W, W1, {tx.from})
  BY <1>1, <1>3, PutGood
<1>6. W1[tx.to].delegated_from = W[tx.to].delegated_from
  BY <1>1, <1>4 DEF Good
<1>7. Undelegate(W, tx) = W2
  BY DEF Undelegate, less
<1> HIDE DEF W1
<1>8. W1[tx.to] \in Wallet /\ Covered(W1[tx.to])
  BY <1>1, <1>5 DEF Good
<1>9. left \in Wallet /\ Covered(left) /\ Ahead(left, W1[tx.to])
  BY <1>1, <1>6, <1>8, GiveBackGood DEF CanUndelegate
<1> HIDE DEF left
<1>10. Good(W2) /\ Moves(W1, W2, {tx.to})
  BY <1>1, <1>5, <1>9, PutGood
<1> HIDE DEF W2
<1>11. Moves(W, W2, {tx.from} \cup {tx.to})
  BY <1>5, <1>10, MovesTwice
<1>12. QED
  BY <1>7, <1>10, <1>11 DEF Moves

LEMMA RegisterGood ==
    ASSUME NEW W, Good(W), NEW tx \in Tx
    PROVE  LET W1 == [W EXCEPT ![tx.from].state = tx.roles]
           IN  Good(W1) /\ Moves(W, W1, {tx.from, tx.to})
<1> DEFINE w == W[tx.from]
           named == [w EXCEPT !.state = tx.roles]
<1>1. tx.from \in Addr /\ tx.roles \in SUBSET Role
  BY TxAssumption, WalletsAssumption
<1>2. w \in Wallet /\ Covered(w)
  BY <1>1 DEF Good
<1>3. named \in Wallet
  BY <1>1, <1>2 DEF Wallet
<1>4. /\ named.balance = w.balance /\ named.transaction_id = w.transaction_id
      /\ named.delegated_to_sum = w.delegated_to_sum
      /\ named.founder = w.founder /\ named.used_limit = w.used_limit
      /\ named.limit = w.limit
      /\ w.balance \in Nat /\ w.transaction_id \in Nat
  BY <1>2 DEF Wallet
<1>5. Covered(named) /\ Ahead(named, w)
  BY <1>2, <1>4 DEF Covered, Ahead
<1>6. [W EXCEPT ![tx.from].state = tx.roles] = [W EXCEPT ![tx.from] = named]
  BY DEF Good
<1> HIDE DEF named
<1>7. QED
  BY <1>1, <1>3, <1>5, <1>6, PutGood DEF Moves

LEMMA MethodGood ==
    ASSUME NEW W, Good(W), NEW tx \in Tx, CanApplyMethod(W, tx)
    PROVE  Good(ApplyMethod(W, tx)) /\ Moves(W, ApplyMethod(W, tx), {tx.from, tx.to})
<1>1. tx.method \in Method
  BY TxAssumption, WalletsAssumption
<1>2. CASE tx.method = "none"
  <2>1. ApplyMethod(W, tx) = W
    BY <1>2 DEF ApplyMethod
  <2>2. \A a \in Addr : W[a].balance \in Nat /\ W[a].transaction_id \in Nat
    <3> TAKE a \in Addr
    <3>1. W[a] \in Wallet
      BY DEF Good
    <3>2. QED
      BY <3>1 DEF Wallet
  <2>3. QED
    BY <2>1, <2>2 DEF Moves, Ahead
<1>3. CASE tx.method = "delegate"
  BY <1>3, DelegateGood DEF ApplyMethod, CanApplyMethod
<1>4. CASE tx.method = "undelegate"
  BY <1>4, UndelegateGood DEF ApplyMethod, CanApplyMethod
<1>5. CASE tx.method = "register"
  BY <1>5, RegisterGood DEF ApplyMethod
<1>6. QED
  BY <1>1, <1>2, <1>3, <1>4, <1>5 DEF Method

-----------------------------------------------------------------------------
(* What the steps do to the pair of staged and committed wallets. *)

(* The part of IInv that is about this pair. *)
Pair ==
    /\ Good(wallets) /\ Good(real_wallets)
    /\ changed_wallets \subseteq Addr
    /\ DryRunsLeaveNoTrace
    /\ StagedAhead

LEMMA PairOf == IInv => Pair
  BY DEF IInv, TypeOK, CoinsCovered, Pair, Good

LEMMA PairStays ==
    ASSUME Pair, UNCHANGED <<wallets, real_wallets, changed_wallets>>,
           phase' = phase \/ phase \notin {"making", "checking", "applying"}
    PROVE  Pair'
  BY DEF Pair, Good, DryRunsLeaveNoTrace, StagedAhead

(* A transaction moves staged wallets and lists them. *)
LEMMA PairStaged ==
    ASSUME Pair, NEW D \in SUBSET Addr, Good(wallets'), Moves(wallets, wallets', D),
           changed_wallets' = changed_wallets \cup D,
           UNCHANGED <<real_wallets, phase>>, phase \in {"making", "checking", "applying"}
    PROVE  Pair'
<1>1. \A a \in Addr \ changed_wallets' : wallets'[a] = real_wallets'[a]
  BY DEF Pair, DryRunsLeaveNoTrace, Moves
<1>2. DryRunsLeaveNoTrace'
  BY <1>1 DEF DryRunsLeaveNoTrace
<1>3. Moves(real_wallets, wallets, Addr)
  BY DEF Pair, StagedAhead, Moves
<1>4. Moves(real_wallets, wallets', Addr \cup D)
  BY <1>3, MovesTwice DEF Pair
<1>5. StagedAhead'
  BY <1>4 DEF StagedAhead, Moves
<1>6. Good(wallets)' /\ Good(real_wallets)'
  BY DEF Pair, Good
<1>7. QED
  BY <1>2, <1>5, <1>6 DEF Pair

LEMMA AheadOfItself ==
    ASSUME NEW W, Good(W)
    PROVE  \A a \in Addr : Ahead(W[a], W[a])
<1> TAKE a \in Addr
<1>1. W[a] \in Wallet
  BY DEF Good
<1>2. W[a].balance \in Nat /\ W[a].transaction_id \in Nat
  BY <1>1 DEF Wallet
<1>3. QED
  BY <1>2 DEF Ahead

(* clear_changes takes the wallets back to the committed ones. *)
LEMMA PairCleared ==
    ASSUME Pair, ClearChanges
    PROVE  Pair' /\ UNCHANGED real_wallets
<1>1. wallets' = real_wallets /\ real_wallets' = real_wallets /\ changed_wallets' = {}
  BY DEF Pair, Good, DryRunsLeaveNoTrace, ClearChanges
<1>2. DryRunsLeaveNoTrace' /\ Good(wallets)' /\ Good(real_wallets)'
  BY <1>1 DEF Pair, Good, DryRunsLeaveNoTrace
<1>3. StagedAhead'
  BY <1>1, AheadOfItself DEF StagedAhead, Pair
<1>4. QED
  BY <1>1, <1>2, <1>3 DEF Pair

(* apply_changes commits all the staged wallets. *)
LEMMA PairCommitted ==
    ASSUME Pair, ApplyChanges
    PROVE  Pair' /\ real_wallets' = wallets
<1>1. wallets' = wallets /\ real_wallets' = wallets /\ changed_wallets' = {}
  BY DEF Pair, Good, DryRunsLeaveNoTrace, ApplyChanges
<1>2. DryRunsLeaveNoTrace' /\ Good(wallets)' /\ Good(real_wallets)'
  BY <1>1 DEF Pair, Good, DryRunsLeaveNoTrace
<1>3. StagedAhead'
  BY <1>1, AheadOfItself DEF StagedAhead, Pair
<1>4. QED
  BY <1>1, <1>2, <1>3 DEF Pair

-----------------------------------------------------------------------------
(* The transactions of the two walks. *)

LEMMA MovesWithin ==
    ASSUME NEW W1, NEW W2, NEW D, NEW E, Moves(W1, W2, D), D \subseteq E
    PROVE  Moves(W1, W2, E)
  BY DEF Moves

LEMMA FeeTypes ==
    ASSUME TypeOK, NEW tx \in Tx
    PROVE  MakeFee(tx) \in Nat /\ CheckFee(tx) \in Nat
<1>1. block.fee \in Nat
  BY DEF TypeOK, Block
<1>2. tx.size \in Nat /\ FREE_SIZE \in Nat
  BY TxAssumption, WalletsAssumption, LevelAssumption
<1>3. Excess(tx.size, FREE_SIZE) \in Nat /\ Excess(tx.size + 1, FREE_SIZE + 1) \in Nat
  BY <1>2 DEF Excess
<1>4. QED
  BY <1>1, <1>3 DEF MakeFee, CheckFee

LEMMA ItemTypes ==
    ASSUME TypeOK, NEW i \in todo
    PROVE  /\ phase = "making" => transactions[i] \in Tx
           /\ phase # "making" => block.txs[i] \in Entry /\ block.txs[i].tx \in Tx
<1>1. phase = "making" => transactions[i] \in Tx
  BY ElementOfSeq, LenProperties DEF TypeOK
<1>2. phase # "making" => block.txs[i] \in Entry
  BY ElementOfSeq, LenProperties DEF TypeOK, Block
<1>3. QED
  BY <1>1, <1>2 DEF Entry

LEMMA MakeTxPair ==
    ASSUME IInv, NEW i \in todo, MakeTx(i)
    PROVE  Pair'
<1> DEFINE tx == transactions[i]
           fee == MakeFee(tx)
           sub == Sub(wallets, tx, fee)
           paid == Add(sub, STATE_FEE_WALLET, fee)
           D == {tx.from, tx.to}
<1>1. tx \in Tx /\ fee \in Nat /\ Good(wallets) /\ Pair
  BY PairOf, ItemTypes, FeeTypes DEF IInv, MakeTx, Pair
<1>2. /\ SubResult(wallets[tx.from], tx, fee) = 0
      /\ wallets' = IF CanApplyMethod(paid, tx) THEN ApplyMethod(paid, tx) ELSE paid
      /\ changed_wallets' = changed_wallets \cup Touched(tx)
      /\ UNCHANGED <<real_wallets, phase>> /\ phase = "making"
  BY DEF MakeTx
<1> HIDE DEF tx, fee
<1>3. Good(sub) /\ Moves(wallets, sub, D)
  BY <1>1, <1>2, SubGood
<1> HIDE DEF sub
<1>4. Good(paid) /\ Moves(sub, paid, {STATE_FEE_WALLET})
  BY <1>1, <1>3, AddGood, TxAssumption, WalletsAssumption
<1> HIDE DEF paid
<1>5. Moves(wallets, paid, D \cup {STATE_FEE_WALLET})
  BY <1>1, <1>3, <1>4, MovesTwice
<1>6. Good(wallets') /\ Moves(wallets, wallets', (D \cup {STATE_FEE_WALLET}) \cup D)
  <2>1. CASE CanApplyMethod(paid, tx)
    <3>1. Good(ApplyMethod(paid, tx)) /\ Moves(paid, ApplyMethod(paid, tx), D)
      BY <1>1, <1>4, <2>1, MethodGood
    <3>2. wallets' = ApplyMethod(paid, tx)
      BY <1>2, <2>1
    <3>3. QED
      BY <1>1, <1>4, <1>5, <3>1, <3>2, MovesTwice
  <2>2. CASE ~CanApplyMethod(paid, tx)
    BY <1>2, <1>4, <1>5, <2>2 DEF Moves
  <2>3. QED
    BY <2>1, <2>2
<1>7. Touched(tx) \in SUBSET Addr /\ (D \cup {STATE_FEE_WALLET}) \cup D \subseteq Touched(tx)
  BY <1>1, TxAssumption, WalletsAssumption DEF Touched
<1>8. Moves(wallets, wallets', Touched(tx))
  BY <1>6, <1>7, MovesWithin
<1>9. QED
  BY <1>1, <1>2, <1>6, <1>7, <1>8, PairStaged

LEMMA CheckTxPair ==
    ASSUME IInv, NEW i \in todo, CheckTx(i)
    PROVE  Pair'
<1> DEFINE tx == block.txs[i].tx
           fee == CheckFee(tx)
           paid == Sub(wallets, tx, fee)
           done == IF block.txs[i].state = "accept" THEN ApplyMethod(paid, tx) ELSE paid
           D == {tx.from, tx.to}
<1>1. tx \in Tx /\ fee \in Nat /\ Good(wallets) /\ Pair
  BY PairOf, ItemTypes, FeeTypes DEF IInv, CheckTx, Walking, Pair
<1>2. /\ SubResult(wallets[tx.from], tx, fee) = 0
      /\ block.txs[i].state = "accept" => CanApplyMethod(paid, tx)
      /\ wallets' = Add(done, STATE_FEE_WALLET, fee)
      /\ changed_wallets' = changed_wallets \cup Touched(tx)
      /\ UNCHANGED <<real_wallets, phase>> /\ phase \in {"checking", "applying"}
  BY DEF CheckTx, Passes, Walking
<1> HIDE DEF tx, fee
<1>3. Good(paid) /\ Moves(wallets, paid, D)
  BY <1>1, <1>2, SubGood
<1> HIDE DEF paid
<1>4. Good(done) /\ Moves(wallets, done, D \cup D)
  <2>1. CASE block.txs[i].state = "accept"
    <3>1. Good(ApplyMethod(paid, tx)) /\ Moves(paid, ApplyMethod(paid, tx), D)
      BY <1>1, <1>2, <1>3, <2>1, MethodGood
    <3>2. QED
      BY <1>1, <1>3, <2>1, <3>1, MovesTwice
  <2>2. CASE block.txs[i].state # "accept"
    BY <1>3, <2>2 DEF Moves
  <2>3. QED
    BY <2>1, <2>2
<1> HIDE DEF done
<1>5. Good(wallets') /\ Moves(done, wallets', {STATE_FEE_WALLET})
  BY <1>1, <1>2, <1>4, AddGood, TxAssumption, WalletsAssumption
<1>6. Moves(wallets, wallets', (D \cup D) \cup {STATE_FEE_WALLET})
  BY <1>1, <1>4, <1>5, MovesTwice
<1>7. Touched(tx) \in SUBSET Addr /\ (D \cup D) \cup {STATE_FEE_WALLET} \subseteq Touched(tx)
  BY <1>1, TxAssumption, WalletsAssumption DEF Touched
<1>8. Moves(wallets, wallets', Touched(tx))
  BY <1>6, <1>7, MovesWithin
<1>9. QED
  BY <1>1, <1>2, <1>5, <1>7, <1>8, PairStaged

LEMMA CheckTxApprovedPair ==
    ASSUME IInv, NEW i \in todo, CheckTxApproved(i)
    PROVE  Pair'
<1> DEFINE tx == block.txs[i].tx
           D == IF SubResult(wallets[tx.from], tx, 0) = 0 THEN {tx.from, tx.to} ELSE {}
<1>1. tx \in Tx /\ Good(wallets) /\ Pair
  BY PairOf, ItemTypes DEF IInv, CheckTxApproved, Walking, Pair
<1>2. /\ wallets' = IF SubResult(wallets[tx.from], tx, 0) = 0 THEN Sub(wallets, tx, 0) ELSE wallets
      /\ changed_wallets' = changed_wallets \cup D
      /\ UNCHANGED <<real_wallets, phase>> /\ phase \in {"checking", "applying"}
  BY DEF CheckTxApproved, Walking
<1> HIDE DEF tx
<1>3. Good(wallets') /\ Moves(wallets, wallets', D)
  <2>1. CASE SubResult(wallets[tx.from], tx, 0) = 0
    BY <1>1, <1>2, <2>1, SubGood
  <2>2. CASE SubResult(wallets[tx.from], tx, 0) # 0
    BY <1>1, <1>2, <2>2, AheadOfItself DEF Moves
  <2>3. QED
    BY <2>1, <2>2
<1>4. D \in SUBSET Addr
  BY <1>1, TxAssumption, WalletsAssumption
<1>5. QED
  BY <1>1, <1>2, <1>3, <1>4, PairStaged

-----------------------------------------------------------------------------
(* The rest of the state: queues and walks. *)

Rest ==
    /\ transactions \in Seq(Tx)
    /\ rejected \subseteq Tx \X Nat
    /\ phase \in Phase
    /\ block \in Block
    /\ own \in BOOLEAN
    /\ todo \subseteq (IF phase = "making" THEN DOMAIN transactions ELSE DOMAIN block.txs)
    /\ pending \in Block

LEMMA FromParts == Pair /\ Rest => IInv
  BY DEF Pair, Rest, IInv, TypeOK, Good, CoinsCovered

LEMMA NoBlockType == NoBlock \in Block /\ DOMAIN NoBlock.txs = {}
<1>1. << >> \in Seq(Entry) /\ DOMAIN << >> = {}
  BY EmptySeq
<1>2. QED
  BY <1>1 DEF NoBlock, Block

LEMMA FeeLevel ==
    ASSUME NEW cnt
    PROVE  GetFee(cnt) \in Nat
<1> DEFINE fifth == (MAX_TRANSACTION_COUNT * 20) \div 100
           above == {k \in 1..4 : cnt > k * fifth}
<1>1. IsFiniteSet(1..4) /\ Cardinality(1..4) = 4
  <2>1. \A m \in Nat : m > 0 => IsFiniteSet(1..m) /\ Cardinality(1..m) = m
    BY FS_Interval
  <2>2. QED
    BY <2>1, 4 \in Nat /\ 4 > 0, Zenon
<1>2. Cardinality(above) \in Nat /\ Cardinality(above) <= 4
  <2>1. above \subseteq 1..4
    OBVIOUS
  <2> HIDE DEF above
  <2>2. QED
    BY <1>1, <2>1, FS_Subset, FS_CardinalityType
<1> HIDE DEF above
<1>3. GetFee(cnt) = COMISSION_COMMON[1 + Cardinality(above)]
  BY DEF GetFee, above
<1>4. 1 + Cardinality(above) \in 1..5
  BY <1>2
<1>5. QED
  BY <1>3, <1>4, LevelAssumption, WalletsAssumption

LEMMA ReceiveTxStep ==
    ASSUME IInv, NEW tx \in Tx, ReceiveTx(tx)
    PROVE  IInv'
<1>1. Pair'
  BY PairOf, PairStays DEF ReceiveTx, walk
<1>2. transactions' \in Seq(Tx)
  BY AppendProperties DEF IInv, TypeOK, ReceiveTx
<1>3. Rest'
  BY <1>2 DEF IInv, TypeOK, Rest, ReceiveTx, walk
<1>4. QED
  BY <1>1, <1>3, FromParts, PTL

LEMMA StartMakingStep ==
    ASSUME IInv, StartMaking
    PROVE  IInv'
<1>1. Pair'
  BY PairOf, PairStays DEF StartMaking
<1>2. block' \in Block
  <2>1. << >> \in Seq(Entry)
    BY EmptySeq
  <2>2. QED
    BY <2>1, FeeLevel DEF StartMaking, Block
<1>3. Rest'
  BY <1>2 DEF IInv, TypeOK, Rest, StartMaking, Phase
<1>4. QED
  BY <1>1, <1>3, FromParts, PTL

LEMMA MakeTxRejectedStep ==
    ASSUME IInv, NEW i \in todo, MakeTxRejected(i)
    PROVE  IInv'
<1>1. Pair'
  BY PairOf, PairStays DEF MakeTxRejected
<1>2. transactions[i] \in Tx
  BY ItemTypes DEF IInv, MakeTxRejected
<1>3. rejected' \subseteq Tx \X Nat
  BY <1>2 DEF IInv, TypeOK, MakeTxRejected
<1>4. Rest'
  BY <1>3 DEF IInv, TypeOK, Rest, MakeTxRejected
<1>5. QED
  BY <1>1, <1>4, FromParts, PTL

LEMMA MakeTxStep ==
    ASSUME IInv, NEW i \in todo, MakeTx(i)
    PROVE  IInv'
<1>1. Pair'
  BY MakeTxPair
<1>2. transactions[i] \in Tx
  BY ItemTypes DEF IInv, MakeTx
<1>3. PICK state \in {"accept", "wrong_data"} :
        block' = [block EXCEPT !.txs = Append(@, [tx |-> transactions[i], state |-> state])]
  BY DEF MakeTx
<1>4. [tx |-> transactions[i], state |-> state] \in Entry
  BY <1>2 DEF Entry, TxState
<1>5. Append(block.txs, [tx |-> transactions[i], state |-> state]) \in Seq(Entry)
  BY <1>4, AppendProperties DEF IInv, TypeOK, Block
<1>6. block' \in Block
  BY <1>3, <1>5 DEF IInv, TypeOK, Block
<1>7. Rest'
  BY <1>6 DEF IInv, TypeOK, Rest, MakeTx
<1>8. QED
  BY <1>1, <1>7, FromParts, PTL

LEMMA EndMakingStep ==
    ASSUME IInv, EndMaking
    PROVE  IInv' /\ UNCHANGED real_wallets
<1>1. Pair' /\ UNCHANGED real_wallets
  BY PairOf, PairCleared DEF EndMaking
<1>2. transactions' \in Seq(Tx)
  BY EmptySeq DEF EndMaking
<1>3. Rest'
  <2>1. CASE block.txs = << >>
    BY <1>2, <2>1, NoBlockType DEF IInv, TypeOK, Rest, EndMaking, Phase, NoBlock
  <2>2. CASE block.txs # << >>
    BY <1>2, <2>2 DEF IInv, TypeOK, Rest, EndMaking, Phase
  <2>3. QED
    BY <2>1, <2>2
<1>4. QED
  BY <1>1, <1>3, FromParts, PTL

LEMMA MakeRejectedTxBlockStep ==
    ASSUME IInv, MakeRejectedTxBlock
    PROVE  IInv'
<1>1. Pair'
  BY PairOf, PairStays DEF MakeRejectedTxBlock, walk
<1>2. Rest'
  BY DEF IInv, TypeOK, Rest, MakeRejectedTxBlock, walk
<1>3. QED
  BY <1>1, <1>2, FromParts, PTL

LEMMA ReceiveBlockStep ==
    ASSUME IInv, NEW b \in ReceivedBlocks, NEW p \in {"checking", "applying"},
           ReceiveBlock(b, p)
    PROVE  IInv'
<1>1. Pair'
  BY PairOf, PairStays DEF ReceiveBlock
<1>2. b \in Block
  BY OpeningAssumption
<1>3. Rest'
  BY <1>2 DEF IInv, TypeOK, Rest, ReceiveBlock, Phase
<1>4. QED
  BY <1>1, <1>3, FromParts, PTL

LEMMA StartApplyingStep ==
    ASSUME IInv, StartApplying
    PROVE  IInv'
<1>1. Pair'
  BY PairOf, PairStays DEF StartApplying
<1>2. Rest'
  BY DEF IInv, TypeOK, Rest, StartApplying, Phase
<1>3. QED
  BY <1>1, <1>2, FromParts, PTL

LEMMA WalkStep ==
    ASSUME IInv, NEW i \in todo, CheckTxApproved(i) \/ CheckTx(i)
    PROVE  IInv'
<1>1. Pair'
  BY CheckTxApprovedPair, CheckTxPair
<1>2. Rest'
  BY DEF IInv, TypeOK, Rest, CheckTxApproved, CheckTx
<1>3. QED
  BY <1>1, <1>2, FromParts, PTL

LEMMA RefuseStep ==
    ASSUME IInv, NEW i \in todo, Refuse(i)
    PROVE  IInv' /\ UNCHANGED real_wallets
<1>1. Pair' /\ UNCHANGED real_wallets
  BY PairOf, PairCleared DEF Refuse
<1>2. Rest'
  BY NoBlockType DEF IInv, TypeOK, Rest, Refuse, EndWalk, Phase
<1>3. QED
  BY <1>1, <1>2, FromParts, PTL

LEMMA EndCheckingStep ==
    ASSUME IInv, EndChecking
    PROVE  IInv' /\ UNCHANGED real_wallets
<1>1. Pair' /\ UNCHANGED real_wallets
  BY PairOf, PairCleared DEF EndChecking
<1>2. Rest'
  BY NoBlockType DEF IInv, TypeOK, Rest, EndChecking, EndWalk, Phase
<1>3. QED
  BY <1>1, <1>2, FromParts, PTL

LEMMA EndApplyingStep ==
    ASSUME IInv, EndApplying
    PROVE  IInv' /\ real_wallets' = wallets
<1>1. Pair' /\ real_wallets' = wallets
  BY PairOf, PairCommitted DEF EndApplying
<1>2. Rest'
  BY NoBlockType DEF IInv, TypeOK, Rest, EndApplying, EndWalk, Phase
<1>3. QED
  BY <1>1, <1>2, FromParts, PTL

-----------------------------------------------------------------------------
(* The theorems. *)

LEMMA InitIInv == Init => IInv
<1> SUFFICES ASSUME Init PROVE IInv
  OBVIOUS
<1>1. Good(Opening)
  BY OpeningAssumption DEF Good, Covered
<1>2. Pair
  BY <1>1, AheadOfItself DEF Init, Pair, DryRunsLeaveNoTrace, StagedAhead
<1>3. << >> \in Seq(Tx)
  BY EmptySeq
<1>4. Rest
  BY <1>3, NoBlockType DEF Init, Rest, Phase
<1>5. QED
  BY <1>2, <1>4, FromParts

(* Every step keeps the invariant; the committed wallets change only when
   a walk that applies a block ends, to the staged ones. *)
LEMMA NextIInv ==
    ASSUME IInv, [Next]_vars
    PROVE  IInv' /\ (real_wallets' = real_wallets \/ real_wallets' = wallets)
<1>1. CASE \E tx \in Tx : ReceiveTx(tx)
  BY <1>1, ReceiveTxStep DEF ReceiveTx
<1>2. CASE StartMaking
  BY <1>2, StartMakingStep DEF StartMaking
<1>3. CASE \E i \in todo : MakeTxRejected(i)
  BY <1>3, MakeTxRejectedStep DEF MakeTxRejected
<1>4. CASE \E i \in todo : MakeTx(i)
  BY <1>4, MakeTxStep DEF MakeTx
<1>5. CASE EndMaking
  BY <1>5, EndMakingStep
<1>6. CASE MakeRejectedTxBlock
  BY <1>6, MakeRejectedTxBlockStep DEF MakeRejectedTxBlock
<1>7. CASE \E b \in ReceivedBlocks, p \in {"checking", "applying"} : ReceiveBlock(b, p)
  BY <1>7, ReceiveBlockStep DEF ReceiveBlock
<1>8. CASE StartApplying
  BY <1>8, StartApplyingStep DEF StartApplying
<1>9. CASE \E i \in todo : CheckTxApproved(i) \/ CheckTx(i)
  BY <1>9, WalkStep DEF CheckTxApproved, CheckTx
<1>10. CASE \E i \in todo : Refuse(i)
  BY <1>10, RefuseStep
<1>11. CASE EndChecking
  BY <1>11, EndCheckingStep
<1>12. CASE EndApplying
  BY <1>12, EndApplyingStep
<1>13. CASE UNCHANGED vars
  <2>1. Pair'
    BY <1>13, PairOf, PairStays DEF vars
  <2>2. Rest'
    BY <1>13 DEF IInv, TypeOK, Rest, vars, walk
  <2>3. IInv'
    BY <2>1, <2>2, FromParts, PTL
  <2>4. QED
    BY <1>13, <2>3 DEF vars
<1>14. QED
  BY <1>1, <1>2, <1>3, <1>4, <1>5, <1>6, <1>7, <1>8, <1>9, <1>10, <1>11, <1>12,
     <1>13 DEF Next

(* The inductive invariant holds throughout: on every set of wallets,
   transactions and received blocks, and with any number of them. *)
THEOREM LedgerInvariance == Spec => []IInv
<1>1. IInv /\ [Next]_vars => IInv'
  BY NextIInv
<1>2. QED
  BY InitIInv, <1>1, PTL DEF Spec

(* Every variable keeps its type; no balance passes below zero. *)
THEOREM LedgerTypeCorrect == Spec => []TypeOK
<1>1. IInv => TypeOK
  BY DEF IInv
<1>2. QED
  BY LedgerInvariance, <1>1, PTL

(* Making a block, accepting one and refusing one half-way leave every
   staged wallet at its committed value. *)
THEOREM DryRuns == Spec => []DryRunsLeaveNoTrace
<1>1. IInv => DryRunsLeaveNoTrace
  BY DEF IInv
<1>2. QED
  BY LedgerInvariance, <1>1, PTL

(* No wallet spends coins it has delegated, no founder more than the limit. *)
THEOREM CoinsAreCovered == Spec => []CoinsCovered
<1>1. IInv => CoinsCovered
  BY DEF IInv
<1>2. QED
  BY LedgerInvariance, <1>1, PTL

(* Committed nonces never go back, and no wallet is charged without using
   up a nonce. *)
THEOREM ChargesUseNonces == Spec => ChargedByNonce
<1> DEFINE Charged == \A a \in Addr :
        /\ real_wallets'[a].transaction_id >= real_wallets[a].transaction_id
        /\ real_wallets'[a].balance < real_wallets[a].balance =>
            real_wallets'[a].transaction_id > real_wallets[a].transaction_id
<1>1. ASSUME IInv, [Next]_vars
      PROVE  Charged
  <2>1. \A a \in Addr : Ahead(real_wallets[a], real_wallets[a])
    BY <1>1, PairOf, AheadOfItself DEF Pair
  <2>2. \A a \in Addr : Ahead(wallets[a], real_wallets[a])
    BY <1>1 DEF IInv, StagedAhead
  <2>3. QED
    BY <1>1, <2>1, <2>2, NextIInv DEF Ahead
<1>2. IInv /\ [Next]_vars => [Charged]_vars
  BY <1>1
<1>3. QED
  BY LedgerInvariance, <1>2, PTL DEF Spec, ChargedByNonce

-----------------------------------------------------------------------------
(* Walks through a block: the order in which std::sort brings the entries,
   and what each entry does to the wallets. *)

(* The fee of a transaction in a block, whether the walk goes on after an
   entry, and what the entry then does. *)
Charge(fee, tx) == fee + Excess(tx.size + 1, FREE_SIZE + 1)

Fine(fee, e, W) ==
    LET paid == Sub(W, e.tx, Charge(fee, e.tx))
    IN  e.state # "approve" =>
            /\ SubResult(W[e.tx.from], e.tx, Charge(fee, e.tx)) = 0
            /\ e.state = "accept" => CanApplyMethod(paid, e.tx)

Worked(fee, e, W) ==
    LET paid == Sub(W, e.tx, Charge(fee, e.tx))
    IN  IF e.state = "approve"
        THEN IF SubResult(W[e.tx.from], e.tx, 0) = 0 THEN Sub(W, e.tx, 0) ELSE W
        ELSE Add(IF e.state = "accept" THEN ApplyMethod(paid, e.tx) ELSE paid,
                 STATE_FEE_WALLET, Charge(fee, e.tx))

(* The order of a short list of transactions. *)
Prior(s, i, j) == s[i].tx.nonce < s[j].tx.nonce \/ (s[i].tx.nonce = s[j].tx.nonce /\ i <= j)

Leads(s, S, i) == i \in S /\ \A j \in S : Prior(s, i, j)

(* The positions that a walk may have left. *)
Left(s, S) == S \in SUBSET DOMAIN s /\ \A i \in S, j \in DOMAIN s \ S : ~Prior(s, i, j)

(* V are the wallets of a walk from W, by the positions left; it passes
   until T is left. *)
Passing(b, W, T, V) ==
    /\ V[DOMAIN b.txs] = W
    /\ \A S : Left(b.txs, S) /\ T \subseteq S /\ S # T =>
        \A i : Leads(b.txs, S, i) =>
            /\ Fine(b.fee, b.txs[i], V[S])
            /\ V[S \ {i}] = Worked(b.fee, b.txs[i], V[S])

(* They are U where T is left. *)
Reaches(b, W, T, V, U) == Passing(b, W, T, V) /\ V[T] = U

(* The order is total on the positions of a block. *)
LEMMA PriorTotal ==
    ASSUME NEW s \in Seq(Entry), NEW i \in DOMAIN s, NEW j \in DOMAIN s
    PROVE  /\ Prior(s, i, j) \/ Prior(s, j, i)
           /\ Prior(s, i, j) /\ Prior(s, j, i) => i = j
           /\ i \in 1 .. Len(s) /\ s[i].tx.nonce \in Nat
<1>1. i \in 1 .. Len(s) /\ j \in 1 .. Len(s) /\ Len(s) \in Nat
  BY LenProperties
<1>2. s[i] \in Entry /\ s[j] \in Entry
  BY <1>1, ElementOfSeq
<1>3. s[i].tx.nonce \in Nat /\ s[j].tx.nonce \in Nat
  BY <1>2, TxAssumption DEF Entry
<1>4. QED
  BY <1>1, <1>3 DEF Prior

(* Only one position leads. *)
LEMMA OneLeads ==
    ASSUME NEW s \in Seq(Entry), NEW S \in SUBSET DOMAIN s, NEW i, NEW j,
           Leads(s, S, i), Leads(s, S, j)
    PROVE  i = j
BY PriorTotal DEF Leads

(* The walk goes on from what is left. *)
LEMMA LeftLess ==
    ASSUME NEW s \in Seq(Entry), NEW T, Left(s, T), NEW i, Leads(s, T, i)
    PROVE  Left(s, T \ {i})
<1> SUFFICES ASSUME NEW k \in T \ {i}, NEW j \in DOMAIN s \ (T \ {i})
             PROVE  ~Prior(s, k, j)
  BY DEF Left
<1>1. k \in DOMAIN s /\ i \in DOMAIN s
  BY DEF Left, Leads
<1>2. CASE j = i
  BY <1>1, <1>2, PriorTotal DEF Leads
<1>3. CASE j # i
  BY <1>3 DEF Left
<1>4. QED
  BY <1>2, <1>3

(* A remainder larger than the next one holds the position that leads as well. *)
LEMMA NextLarger ==
    ASSUME NEW s \in Seq(Entry), NEW T, Left(s, T), NEW i, Leads(s, T, i),
           NEW S, Left(s, S), T \ {i} \subseteq S, S # T \ {i}
    PROVE  T \subseteq S
<1> SUFFICES i \in S
  OBVIOUS
<1>1. PICK j \in S : j \notin T \ {i}
  OBVIOUS
<1>2. i \in DOMAIN s /\ j \in DOMAIN s /\ i \in T
  BY <1>1 DEF Left, Leads
<1>3. CASE j # i /\ i \notin S
  <2>1. ~Prior(s, j, i)
    BY <1>1, <1>2, <1>3 DEF Left
  <2>2. ~Prior(s, i, j)
    BY <1>1, <1>2, <1>3 DEF Left
  <2>3. QED
    BY <1>2, <2>1, <2>2, PriorTotal
<1>4. QED
  BY <1>1, <1>3

(* A walk that passed so far passes one entry more. *)
LEMMA PassOne ==
    ASSUME NEW b \in Block, NEW W, NEW T, Left(b.txs, T), NEW V, Passing(b, W, T, V),
           NEW i, Leads(b.txs, T, i), Fine(b.fee, b.txs[i], V[T])
    PROVE  \E U : Reaches(b, W, T \ {i}, U, Worked(b.fee, b.txs[i], V[T]))
<1> DEFINE s == b.txs
           R == T \ {i}
           done == Worked(b.fee, s[i], V[T])
<1>1. s \in Seq(Entry)
  BY DEF Block
<1>2. PICK U : U = [S \in SUBSET DOMAIN s |-> IF S = R THEN done ELSE V[S]]
  OBVIOUS
<1>3. T \in SUBSET DOMAIN s /\ R \in SUBSET DOMAIN s /\ i \in T
  BY DEF Left, Leads
<1>4. U[R] = done
  BY <1>2, <1>3
<1>5. U[DOMAIN s] = W
  <2>1. DOMAIN s # R /\ DOMAIN s \in SUBSET DOMAIN s
    BY <1>3
  <2>2. V[DOMAIN s] = W
    BY DEF Passing
  <2>3. QED
    BY <1>2, <2>1, <2>2
<1>6. ASSUME NEW S, Left(s, S), R \subseteq S, S # R, NEW k, Leads(s, S, k)
      PROVE  Fine(b.fee, s[k], U[S]) /\ U[S \ {k}] = Worked(b.fee, s[k], U[S])
  <2>1. T \subseteq S
    BY <1>1, <1>6, NextLarger
  <2>2. S \in SUBSET DOMAIN s /\ S \ {k} \in SUBSET DOMAIN s
    BY <1>6 DEF Left
  <2>3. U[S] = V[S]
    BY <1>2, <1>6, <2>2
  <2>4. CASE S = T
    <3>1. k = i
      BY <1>1, <1>3, <1>6, <2>4, OneLeads
    <3>2. QED
      BY <1>4, <2>3, <2>4, <3>1
  <2>5. CASE S # T
    <3>1. Fine(b.fee, s[k], V[S]) /\ V[S \ {k}] = Worked(b.fee, s[k], V[S])
      BY <1>6, <2>1, <2>5 DEF Passing
    <3>2. S \ {k} # R
      BY <1>3, <2>1, <2>5, <1>6 DEF Leads
    <3>3. U[S \ {k}] = V[S \ {k}]
      BY <1>2, <2>2, <3>2
    <3>4. QED
      BY <2>3, <3>1, <3>3
  <2>6. QED
    BY <2>4, <2>5
<1> HIDE DEF done
<1>7. Passing(b, W, R, U)
  BY <1>5, <1>6 DEF Passing
<1>8. QED
  BY <1>4, <1>7 DEF done, Reaches

-----------------------------------------------------------------------------
(* A block that waits passes once more: where a walk that applies it stands,
   the walk that checked it stood as well. *)

(* As long as the sort leaves equal nonces in place. *)
ShortBlocks ==
    /\ STABLE_SORT_SIZE \in Nat
    /\ MAX_TRANSACTIONS \in Nat /\ MAX_TRANSACTIONS <= STABLE_SORT_SIZE
    /\ \A b \in ReceivedBlocks : Len(b.txs) <= STABLE_SORT_SIZE

(* What is left of a walk, and that a block that waits passes once more. *)
WaitingPasses ==
    /\ Len(pending.txs) <= STABLE_SORT_SIZE
    /\ pending # NoBlock => \E V : Passing(pending, real_wallets, {}, V)

WalkLeft ==
    Walking => Left(block.txs, todo) /\ Len(block.txs) <= STABLE_SORT_SIZE

CheckedSoFar ==
    phase = "checking" => \E V : Reaches(block, real_wallets, todo, V, wallets)

AppliedSoFar ==
    phase = "applying" /\ pending # NoBlock =>
        /\ block = pending
        /\ \E V : Passing(block, real_wallets, {}, V) /\ V[todo] = wallets

AcceptedRight == WaitingPasses /\ WalkLeft /\ CheckedSoFar /\ AppliedSoFar

(* The next position of a walk is the one that leads. *)
LEMMA NextLeads ==
    ASSUME ShortBlocks, TypeOK, Walking, WalkLeft, NEW i \in NextOf(BlockTxs)
    PROVE  /\ Leads(block.txs, todo, i)
           /\ block.txs \in Seq(Entry) /\ i \in todo /\ todo \subseteq DOMAIN block.txs
<1> DEFINE s == block.txs
<1>1. s \in Seq(Entry) /\ Len(s) \in Nat /\ DOMAIN s = 1 .. Len(s)
  BY LenProperties DEF TypeOK, Block
<1>2. todo \subseteq DOMAIN s /\ i \in todo
  BY DEF TypeOK, Walking, NextOf
<1>3. DOMAIN BlockTxs = 1 .. Len(s) /\ \A k \in 1 .. Len(s) : BlockTxs[k] = s[k].tx
  BY <1>1 DEF BlockTxs
<1>4. Len(BlockTxs) = Len(s)
  BY <1>1, <1>3 DEF BlockTxs
<1>5. ~(Len(BlockTxs) > STABLE_SORT_SIZE)
  BY <1>1, <1>4 DEF WalkLeft, ShortBlocks
<1>6. \A j \in todo : Before(BlockTxs, i, j)
  BY DEF NextOf
<1>7. \A j \in todo : Prior(s, i, j)
  BY <1>1, <1>2, <1>3, <1>5, <1>6 DEF Before, Prior
<1>8. QED
  BY <1>1, <1>2, <1>7 DEF Leads

(* At the start, every position is left. *)
LEMMA WholeLeft ==
    ASSUME NEW s
    PROVE  Left(s, DOMAIN s)
BY DEF Left

(* A walk that has not started has passed so far. *)
LEMMA NothingDone ==
    ASSUME NEW b, NEW W
    PROVE  \E V : Reaches(b, W, DOMAIN b.txs, V, W)
<1>1. PICK V : V = [S \in {DOMAIN b.txs} |-> W]
  OBVIOUS
<1>2. V[DOMAIN b.txs] = W
  BY <1>1
<1>3. Passing(b, W, DOMAIN b.txs, V)
  BY <1>2 DEF Passing, Left
<1>4. QED
  BY <1>2, <1>3 DEF Reaches

(* A step of a walk, whichever it is. *)
LEMMA StepWorks ==
    ASSUME ShortBlocks, TypeOK, WalkLeft, NEW i \in todo, CheckTxApproved(i) \/ CheckTx(i)
    PROVE  /\ Walking /\ Leads(block.txs, todo, i)
           /\ Fine(block.fee, block.txs[i], wallets)
           /\ wallets' = Worked(block.fee, block.txs[i], wallets)
           /\ todo' = todo \ {i}
           /\ UNCHANGED <<real_wallets, transactions, phase, block, own, pending>>
<1>1. CASE CheckTxApproved(i)
  BY <1>1, NextLeads DEF CheckTxApproved, Fine, Worked
<1>2. CASE CheckTx(i)
  BY <1>2, NextLeads DEF CheckTx, Passes, CheckFee, Charge, Fine, Worked
<1>3. QED
  BY <1>1, <1>2

(* One step of a walk, in the check or in the application. *)
LEMMA WalkAccepted ==
    ASSUME ShortBlocks, TypeOK, AcceptedRight, NEW i \in todo, CheckTxApproved(i) \/ CheckTx(i)
    PROVE  AcceptedRight'
<1> DEFINE s == block.txs
           e == s[i]
<1>1. /\ Walking /\ Leads(s, todo, i) /\ Fine(block.fee, e, wallets)
      /\ wallets' = Worked(block.fee, e, wallets) /\ todo' = todo \ {i}
      /\ UNCHANGED <<real_wallets, phase, block, pending>>
  BY StepWorks DEF AcceptedRight
<1>2. s \in Seq(Entry) /\ block \in Block
  BY DEF TypeOK, Block
<1>3. Left(s, todo) /\ Len(s) <= STABLE_SORT_SIZE
  BY <1>1 DEF AcceptedRight, WalkLeft
<1>4. Left(s, todo \ {i})
  BY <1>1, <1>2, <1>3, LeftLess
<1>5. WalkLeft' /\ WaitingPasses'
  BY <1>1, <1>3, <1>4 DEF AcceptedRight, WalkLeft, WaitingPasses, Walking
<1>6. CheckedSoFar'
  <2>1. CASE phase = "checking"
    <3>1. PICK V : Passing(block, real_wallets, todo, V) /\ V[todo] = wallets
      BY <2>1 DEF AcceptedRight, CheckedSoFar, Reaches
    <3>2. Fine(block.fee, block.txs[i], V[todo])
      BY <1>1, <3>1
    <3>3. \E U : Reaches(block, real_wallets, todo \ {i}, U,
                         Worked(block.fee, block.txs[i], V[todo]))
      BY <1>1, <1>2, <1>3, <3>1, <3>2, PassOne
    <3>4. QED
      BY <1>1, <3>1, <3>3 DEF CheckedSoFar
  <2>2. QED
    BY <1>1, <2>1 DEF CheckedSoFar
<1>7. AppliedSoFar'
  <2>1. CASE phase = "applying" /\ pending # NoBlock
    <3>1. PICK V : Passing(block, real_wallets, {}, V) /\ V[todo] = wallets
      BY <2>1 DEF AcceptedRight, AppliedSoFar
    <3>2. V[todo \ {i}] = Worked(block.fee, e, V[todo])
      BY <1>1, <1>3, <3>1 DEF Passing, Leads
    <3>3. QED
      BY <1>1, <2>1, <3>1, <3>2 DEF AcceptedRight, AppliedSoFar
  <2>2. QED
    BY <1>1, <2>1 DEF AppliedSoFar
<1>8. QED
  BY <1>5, <1>6, <1>7 DEF AcceptedRight

(* Who applies a block that waits does not refuse it. *)
LEMMA WaitingNotRefused ==
    ASSUME ShortBlocks, TypeOK, AcceptedRight, NEW i \in todo, Refuse(i)
    PROVE  ~(phase = "applying" /\ pending # NoBlock)
<1> SUFFICES ASSUME phase = "applying", pending # NoBlock
             PROVE  FALSE
  OBVIOUS
<1>1. Walking /\ i \in NextOf(BlockTxs) /\ block.txs[i].state # "approve" /\ ~Passes(i)
  BY DEF Refuse
<1>2. Leads(block.txs, todo, i) /\ Left(block.txs, todo)
  BY <1>1, NextLeads DEF AcceptedRight, WalkLeft
<1>3. PICK V : Passing(block, real_wallets, {}, V) /\ V[todo] = wallets
  BY DEF AcceptedRight, AppliedSoFar
<1>4. Fine(block.fee, block.txs[i], wallets)
  BY <1>2, <1>3 DEF Passing, Leads
<1>5. Passes(i)
  BY <1>1, <1>4 DEF Passes, Fine, CheckFee, Charge
<1>6. QED
  BY <1>1, <1>5

(* clear_changes brings the staged wallets back to the committed ones. *)
LEMMA Cleared ==
    ASSUME IInv, ClearChanges
    PROVE  wallets' = real_wallets
<1>1. wallets \in [Addr -> Wallet] /\ real_wallets \in [Addr -> Wallet]
  BY DEF IInv, TypeOK
<1>2. \A a \in Addr : wallets'[a] = real_wallets[a]
  BY DEF ClearChanges, IInv, DryRunsLeaveNoTrace
<1>3. wallets' = [a \in Addr |-> wallets'[a]]
  BY DEF ClearChanges
<1>4. QED
  BY <1>1, <1>2, <1>3

(* The walks that begin: of a received, a waiting or an own block. *)
LEMMA BeginAccepted ==
    ASSUME ShortBlocks, IInv, AcceptedRight,
           \/ \E b \in ReceivedBlocks, p \in {"checking", "applying"} : ReceiveBlock(b, p)
           \/ StartApplying
           \/ EndMaking
    PROVE  Len(block'.txs) <= STABLE_SORT_SIZE => AcceptedRight'
<1>1. CASE \E b \in ReceivedBlocks, p \in {"checking", "applying"} : ReceiveBlock(b, p)
  <2>1. PICK b \in ReceivedBlocks, p \in {"checking", "applying"} : ReceiveBlock(b, p)
    BY <1>1
  <2>2. wallets = real_wallets /\ Len(b.txs) <= STABLE_SORT_SIZE
    BY <2>1 DEF ReceiveBlock, IInv, DryRunsLeaveNoTrace, ShortBlocks
  <2>3. \E V : Reaches(b, real_wallets, DOMAIN b.txs, V, real_wallets)
    BY NothingDone
  <2>4. Left(b.txs, DOMAIN b.txs)
    BY WholeLeft
  <2>5. WaitingPasses' /\ WalkLeft' /\ AppliedSoFar'
    BY <2>1, <2>2, <2>4 DEF AcceptedRight, WaitingPasses, WalkLeft, AppliedSoFar, Walking, ReceiveBlock
  <2>6. CheckedSoFar'
    BY <2>1, <2>2, <2>3 DEF CheckedSoFar, ReceiveBlock
  <2>7. QED
    BY <2>5, <2>6 DEF AcceptedRight
<1>2. CASE StartApplying
  <2>1. wallets = real_wallets
    BY <1>2 DEF StartApplying, IInv, DryRunsLeaveNoTrace
  <2>2. PICK V : Passing(pending, real_wallets, {}, V)
    BY <1>2 DEF StartApplying, AcceptedRight, WaitingPasses
  <2>3. V[DOMAIN pending.txs] = real_wallets
    BY <2>2 DEF Passing
  <2>4. Left(pending.txs, DOMAIN pending.txs)
    BY WholeLeft
  <2>5. WaitingPasses' /\ WalkLeft' /\ CheckedSoFar'
    BY <1>2, <2>4 DEF AcceptedRight, WaitingPasses, WalkLeft, CheckedSoFar, Walking, StartApplying
  <2>6. AppliedSoFar'
    BY <1>2, <2>1, <2>2, <2>3 DEF AppliedSoFar, StartApplying
  <2>7. QED
    BY <2>5, <2>6 DEF AcceptedRight
<1>3. CASE EndMaking /\ Len(block'.txs) <= STABLE_SORT_SIZE
  <2>1. wallets' = real_wallets /\ UNCHANGED <<real_wallets, pending>>
    BY <1>3, Cleared DEF EndMaking, ClearChanges
  <2>2. CASE block.txs = << >>
    BY <1>3, <2>1, <2>2 DEF EndMaking, AcceptedRight, WaitingPasses, WalkLeft, CheckedSoFar,
       AppliedSoFar, Walking
  <2>3. CASE block.txs # << >>
    <3>1. phase' = "checking" /\ block' = block /\ todo' = DOMAIN block.txs
      BY <1>3, <2>3 DEF EndMaking
    <3>2. \E V : Reaches(block, real_wallets, DOMAIN block.txs, V, real_wallets)
      BY NothingDone
    <3>3. Left(block.txs, DOMAIN block.txs)
      BY WholeLeft
    <3>4. CheckedSoFar'
      BY <2>1, <3>1, <3>2 DEF CheckedSoFar
    <3>5. WaitingPasses' /\ WalkLeft' /\ AppliedSoFar'
      BY <1>3, <2>1, <3>1, <3>3 DEF AcceptedRight, WaitingPasses, WalkLeft, AppliedSoFar, Walking
    <3>6. QED
      BY <3>4, <3>5 DEF AcceptedRight
  <2>4. QED
    BY <2>2, <2>3
<1>4. QED
  BY <1>1, <1>2, <1>3

(* The walks that end: accepted, applied or broken off. *)
LEMMA EndAccepted ==
    ASSUME ShortBlocks, IInv, AcceptedRight,
           EndChecking \/ EndApplying \/ \E i \in todo : Refuse(i)
    PROVE  AcceptedRight'
<1>1. CASE EndChecking
  <2>1. UNCHANGED real_wallets /\ ~Walking'
    BY <1>1 DEF EndChecking, ClearChanges, EndWalk, Walking
  <2>2. CASE pending = NoBlock
    <3>1. pending' = block /\ todo = {} /\ phase = "checking"
      BY <1>1, <2>2 DEF EndChecking
    <3>2. \E V : Passing(block, real_wallets, {}, V)
      BY <3>1 DEF AcceptedRight, CheckedSoFar, Reaches
    <3>3. Len(block.txs) <= STABLE_SORT_SIZE
      BY <3>1 DEF AcceptedRight, WalkLeft, Walking
    <3>4. QED
      BY <2>1, <3>1, <3>2, <3>3 DEF AcceptedRight, WaitingPasses, WalkLeft, CheckedSoFar,
         AppliedSoFar, Walking
  <2>3. CASE pending # NoBlock
    <3>1. pending' = pending
      BY <1>1, <2>3 DEF EndChecking
    <3>2. QED
      BY <2>1, <3>1 DEF AcceptedRight, WaitingPasses, WalkLeft, CheckedSoFar, AppliedSoFar, Walking
  <2>4. QED
    BY <2>2, <2>3
<1>2. CASE EndApplying
  <2>1. pending' = NoBlock /\ ~Walking' /\ Len(NoBlock.txs) = 0
    BY <1>2 DEF EndApplying, EndWalk, Walking, NoBlock
  <2>2. QED
    BY <2>1 DEF AcceptedRight, WaitingPasses, WalkLeft, CheckedSoFar, AppliedSoFar, Walking, ShortBlocks
<1>3. CASE \E i \in todo : Refuse(i)
  <2>1. UNCHANGED <<real_wallets, pending>> /\ ~Walking'
    BY <1>3 DEF Refuse, ClearChanges, EndWalk, Walking
  <2>2. QED
    BY <2>1 DEF AcceptedRight, WaitingPasses, WalkLeft, CheckedSoFar, AppliedSoFar, Walking
<1>4. QED
  BY <1>1, <1>2, <1>3

-----------------------------------------------------------------------------
(* Blocks made here are short enough. *)

(* The block made is no longer than the list it is made from. *)
MadeShort ==
    /\ Len(transactions) <= MAX_TRANSACTIONS
    /\ phase = "making" => Len(block.txs) + Cardinality(todo) <= Len(transactions)

(* A position visited is one position less. *)
LEMMA Fewer ==
    ASSUME TypeOK, NEW i \in todo, phase = "making"
    PROVE  /\ Cardinality(todo) \in Nat /\ Cardinality(todo \ {i}) = Cardinality(todo) - 1
           /\ Len(transactions) \in Nat /\ block.txs \in Seq(Entry) /\ Len(block.txs) \in Nat
<1>1. /\ DOMAIN transactions = 1 .. Len(transactions) /\ Len(transactions) \in Nat
      /\ block.txs \in Seq(Entry) /\ Len(block.txs) \in Nat
  BY LenProperties DEF TypeOK, Block
<1>2. IsFiniteSet(1 .. Len(transactions))
  BY <1>1, FS_Interval
<1>3. IsFiniteSet(todo)
  BY <1>1, <1>2, FS_Subset DEF TypeOK
<1>4. QED
  BY <1>1, <1>3, FS_CardinalityType, FS_RemoveElement

(* No block is under way at first. *)
LEMMA InitShort ==
    ASSUME ShortBlocks, Init
    PROVE  MadeShort
BY DEF Init, MadeShort, ShortBlocks

(* There are as many numbers up to n as n. *)
LEMMA CountUpTo == ASSUME NEW n \in Nat PROVE Cardinality(1 .. n) = n
<1> DEFINE one == 1
<1>1. one \in Int /\ n \in Int
  OBVIOUS
<1>2. one > n => n = 0
  OBVIOUS
<1>3. one <= n => n - one + 1 = n
  OBVIOUS
<1> HIDE DEF one
<1>4. Cardinality(one .. n) = IF one > n THEN 0 ELSE n - one + 1
  BY <1>1, FS_Interval
<1>5. QED
  BY <1>1, <1>2, <1>3, <1>4 DEF one

(* No step makes a longer block than the list it is made from. *)
LEMMA NextShort ==
    ASSUME ShortBlocks, IInv, MadeShort, [Next]_vars
    PROVE  MadeShort'
<1>0. TypeOK /\ Len(transactions) \in Nat
  BY LenProperties DEF IInv, TypeOK
<1>1. ASSUME NEW tx \in Tx, ReceiveTx(tx)
      PROVE  MadeShort'
  <2>1. Len(transactions') = Len(transactions) + 1
    BY <1>0, <1>1, AppendProperties DEF ReceiveTx, TypeOK
  <2>2. QED
    BY <1>0, <1>1, <2>1 DEF MadeShort, ReceiveTx, walk, ShortBlocks
<1>2. CASE StartMaking
  <2>1. DOMAIN transactions = 1 .. Len(transactions) /\ Len(<< >>) = 0
    BY LenProperties DEF IInv, TypeOK
  <2>2. Cardinality(1 .. Len(transactions)) = Len(transactions)
    BY <1>0, CountUpTo
  <2>3. QED
    BY <1>0, <1>2, <2>1, <2>2 DEF StartMaking, MadeShort
<1>3. ASSUME NEW i \in todo, MakeTxRejected(i)
      PROVE  MadeShort'
  BY <1>0, <1>3, Fewer DEF MakeTxRejected, MadeShort
<1>4. ASSUME NEW i \in todo, MakeTx(i)
      PROVE  MadeShort'
  <2>1. PICK e \in Entry : block' = [block EXCEPT !.txs = Append(@, e)]
    <3>1. transactions[i] \in Tx
      BY <1>0, <1>4, ItemTypes DEF MakeTx
    <3>2. PICK state \in {"accept", "wrong_data"} :
            block' = [block EXCEPT !.txs = Append(@, [tx |-> transactions[i], state |-> state])]
      BY <1>4 DEF MakeTx
    <3>3. [tx |-> transactions[i], state |-> state] \in Entry
      BY <3>1 DEF Entry, TxState
    <3>4. QED
      BY <3>2, <3>3
  <2>2. block'.txs = Append(block.txs, e)
    BY <1>0, <2>1 DEF TypeOK, Block
  <2>3. block.txs \in Seq(Entry)
    BY <1>0, <1>4, Fewer DEF MakeTx
  <2>4. Len(block'.txs) = Len(block.txs) + 1
    BY <2>2, <2>3, AppendProperties
  <2>5. /\ UNCHANGED <<transactions, phase>> /\ todo' = todo \ {i} /\ phase = "making"
    BY <1>4 DEF MakeTx
  <2>6. QED
    BY <1>0, <2>4, <2>5, Fewer DEF MadeShort
<1>5. CASE EndMaking
  BY <1>5 DEF EndMaking, MadeShort, ShortBlocks
<1>6. CASE \/ MakeRejectedTxBlock \/ UNCHANGED vars \/ StartApplying
           \/ \E b \in ReceivedBlocks, p \in {"checking", "applying"} : ReceiveBlock(b, p)
           \/ \E i \in todo : CheckTxApproved(i) \/ CheckTx(i) \/ Refuse(i)
           \/ EndChecking \/ EndApplying
  BY <1>6 DEF MakeRejectedTxBlock, ReceiveBlock, StartApplying, vars, walk, CheckTxApproved,
     CheckTx, Refuse, EndChecking, EndApplying, EndWalk, Walking, MadeShort
<1>7. QED
  BY <1>1, <1>2, <1>3, <1>4, <1>5, <1>6 DEF Next

(* The walk through a block that was made starts with a short one. *)
LEMMA MadeIsShort ==
    ASSUME ShortBlocks, IInv, MadeShort, EndMaking
    PROVE  Len(block'.txs) <= STABLE_SORT_SIZE
<1>1. Len(NoBlock.txs) = 0
  BY DEF NoBlock
<1>2. todo = {} /\ phase = "making" /\ block' \in {block, NoBlock}
  BY DEF EndMaking
<1>3. Len(transactions) \in Nat /\ Len(block.txs) \in Nat
  BY LenProperties DEF IInv, TypeOK, Block
<1>4. Cardinality(todo) = 0
  BY <1>2, FS_EmptySet
<1>5. Len(block.txs) <= STABLE_SORT_SIZE
  BY <1>2, <1>3, <1>4 DEF MadeShort, ShortBlocks
<1>6. QED
  BY <1>1, <1>2, <1>5 DEF ShortBlocks

(* No walk is under way at first. *)
LEMMA InitAccepted ==
    ASSUME ShortBlocks, Init
    PROVE  AcceptedRight
<1>1. Len(NoBlock.txs) = 0
  BY DEF NoBlock
<1>2. QED
  BY <1>1 DEF Init, AcceptedRight, WaitingPasses, WalkLeft, CheckedSoFar, AppliedSoFar, Walking,
     ShortBlocks

(* Every step keeps what is known of walks. *)
LEMMA NextAccepted ==
    ASSUME ShortBlocks, IInv, MadeShort, AcceptedRight, [Next]_vars
    PROVE  AcceptedRight'
<1>1. CASE \/ \E tx \in Tx : ReceiveTx(tx)
           \/ MakeRejectedTxBlock \/ UNCHANGED vars
  BY <1>1 DEF ReceiveTx, MakeRejectedTxBlock, vars, walk, AcceptedRight, WaitingPasses, WalkLeft,
     CheckedSoFar, AppliedSoFar, Walking
<1>2. CASE StartMaking \/ \E i \in todo : MakeTxRejected(i) \/ MakeTx(i)
  <2>1. phase' = "making" /\ UNCHANGED <<real_wallets, pending>>
    BY <1>2 DEF StartMaking, MakeTxRejected, MakeTx
  <2>2. QED
    BY <2>1 DEF AcceptedRight, WaitingPasses, WalkLeft, CheckedSoFar, AppliedSoFar, Walking
<1>3. CASE EndMaking
  BY <1>3, MadeIsShort, BeginAccepted
<1>4. CASE \E b \in ReceivedBlocks, p \in {"checking", "applying"} : ReceiveBlock(b, p)
  <2>1. Len(block'.txs) <= STABLE_SORT_SIZE
    BY <1>4 DEF ReceiveBlock, ShortBlocks
  <2>2. QED
    BY <1>4, <2>1, BeginAccepted
<1>5. CASE StartApplying
  <2>1. Len(block'.txs) <= STABLE_SORT_SIZE
    BY <1>5 DEF StartApplying, AcceptedRight, WaitingPasses
  <2>2. QED
    BY <1>5, <2>1, BeginAccepted
<1>6. CASE \E i \in todo : CheckTxApproved(i) \/ CheckTx(i)
  BY <1>6, WalkAccepted DEF IInv
<1>7. CASE EndChecking \/ EndApplying \/ \E i \in todo : Refuse(i)
  BY <1>7, EndAccepted
<1>8. QED
  BY <1>1, <1>2, <1>3, <1>4, <1>5, <1>6, <1>7 DEF Next

(* A block that can_apply_block accepted is accepted by apply_block,
   whatever the node made, received or tried in between; as long as no
   list is so long that std::sort moves equal nonces about. *)
THEOREM AcceptedBlocksAreApplied ==
    ASSUME ShortBlocks
    PROVE  Spec => AcceptedIsApplied
<1>1. Init => IInv /\ MadeShort /\ AcceptedRight
  BY InitIInv, InitShort, InitAccepted
<1>2. IInv /\ MadeShort /\ AcceptedRight /\ [Next]_vars => (IInv /\ MadeShort /\ AcceptedRight)'
  BY NextIInv, NextShort, NextAccepted
<1>3. ASSUME IInv, AcceptedRight, Next, phase = "applying", pending # NoBlock, phase' = "idle"
      PROVE  pending' = NoBlock
  <2>1. CASE EndApplying
    BY <2>1 DEF EndApplying
  <2>2. CASE \E i \in todo : Refuse(i)
    BY <1>3, <2>2, WaitingNotRefused DEF IInv
  <2>3. CASE ~EndApplying /\ ~\E i \in todo : Refuse(i)
    BY <1>3, <2>3 DEF Next, ReceiveTx, StartMaking, MakeTxRejected, MakeTx, EndMaking,
       MakeRejectedTxBlock, ReceiveBlock, StartApplying, CheckTxApproved, CheckTx, EndChecking, walk
  <2>4. QED
    BY <2>1, <2>2, <2>3
<1>4. IInv /\ AcceptedRight /\ [Next]_vars
        => [phase = "applying" /\ pending # NoBlock /\ phase' = "idle" => pending' = NoBlock]_vars
  BY <1>3
<1>5. QED
  BY <1>1, <1>2, <1>4, PTL DEF Spec, AcceptedIsApplied

-----------------------------------------------------------------------------
(* The fee comes before the method in make_common_block, and after it in
   can_apply_block; a wallet that is richer by the fee makes no difference. *)

(* A wallet with x coins more. *)
Rich(w, x) == [w EXCEPT !.balance = @ + x]

(* A wallet with x coins more is a wallet with the same delegations. *)
LEMMA RichFields ==
    ASSUME NEW w \in Wallet, NEW x \in Nat
    PROVE  /\ Rich(w, x) \in Wallet
           /\ Rich(w, x).delegate_to = w.delegate_to
           /\ Rich(w, x).delegated_from = w.delegated_from
<1>1. w.balance + x \in Nat
  BY DEF Wallet
<1>2. Rich(w, x) \in Wallet
  BY <1>1 DEF Rich, Wallet
<1>3. Rich(w, x).delegate_to = w.delegate_to /\ Rich(w, x).delegated_from = w.delegated_from
  BY DEF Rich
<1>4. QED
  BY <1>2, <1>3

(* add_delegate_to takes no notice of the coins. *)
LEMMA LendRich ==
    ASSUME NEW w \in Wallet, NEW x \in Nat, NEW to, NEW amount
    PROVE  Lend(Rich(w, x), to, amount) = Rich(Lend(w, to, amount), x)
BY DEF Lend, Rich, Wallet

(* add_delegated_from_addresses takes no notice of the coins. *)
LEMMA BorrowRich ==
    ASSUME NEW w \in Wallet, NEW x \in Nat, NEW from, NEW amount
    PROVE  Borrow(Rich(w, x), from, amount) = Rich(Borrow(w, from, amount), x)
BY DEF Borrow, Rich, Wallet

(* The end of a delegation, for who delegated, takes no notice of the coins. *)
LEMMA TakeBackRich ==
    ASSUME NEW w \in Wallet, NEW x \in Nat, NEW to
    PROVE  TakeBack(Rich(w, x), to) = Rich(TakeBack(w, to), x)
BY DEF TakeBack, Rich, Wallet

(* The end of a delegation, for its other end, takes no notice of the coins. *)
LEMMA GiveBackRich ==
    ASSUME NEW w \in Wallet, NEW x \in Nat, NEW from
    PROVE  GiveBack(Rich(w, x), from) = Rich(GiveBack(w, from), x)
BY DEF GiveBack, Rich, Wallet

(* A registration takes no notice of the coins. *)
LEMMA RegisterRich ==
    ASSUME NEW w \in Wallet, NEW x \in Nat, NEW roles
    PROVE  [Rich(w, x) EXCEPT !.state = roles] = Rich([w EXCEPT !.state = roles], x)
BY DEF Rich, Wallet
(* What add does to all of the wallets. *)
LEMMA AddRich ==
    ASSUME NEW W, W = [a \in Addr |-> W[a]], NEW f \in Addr, NEW x
    PROVE  Add(W, f, x) = [a \in Addr |-> IF a = f THEN Rich(W[a], x) ELSE W[a]]
<1>1. Add(W, f, x) = [W EXCEPT ![f] = Rich(W[f], x)]
  BY DEF Add, Rich
<1> DEFINE w == Rich(W[f], x)
<1>2. [W EXCEPT ![f] = w] = [a \in Addr |-> IF a = f THEN w ELSE W[a]]
  <2> HIDE DEF w
  <2>1. QED
    OBVIOUS
<1>3. QED
  BY <1>1, <1>2

(* W1 is W but for the wallet of b; V is W with x coins more on f. *)
Wrote(W, b, w, W1) == W1 = [W EXCEPT ![b] = w]

Richer(W, f, x, V) == W = [a \in Addr |-> W[a]] /\ V = Add(W, f, x)

(* A write leaves the coins that came before it. *)
LEMMA RichPut ==
    ASSUME NEW f \in Addr, NEW W, NEW x, NEW V, Richer(W, f, x, V), NEW b \in Addr,
           NEW w, NEW W1, Wrote(W, b, w, W1), NEW v, NEW V1, Wrote(V, b, v, V1),
           IF b = f THEN v = Rich(w, x) ELSE v = w
    PROVE  Richer(W1, f, x, V1)
<1>0. /\ W = [a \in Addr |-> W[a]] /\ V = Add(W, f, x)
      /\ W1 = [W EXCEPT ![b] = w] /\ V1 = [V EXCEPT ![b] = v]
  BY DEF Richer, Wrote
<1>1. V = [a \in Addr |-> IF a = f THEN Rich(W[a], x) ELSE W[a]]
  BY <1>0, AddRich
<1>2. W1 = [a \in Addr |-> W1[a]] /\ \A a \in Addr : W1[a] = IF a = b THEN w ELSE W[a]
  BY <1>0
<1>3. Add(W1, f, x) = [a \in Addr |-> IF a = f THEN Rich(W1[a], x) ELSE W1[a]]
  BY <1>2, AddRich
<1>4. V1 = [a \in Addr |-> IF a = b THEN v ELSE V[a]]
  BY <1>0, <1>1
<1>5. \A a \in Addr : (IF a = b THEN v ELSE V[a]) = IF a = f THEN Rich(W1[a], x) ELSE W1[a]
  BY <1>1, <1>2
<1>6. V1 = Add(W1, f, x)
  BY <1>3, <1>4, <1>5
<1>7. QED
  BY <1>2, <1>6 DEF Richer

(* Whether a method can be applied by a sender, and what it does, does not
   depend on coins that another wallet has got before it. *)
LEMMA MethodRich ==
    ASSUME NEW W, Good(W), NEW tx \in Tx, NEW f \in Addr, tx.from # f, NEW x \in Nat
    PROVE  /\ CanApplyMethod(Add(W, f, x), tx) <=> CanApplyMethod(W, tx)
           /\ ApplyMethod(Add(W, f, x), tx) = Add(ApplyMethod(W, tx), f, x)
<1> DEFINE V == Add(W, f, x)
           p == tx.from
           q == tx.to
<1>1. p \in Addr /\ q \in Addr
  BY TxAssumption
<1>2. W = [a \in Addr |-> W[a]] /\ W[p] \in Wallet /\ W[q] \in Wallet /\ W[f] \in Wallet
  BY <1>1 DEF Good
<1>3. V = [a \in Addr |-> IF a = f THEN Rich(W[a], x) ELSE W[a]]
  BY <1>2, AddRich
<1>4. V[p] = W[p] /\ V[q] = IF q = f THEN Rich(W[q], x) ELSE W[q]
  BY <1>1, <1>3
<1>5. V[q].delegated_from = W[q].delegated_from
  BY <1>2, <1>4, RichFields
<1> HIDE DEF V
<1>6. CanApplyMethod(V, tx) <=> CanApplyMethod(W, tx)
  BY <1>4, <1>5 DEF CanApplyMethod, CanDelegate, CanUndelegate
<1>7. CASE tx.method = "delegate"
  <2> DEFINE w == Lend(W[p], q, tx.amount)
             W1 == [W EXCEPT ![p] = w]
             V1 == [V EXCEPT ![p] = Lend(V[p], q, tx.amount)]
             v == Lend(V[p], q, tx.amount)
  <2>0. w = v
    BY <1>4
  <2>1. V1 = Add(W1, f, x) /\ W1 = [a \in Addr |-> W1[a]]
    <3>1. Wrote(W, p, w, W1) /\ Wrote(V, p, v, V1) /\ Richer(W, f, x, V) /\ p # f
      BY <1>2 DEF Wrote, Richer, V
    <3> HIDE DEF w, v, W1, V1
    <3>2. IF p = f THEN v = Rich(w, x) ELSE v = w
      BY <2>0, <3>1
    <3>3. Richer(W1, f, x, V1)
      BY <1>1, <3>1, <3>2, RichPut
    <3>4. QED
      BY <3>3 DEF Richer
  <2>2. q = f => W1[q] = W[q]
    BY <1>1, <1>2
  <2>3. V1[q] = IF q = f THEN Rich(W1[q], x) ELSE W1[q]
    <3> HIDE DEF W1, V1
    <3>1. Add(W1, f, x) = [a \in Addr |-> IF a = f THEN Rich(W1[a], x) ELSE W1[a]]
      BY <2>1, AddRich
    <3>2. QED
      BY <1>1, <2>1, <3>1
  <2>4. Delegate(W, tx) = [W1 EXCEPT ![q] = Borrow(W1[q], p, tx.amount)]
    BY DEF Delegate
  <2>5. Delegate(V, tx) = [V1 EXCEPT ![q] = Borrow(V1[q], p, tx.amount)]
    BY DEF Delegate
  <2> HIDE DEF W1, V1
  <2> DEFINE w1 == Borrow(W1[q], p, tx.amount)
             v1 == Borrow(V1[q], p, tx.amount)
  <2>6. IF q = f THEN v1 = Rich(w1, x) ELSE v1 = w1
    BY <1>2, <2>2, <2>3, BorrowRich
  <2> HIDE DEF w1, v1
  <2> DEFINE W2 == Delegate(W, tx)
             V2 == Delegate(V, tx)
  <2>7. W2 = [W1 EXCEPT ![q] = w1] /\ V2 = [V1 EXCEPT ![q] = v1]
    BY <2>4, <2>5 DEF w1, v1
  <2>8. Wrote(W1, q, w1, W2) /\ Wrote(V1, q, v1, V2) /\ Richer(W1, f, x, V1)
    BY <2>1, <2>7 DEF Wrote, Richer
  <2> HIDE DEF W2, V2
  <2>9. Richer(W2, f, x, V2)
    BY <1>1, <2>6, <2>8, RichPut
  <2>10. QED
    BY <1>6, <1>7, <2>9 DEF ApplyMethod, V, W2, V2, Richer
<1>8. CASE tx.method = "undelegate"
  <2> DEFINE w == TakeBack(W[p], q)
             W1 == [W EXCEPT ![p] = w]
             V1 == [V EXCEPT ![p] = TakeBack(V[p], q)]
             v == TakeBack(V[p], q)
  <2>0. w = v
    BY <1>4
  <2>1. V1 = Add(W1, f, x) /\ W1 = [a \in Addr |-> W1[a]]
    <3>1. Wrote(W, p, w, W1) /\ Wrote(V, p, v, V1) /\ Richer(W, f, x, V) /\ p # f
      BY <1>2 DEF Wrote, Richer, V
    <3> HIDE DEF w, v, W1, V1
    <3>2. IF p = f THEN v = Rich(w, x) ELSE v = w
      BY <2>0, <3>1
    <3>3. Richer(W1, f, x, V1)
      BY <1>1, <3>1, <3>2, RichPut
    <3>4. QED
      BY <3>3 DEF Richer
  <2>2. q = f => W1[q] = W[q]
    BY <1>1, <1>2
  <2>3. V1[q] = IF q = f THEN Rich(W1[q], x) ELSE W1[q]
    <3> HIDE DEF W1, V1
    <3>1. Add(W1, f, x) = [a \in Addr |-> IF a = f THEN Rich(W1[a], x) ELSE W1[a]]
      BY <2>1, AddRich
    <3>2. QED
      BY <1>1, <2>1, <3>1
  <2>4. Undelegate(W, tx) = [W1 EXCEPT ![q] = GiveBack(W1[q], p)]
    BY DEF Undelegate
  <2>5. Undelegate(V, tx) = [V1 EXCEPT ![q] = GiveBack(V1[q], p)]
    BY DEF Undelegate
  <2> HIDE DEF W1, V1
  <2> DEFINE w1 == GiveBack(W1[q], p)
             v1 == GiveBack(V1[q], p)
  <2>6. IF q = f THEN v1 = Rich(w1, x) ELSE v1 = w1
    BY <1>2, <2>2, <2>3, GiveBackRich
  <2> HIDE DEF w1, v1
  <2> DEFINE W2 == Undelegate(W, tx)
             V2 == Undelegate(V, tx)
  <2>7. W2 = [W1 EXCEPT ![q] = w1] /\ V2 = [V1 EXCEPT ![q] = v1]
    BY <2>4, <2>5 DEF w1, v1
  <2>8. Wrote(W1, q, w1, W2) /\ Wrote(V1, q, v1, V2) /\ Richer(W1, f, x, V1)
    BY <2>1, <2>7 DEF Wrote, Richer
  <2> HIDE DEF W2, V2
  <2>9. Richer(W2, f, x, V2)
    BY <1>1, <2>6, <2>8, RichPut
  <2>10. QED
    BY <1>6, <1>8, <2>9 DEF ApplyMethod, V, W2, V2, Richer
<1>9. CASE tx.method = "register"
  <2> DEFINE w == [W[p] EXCEPT !.state = tx.roles]
  <2>1. ApplyMethod(W, tx) = [W EXCEPT ![p] = w] /\ ApplyMethod(V, tx) = [V EXCEPT ![p] = w]
    BY <1>1, <1>2, <1>4, <1>9 DEF ApplyMethod
  <2> HIDE DEF w
  <2> DEFINE W1 == ApplyMethod(W, tx)
             V1 == ApplyMethod(V, tx)
  <2>2. Wrote(W, p, w, W1) /\ Wrote(V, p, w, V1) /\ Richer(W, f, x, V)
    BY <1>2, <2>1 DEF Wrote, Richer, V
  <2> HIDE DEF W1, V1
  <2>3. Richer(W1, f, x, V1)
    BY <1>1, <2>2, RichPut
  <2>4. QED
    BY <1>6, <2>3 DEF V, W1, V1, Richer
<1>10. CASE tx.method \notin {"delegate", "undelegate", "register"}
  BY <1>6, <1>10 DEF ApplyMethod, V
<1>11. QED
  BY <1>7, <1>8, <1>9, <1>10

-----------------------------------------------------------------------------
(* The block that is being made, and the walk through it. *)

(* Nobody has the key of the wallet of the fees. *)
FeesStay == \A tx \in Tx : tx.from # STATE_FEE_WALLET

(* M are the wallets after each transaction of a block made from W. *)
Made(b, W, M, U) ==
    /\ M[0] = W /\ M[Len(b.txs)] = U
    /\ \A k \in 1 .. Len(b.txs) :
        /\ Fine(b.fee, b.txs[k], M[k - 1])
        /\ M[k] = Worked(b.fee, b.txs[k], M[k - 1])

(* The nonces of a block that was made do not fall. *)
Sorted(s) == \A j, k \in 1 .. Len(s) : j < k => s[j].tx.nonce <= s[k].tx.nonce

MadeSoFar ==
    phase = "making" =>
        /\ Sorted(block.txs)
        /\ \A j \in 1 .. Len(block.txs), i \in todo : block.txs[j].tx.nonce <= transactions[i].nonce
        /\ \E M : Made(block, real_wallets, M, wallets)

(* V are the wallets of a walk that passes, U those where T is left. *)
Sure(b, W, V, T, U) == Passing(b, W, {}, V) /\ V[T] = U

OwnPasses ==
    phase = "checking" /\ own => \E V : Sure(block, real_wallets, V, todo, wallets)

(* In a block whose nonces do not fall, the position that leads is followed
   by the next one. *)
LEMMA FirstLeft ==
    ASSUME NEW s \in Seq(Entry), Sorted(s), NEW S, Left(s, S), NEW i, Leads(s, S, i)
    PROVE  /\ i \in 1 .. Len(s) /\ Len(s) \in Nat
           /\ i = Len(s) => S = {i}
           /\ i # Len(s) => i + 1 \in 1 .. Len(s) /\ Leads(s, S \ {i}, i + 1)
<1>1. /\ Len(s) \in Nat /\ DOMAIN s = 1 .. Len(s)
      /\ \A k \in 1 .. Len(s) : s[k].tx.nonce \in Nat
  BY LenProperties, PriorTotal
<1>2. /\ S \subseteq 1 .. Len(s) /\ i \in S /\ i \in 1 .. Len(s)
      /\ \A j \in S : j \in 1 .. Len(s)
  BY <1>1 DEF Left, Leads
<1>3. \A j \in S : j # i => j > i
  <2> SUFFICES ASSUME NEW j \in S, j # i, ~(j > i)
               PROVE  FALSE
    OBVIOUS
  <2>1. j < i /\ j \in 1 .. Len(s) /\ i \in 1 .. Len(s)
    BY <1>1, <1>2
  <2>2. s[j].tx.nonce <= s[i].tx.nonce
    BY <2>1 DEF Sorted
  <2>3. Prior(s, i, j)
    BY DEF Leads
  <2>4. QED
    BY <1>1, <2>1, <2>2, <2>3 DEF Prior
<1>4. CASE i = Len(s)
  <2>1. \A j \in S : j = i
    <3> TAKE j \in S
    <3>1. j \in 1 .. Len(s)
      BY <1>2
    <3>2. ~(j > i)
      BY <1>1, <1>4, <3>1
    <3>3. QED
      BY <1>3, <3>2
  <2>2. S = {i}
    BY <1>2, <2>1
  <2>3. QED
    BY <1>1, <1>2, <1>4, <2>2
<1>5. CASE i # Len(s)
  <2>1. i \in 1 .. Len(s) /\ i + 1 \in 1 .. Len(s)
    <3>1. i \in 1 .. Len(s)
      BY <1>2
    <3>2. QED
      BY <1>1, <1>5, <3>1
  <2>2. s[i].tx.nonce <= s[i + 1].tx.nonce
    BY <1>1, <2>1 DEF Sorted
  <2>3. Prior(s, i, i + 1)
    BY <1>1, <2>1, <2>2 DEF Prior
  <2>4. i + 1 \in S
    BY <1>1, <1>2, <2>1, <2>3 DEF Left
  <2>5. ASSUME NEW j \in S \ {i}
        PROVE  Prior(s, i + 1, j)
    <3>1. j \in 1 .. Len(s) /\ (j = i + 1 \/ i + 1 < j)
      BY <1>1, <1>2, <1>3, <2>1
    <3>2. s[i + 1].tx.nonce <= s[j].tx.nonce
      BY <1>1, <2>1, <3>1 DEF Sorted
    <3>3. QED
      BY <1>1, <2>1, <3>1, <3>2 DEF Prior
  <2>6. QED
    <3>1. i + 1 \in S \ {i}
      BY <2>1, <2>4
    <3>2. Leads(s, S \ {i}, i + 1)
      BY <2>5, <3>1 DEF Leads
    <3>3. QED
      BY <1>1, <1>5, <2>1, <3>2
<1>6. QED
  BY <1>1, <1>2, <1>4, <1>5

(* The walk that made a block is a walk that passes. *)
LEMMA MadePasses ==
    ASSUME NEW b \in Block, b.txs # << >>, Sorted(b.txs), NEW W, NEW M, NEW U, Made(b, W, M, U)
    PROVE  \E V : Sure(b, W, V, DOMAIN b.txs, W)
<1> DEFINE s == b.txs
           n == Len(s)
           First(S) == CHOOSE i : Leads(s, S, i)
<1>1. s \in Seq(Entry) /\ n \in Nat /\ DOMAIN s = 1 .. n /\ n # 0
  BY LenProperties, EmptySeq DEF Block
<1>2. PICK V : V = [S \in SUBSET DOMAIN s |-> IF S = {} THEN M[n] ELSE M[First(S) - 1]]
  OBVIOUS
<1>3. ASSUME NEW S \in SUBSET DOMAIN s, NEW i, Leads(s, S, i)
      PROVE  V[S] = M[i - 1]
  <2>1. First(S) = i
    <3>1. Leads(s, S, First(S))
      BY <1>3
    <3>2. QED
      BY <1>1, <1>3, <3>1, OneLeads
  <2>2. S # {}
    BY <1>3 DEF Leads
  <2> HIDE DEF First
  <2>3. QED
    BY <1>2, <2>1, <2>2
<1>4. V[{}] = M[n]
  BY <1>2
<1> HIDE DEF First
<1>5. V[DOMAIN s] = W
  <2>1. Leads(s, DOMAIN s, 1)
    <3>1. ASSUME NEW j \in 1 .. n
          PROVE  Prior(s, 1, j)
      <4>1. j = 1 \/ 1 < j
        BY <1>1
      <4>2. s[1].tx.nonce \in Nat /\ s[j].tx.nonce \in Nat
        BY <1>1, PriorTotal
      <4>3. s[1].tx.nonce <= s[j].tx.nonce
        BY <1>1, <4>1, <4>2 DEF Sorted
      <4>4. QED
        BY <4>1, <4>2, <4>3 DEF Prior
    <3>2. QED
      BY <1>1, <3>1 DEF Leads
  <2>2. V[DOMAIN s] = M[1 - 1]
    BY <1>3, <2>1
  <2>3. QED
    BY <2>2 DEF Made
<1>6. ASSUME NEW S, Left(s, S), NEW i, Leads(s, S, i)
      PROVE  Fine(b.fee, s[i], V[S]) /\ V[S \ {i}] = Worked(b.fee, s[i], V[S])
  <2>1. S \in SUBSET DOMAIN s /\ S \ {i} \in SUBSET DOMAIN s
    BY <1>6 DEF Left
  <2>2. /\ i \in 1 .. n
        /\ i = n => S = {i}
        /\ i # n => Leads(s, S \ {i}, i + 1)
    BY <1>1, <1>6, FirstLeft
  <2>3. V[S] = M[i - 1]
    BY <1>3, <1>6, <2>1
  <2>4. Fine(b.fee, s[i], M[i - 1]) /\ M[i] = Worked(b.fee, s[i], M[i - 1])
    BY <2>2 DEF Made
  <2>5. V[S \ {i}] = M[i]
    <3>1. CASE i = n
      BY <1>4, <2>2, <3>1
    <3>2. CASE i # n
      <4>1. V[S \ {i}] = M[(i + 1) - 1]
        BY <1>3, <2>1, <2>2, <3>2
      <4>2. (i + 1) - 1 = i
        BY <1>1, <2>2
      <4>3. QED
        BY <4>1, <4>2
    <3>3. QED
      BY <3>1, <3>2
  <2>6. QED
    BY <2>3, <2>4, <2>5
<1>7. Passing(b, W, {}, V)
  BY <1>5, <1>6 DEF Passing
<1>8. QED
  BY <1>5, <1>7 DEF Sure

OwnRight == MadeSoFar /\ OwnPasses

(* What making does with a transaction is what a walk does with its entry. *)
LEMMA MadeWorks ==
    ASSUME FeesStay, IInv, NEW i \in todo, MakeTx(i)
    PROVE  \E e \in Entry :
               /\ e.tx = transactions[i]
               /\ block' = [block EXCEPT !.txs = Append(@, e)]
               /\ Fine(block.fee, e, wallets)
               /\ wallets' = Worked(block.fee, e, wallets)
<1> DEFINE tx == transactions[i]
           fee == MakeFee(tx)
           sub == Sub(wallets, tx, fee)
           paid == Add(sub, STATE_FEE_WALLET, fee)
           ok == CanApplyMethod(paid, tx)
           state == IF ok THEN "accept" ELSE "wrong_data"
           e == [tx |-> tx, state |-> state]
<1>1. tx \in Tx /\ fee \in Nat /\ Good(wallets)
  BY PairOf, ItemTypes, FeeTypes DEF IInv, MakeTx, Pair
<1>2. /\ SubResult(wallets[tx.from], tx, fee) = 0
      /\ wallets' = IF ok THEN ApplyMethod(paid, tx) ELSE paid
      /\ block' = [block EXCEPT !.txs = Append(@, e)]
  BY DEF MakeTx
<1>3. Charge(block.fee, tx) = fee
  <2>1. tx.size \in Nat /\ FREE_SIZE \in Nat
    BY <1>1, TxAssumption, WalletsAssumption
  <2>2. Excess(tx.size + 1, FREE_SIZE + 1) = Excess(tx.size, FREE_SIZE)
    BY <2>1 DEF Excess
  <2>3. QED
    BY <2>2 DEF Charge, MakeFee
<1> HIDE DEF tx, fee
<1>4. Good(sub) /\ STATE_FEE_WALLET \in Addr /\ tx.from # STATE_FEE_WALLET
  BY <1>1, <1>2, SubGood, WalletsAssumption DEF FeesStay
<1> HIDE DEF sub
<1>5. /\ CanApplyMethod(paid, tx) <=> CanApplyMethod(sub, tx)
      /\ ApplyMethod(paid, tx) = Add(ApplyMethod(sub, tx), STATE_FEE_WALLET, fee)
  BY <1>1, <1>4, MethodRich
<1> HIDE DEF paid
<1>6. e \in Entry /\ e.tx = tx /\ e.state = state /\ state # "approve"
      /\ (state = "accept" <=> ok)
  BY <1>1 DEF Entry, TxState
<1> HIDE DEF e, state
<1>7. Fine(block.fee, e, wallets)
  BY <1>2, <1>3, <1>5, <1>6 DEF Fine, sub
<1>8. wallets' = Worked(block.fee, e, wallets)
  <2>1. CASE ok
    <3>1. Worked(block.fee, e, wallets) = Add(ApplyMethod(sub, tx), STATE_FEE_WALLET, fee)
      BY <1>3, <1>6, <2>1 DEF Worked, sub
    <3>2. QED
      BY <1>2, <1>5, <2>1, <3>1
  <2>2. CASE ~ok
    <3>1. Worked(block.fee, e, wallets) = Add(sub, STATE_FEE_WALLET, fee)
      BY <1>3, <1>6, <2>2 DEF Worked, sub
    <3>2. QED
      BY <1>2, <2>2, <3>1 DEF paid
  <2>3. QED
    BY <2>1, <2>2
<1>9. QED
  BY <1>2, <1>6, <1>7, <1>8 DEF tx

(* A transaction more in the block made. *)
LEMMA MadeMore ==
    ASSUME NEW b \in Block, NEW W, NEW M, NEW U, Made(b, W, M, U),
           NEW e \in Entry, Fine(b.fee, e, U), NEW c, c = [b EXCEPT !.txs = Append(@, e)]
    PROVE  \E N : Made(c, W, N, Worked(b.fee, e, U))
<1> DEFINE s == b.txs
           n == Len(s)
           done == Worked(b.fee, e, U)
<1>1. s \in Seq(Entry) /\ n \in Nat
  BY LenProperties DEF Block
<1>2. c.txs = Append(s, e) /\ c.fee = b.fee
  BY DEF Block
<1>3. /\ Len(c.txs) = n + 1 /\ c.txs[n + 1] = e
      /\ \A k \in 1 .. n : c.txs[k] = s[k]
  BY <1>1, <1>2, AppendProperties
<1> HIDE DEF n, s
<1>4. PICK N : N = [k \in 0 .. n + 1 |-> IF k <= n THEN M[k] ELSE done]
  OBVIOUS
<1> HIDE DEF done
<1>5. N[n + 1] = done /\ \A k \in 0 .. n : N[k] = M[k]
  BY <1>1, <1>4
<1>6. N[0] = W /\ M[n] = U
  BY <1>1, <1>5 DEF Made, n, s
<1>7. ASSUME NEW k \in 1 .. n + 1
      PROVE  Fine(c.fee, c.txs[k], N[k - 1]) /\ N[k] = Worked(c.fee, c.txs[k], N[k - 1])
  <2>1. CASE k = n + 1
    <3>1. N[k - 1] = U /\ N[k] = done /\ c.txs[k] = e
      BY <1>1, <1>3, <1>5, <1>6, <2>1
    <3>2. QED
      BY <1>2, <3>1 DEF done
  <2>2. CASE k \in 1 .. n
    <3>1. k - 1 \in 0 .. n /\ k \in 0 .. n
      BY <1>1, <2>2
    <3>2. N[k - 1] = M[k - 1] /\ N[k] = M[k] /\ c.txs[k] = s[k]
      BY <1>3, <1>5, <2>2, <3>1
    <3>3. Fine(b.fee, s[k], M[k - 1]) /\ M[k] = Worked(b.fee, s[k], M[k - 1])
      BY <2>2 DEF Made, n, s
    <3>4. QED
      BY <1>2, <3>2, <3>3
  <2>3. k = n + 1 \/ k \in 1 .. n
    BY <1>1
  <2>4. QED
    BY <2>1, <2>2, <2>3
<1>8. Made(c, W, N, done)
  BY <1>3, <1>5, <1>6, <1>7 DEF Made
<1>9. QED
  BY <1>8 DEF done

(* A transaction more keeps what is known of the block made. *)
LEMMA MakeTxOwn ==
    ASSUME FeesStay, IInv, OwnRight, NEW i \in todo, MakeTx(i)
    PROVE  OwnRight'
<1> DEFINE s == block.txs
           n == Len(s)
<1>1. PICK e \in Entry :
          /\ e.tx = transactions[i]
          /\ block' = [block EXCEPT !.txs = Append(@, e)]
          /\ Fine(block.fee, e, wallets)
          /\ wallets' = Worked(block.fee, e, wallets)
  BY MadeWorks
<1>2. /\ phase = "making" /\ phase' = "making" /\ i \in NextOf(transactions)
      /\ todo' = todo \ {i} /\ UNCHANGED <<transactions, real_wallets>>
  BY DEF MakeTx
<1>3. /\ block \in Block /\ s \in Seq(Entry) /\ n \in Nat
      /\ \A k \in 1 .. n : s[k].tx.nonce \in Nat
  BY LenProperties, PriorTotal DEF IInv, TypeOK, Block
<1>4. \A k \in todo : transactions[k].nonce \in Nat
  BY <1>2, ItemTypes, TxAssumption DEF IInv
<1>5. block'.txs = Append(s, e)
  BY <1>1, <1>3 DEF Block
<1>6. /\ Len(block'.txs) = n + 1 /\ block'.txs[n + 1] = e
      /\ \A k \in 1 .. n : block'.txs[k] = s[k]
  BY <1>3, <1>5, AppendProperties
<1> HIDE DEF n
<1>7. \A k \in todo : e.tx.nonce <= transactions[k].nonce
  BY <1>1, <1>2, <1>4 DEF NextOf, Before
<1>8. /\ Sorted(s) /\ \A j \in 1 .. n, k \in todo : s[j].tx.nonce <= transactions[k].nonce
      /\ \E M : Made(block, real_wallets, M, wallets)
  BY <1>2 DEF OwnRight, MadeSoFar, n
<1>9. Sorted(block'.txs)
  <2> SUFFICES ASSUME NEW j \in 1 .. n + 1, NEW k \in 1 .. n + 1, j < k
               PROVE  block'.txs[j].tx.nonce <= block'.txs[k].tx.nonce
    BY <1>6 DEF Sorted
  <2>1. j \in 1 .. n /\ block'.txs[j] = s[j]
    BY <1>3, <1>6
  <2>2. CASE k = n + 1
    BY <1>1, <1>6, <1>8, <2>1, <2>2
  <2>3. CASE k \in 1 .. n
    BY <1>6, <1>8, <2>1, <2>3 DEF Sorted, n
  <2>4. k = n + 1 \/ k \in 1 .. n
    BY <1>3
  <2>5. QED
    BY <2>2, <2>3, <2>4
<1>10. ASSUME NEW j \in 1 .. Len(block'.txs), NEW k \in todo'
       PROVE  block'.txs[j].tx.nonce <= transactions'[k].nonce
  <2>1. CASE j = n + 1
    BY <1>2, <1>6, <1>7, <2>1
  <2>2. CASE j \in 1 .. n
    BY <1>2, <1>6, <1>8, <2>2
  <2>3. j = n + 1 \/ j \in 1 .. n
    BY <1>3, <1>6
  <2>4. QED
    BY <2>1, <2>2, <2>3
<1>11. \E N : Made(block', real_wallets', N, wallets')
  <2>1. PICK M : Made(block, real_wallets, M, wallets)
    BY <1>8
  <2>2. \E N : Made(block', real_wallets, N, Worked(block.fee, e, wallets))
    BY <1>1, <1>3, <2>1, MadeMore
  <2>3. QED
    BY <1>1, <1>2, <2>2
<1>12. QED
  BY <1>2, <1>9, <1>10, <1>11 DEF OwnRight, MadeSoFar, OwnPasses

(* No block is being made at first. *)
LEMMA InitOwn ==
    ASSUME Init
    PROVE  OwnRight
BY DEF Init, OwnRight, MadeSoFar, OwnPasses

(* A block that is empty so far. *)
LEMMA NothingMade ==
    ASSUME NEW f, NEW W
    PROVE  \E M : Made([fee |-> f, txs |-> << >>], W, M, W)
<1> DEFINE b == [fee |-> f, txs |-> << >>]
<1>1. PICK M : M = [k \in {0} |-> W]
  OBVIOUS
<1>2. M[0] = W /\ b.txs = << >> /\ Len(<< >>) = 0
  BY <1>1
<1>3. \A k \in 1 .. Len(b.txs) : FALSE
  BY <1>2
<1> HIDE DEF b
<1>4. Made(b, W, M, W)
  BY <1>2, <1>3 DEF Made
<1>5. QED
  BY <1>4 DEF b

(* Making ends where checking begins, with the wallets committed. *)
LEMMA EndMakingOwn ==
    ASSUME IInv, OwnRight, EndMaking
    PROVE  OwnRight'
<1>1. wallets' = real_wallets /\ UNCHANGED real_wallets
  BY Cleared DEF EndMaking, ClearChanges
<1>2. phase = "making" /\ todo' = DOMAIN block.txs /\ phase' # "making"
  BY DEF EndMaking
<1>3. CASE block.txs = << >>
  <2>1. phase' = "idle"
    BY <1>3 DEF EndMaking
  <2>2. QED
    BY <2>1 DEF OwnRight, MadeSoFar, OwnPasses
<1>4. CASE block.txs # << >>
  <2>1. block' = block
    BY <1>4 DEF EndMaking
  <2>2. PICK M : Made(block, real_wallets, M, wallets)
    BY <1>2 DEF OwnRight, MadeSoFar
  <2>3. Sorted(block.txs) /\ block \in Block
    BY <1>2 DEF OwnRight, MadeSoFar, IInv, TypeOK
  <2>4. \E V : Sure(block, real_wallets, V, DOMAIN block.txs, real_wallets)
    BY <1>4, <2>2, <2>3, MadePasses
  <2>5. QED
    BY <1>1, <1>2, <2>1, <2>4 DEF OwnRight, MadeSoFar, OwnPasses
<1>5. QED
  BY <1>3, <1>4

(* One transaction more of a walk that passes. *)
LEMMA SureStep ==
    ASSUME NEW b, NEW W, NEW V, NEW T, NEW U, Sure(b, W, V, T, U), Left(b.txs, T),
           NEW i, Leads(b.txs, T, i)
    PROVE  /\ Fine(b.fee, b.txs[i], U)
           /\ Sure(b, W, V, T \ {i}, Worked(b.fee, b.txs[i], U))
<1>1. V[T] = U /\ Passing(b, W, {}, V)
  BY DEF Sure
<1>2. Fine(b.fee, b.txs[i], V[T]) /\ V[T \ {i}] = Worked(b.fee, b.txs[i], V[T])
  BY <1>1 DEF Passing, Leads
<1>3. QED
  BY <1>1, <1>2 DEF Sure

(* One step of the walk through a block, made here or not. *)
LEMMA WalkOwn ==
    ASSUME ShortBlocks, TypeOK, WalkLeft, OwnRight,
           NEW i \in todo, CheckTxApproved(i) \/ CheckTx(i)
    PROVE  OwnRight'
<1>1. /\ Walking /\ Leads(block.txs, todo, i)
      /\ wallets' = Worked(block.fee, block.txs[i], wallets) /\ todo' = todo \ {i}
      /\ UNCHANGED <<real_wallets, phase, block, own>>
  BY StepWorks
<1>2. Left(block.txs, todo) /\ phase # "making"
  BY <1>1 DEF WalkLeft, Walking
<1>3. CASE phase = "checking" /\ own
  <2>1. PICK V : Sure(block, real_wallets, V, todo, wallets)
    BY <1>3 DEF OwnRight, OwnPasses
  <2>2. Sure(block, real_wallets, V, todo \ {i}, Worked(block.fee, block.txs[i], wallets))
    BY <1>1, <1>2, <2>1, SureStep
  <2>3. QED
    BY <1>1, <1>2, <2>2 DEF OwnRight, MadeSoFar, OwnPasses
<1>4. CASE ~(phase = "checking" /\ own)
  BY <1>1, <1>2, <1>4 DEF OwnRight, MadeSoFar, OwnPasses
<1>5. QED
  BY <1>3, <1>4

(* The transactions left when one of them is rejected. *)
LEMMA RejectedOwn ==
    ASSUME OwnRight, NEW i \in todo, MakeTxRejected(i)
    PROVE  OwnRight'
BY DEF OwnRight, MadeSoFar, OwnPasses, MakeTxRejected

(* Making starts from the committed wallets with no transaction. *)
LEMMA StartOwn ==
    ASSUME IInv, StartMaking
    PROVE  OwnRight'
<1>1. /\ block' = [fee |-> GetFee(Len(transactions)), txs |-> << >>]
      /\ wallets' = wallets /\ real_wallets' = real_wallets /\ wallets = real_wallets
      /\ phase' = "making"
  BY DEF StartMaking, IInv, DryRunsLeaveNoTrace
<1>2. \E M : Made(block', real_wallets', M, wallets')
  BY <1>1, NothingMade
<1>3. block'.txs = << >> /\ Len(<< >>) = 0
  BY <1>1
<1>4. \A j \in 1 .. Len(block'.txs) : FALSE
  BY <1>3
<1>5. QED
  BY <1>1, <1>2, <1>4 DEF OwnRight, MadeSoFar, OwnPasses, Sorted

(* Every step keeps what is known of the node's own block. *)
LEMMA NextOwn ==
    ASSUME ShortBlocks, FeesStay, IInv, AcceptedRight, OwnRight, [Next]_vars
    PROVE  OwnRight'
<1>1. CASE \/ \E tx \in Tx : ReceiveTx(tx)
           \/ MakeRejectedTxBlock \/ UNCHANGED vars
  BY <1>1 DEF ReceiveTx, MakeRejectedTxBlock, vars, walk, OwnRight, MadeSoFar, OwnPasses
<1>2. CASE StartMaking
  BY <1>2, StartOwn
<1>3. CASE \E i \in todo : MakeTxRejected(i)
  BY <1>3, RejectedOwn
<1>4. CASE \E i \in todo : MakeTx(i)
  BY <1>4, MakeTxOwn
<1>5. CASE EndMaking
  BY <1>5, EndMakingOwn
<1>6. CASE \E i \in todo : CheckTxApproved(i) \/ CheckTx(i)
  BY <1>6, WalkOwn DEF IInv, AcceptedRight
<1>7. CASE \/ \E b \in ReceivedBlocks, p \in {"checking", "applying"} : ReceiveBlock(b, p)
           \/ StartApplying \/ EndChecking \/ EndApplying \/ \E i \in todo : Refuse(i)
  BY <1>7 DEF ReceiveBlock, StartApplying, EndChecking, EndApplying, Refuse, EndWalk,
     OwnRight, MadeSoFar, OwnPasses
<1>8. QED
  BY <1>1, <1>2, <1>3, <1>4, <1>5, <1>6, <1>7 DEF Next

(* Who tries the block it made does not refuse it. *)
LEMMA OwnNotRefused ==
    ASSUME ShortBlocks, TypeOK, WalkLeft, OwnRight, NEW i \in todo, Refuse(i)
    PROVE  ~(phase = "checking" /\ own)
<1> SUFFICES ASSUME phase = "checking", own
             PROVE  FALSE
  OBVIOUS
<1>1. Walking /\ i \in NextOf(BlockTxs) /\ block.txs[i].state # "approve" /\ ~Passes(i)
  BY DEF Refuse
<1>2. Leads(block.txs, todo, i) /\ Left(block.txs, todo)
  BY <1>1, NextLeads DEF WalkLeft
<1>3. PICK V : Sure(block, real_wallets, V, todo, wallets)
  BY DEF OwnRight, OwnPasses
<1>4. Fine(block.fee, block.txs[i], wallets)
  BY <1>2, <1>3, SureStep
<1>5. Passes(i)
  BY <1>1, <1>4 DEF Passes, Fine, CheckFee, Charge
<1>6. QED
  BY <1>1, <1>5

(* A node accepts the block it made: can_apply_block finds the fees, the
   nonces and the outcomes of the methods as make_common_block left them.
   For lists that std::sort leaves stable, and with the wallet of the fees
   sending nothing (its address is a text, and nobody has a key for it). *)
THEOREM OwnBlocksAreAccepted ==
    ASSUME ShortBlocks, FeesStay
    PROVE  Spec => []OwnBlockAccepted
<1> DEFINE Ind == IInv /\ MadeShort /\ AcceptedRight /\ OwnRight /\ OwnBlockAccepted
<1>1. Init => Ind
  BY InitIInv, InitShort, InitAccepted, InitOwn DEF Init, OwnBlockAccepted
<1>2. Ind /\ [Next]_vars => Ind'
  <2> SUFFICES ASSUME Ind, [Next]_vars
               PROVE  Ind'
    OBVIOUS
  <2>1. (IInv /\ MadeShort /\ AcceptedRight /\ OwnRight)'
    BY NextIInv, NextShort, NextAccepted, NextOwn
  <2>2. OwnBlockAccepted'
    <3>1. CASE \E i \in todo : Refuse(i)
      <4>1. PICK i \in todo : Refuse(i)
        BY <3>1
      <4>2. ~(phase = "checking" /\ own)
        BY <4>1, OwnNotRefused DEF IInv, AcceptedRight
      <4>3. QED
        BY <4>1, <4>2 DEF Refuse, EndWalk, OwnBlockAccepted
    <3>2. CASE ~\E i \in todo : Refuse(i)
      BY <3>2 DEF Next, ReceiveTx, StartMaking, MakeTxRejected, MakeTx, EndMaking,
         MakeRejectedTxBlock, ReceiveBlock, StartApplying, CheckTxApproved, CheckTx,
         EndChecking, EndApplying, EndWalk, walk, vars, OwnBlockAccepted
    <3>3. QED
      BY <3>1, <3>2
  <2>3. QED
    BY <2>1, <2>2
<1>3. QED
  <2>1. Ind => OwnBlockAccepted
    OBVIOUS
  <2> HIDE DEF Ind
  <2>2. QED
    BY <1>1, <1>2, <2>1, PTL DEF Spec

-----------------------------------------------------------------------------
(* What Accounts sees of the wallets, and what an entry does to it. *)

(* W1 shows the same accounts as W. *)
Same(W, W1) ==
    \A a \in Addr : /\ W1[a].balance = W[a].balance
                    /\ W1[a].transaction_id = W[a].transaction_id

(* W1 shows the accounts of W after tx paid its value and c coins. *)
Charged(W, W1, tx, c) ==
    \A a \in Addr :
        /\ W1[a].transaction_id = W[a].transaction_id + IF a = tx.from THEN 1 ELSE 0
        /\ W1[a].balance = W[a].balance - (IF a = tx.from THEN tx.value + c ELSE 0)
                                        + (IF a = tx.to THEN tx.value ELSE 0)
                                        + (IF a = STATE_FEE_WALLET THEN c ELSE 0)

(* A write that keeps what an account shows. *)
LEMMA PutSame ==
    ASSUME NEW W, Good(W), NEW x \in Addr, NEW w, w.balance = W[x].balance,
           w.transaction_id = W[x].transaction_id
    PROVE  Same(W, [W EXCEPT ![x] = w])
<1>1. \A a \in Addr : [W EXCEPT ![x] = w][a] = IF a = x THEN w ELSE W[a]
  BY DEF Good
<1>2. QED
  BY <1>1 DEF Same

(* Two writes that keep it. *)
LEMMA SameTwice ==
    ASSUME NEW W1, NEW W2, NEW W3, Same(W1, W2), Same(W2, W3)
    PROVE  Same(W1, W3)
BY DEF Same

(* What the writes of a delegation show. *)
LEMMA LendSame ==
    ASSUME NEW w \in Wallet, NEW to, NEW amount
    PROVE  /\ Lend(w, to, amount).balance = w.balance
           /\ Lend(w, to, amount).transaction_id = w.transaction_id
BY DEF Lend, Wallet

(* What the receiver of a delegation shows. *)
LEMMA BorrowSame ==
    ASSUME NEW w \in Wallet, NEW from, NEW amount
    PROVE  /\ Borrow(w, from, amount).balance = w.balance
           /\ Borrow(w, from, amount).transaction_id = w.transaction_id
BY DEF Borrow, Wallet

(* What the end of a delegation shows, for who delegated. *)
LEMMA TakeBackSame ==
    ASSUME NEW w \in Wallet, NEW to
    PROVE  /\ TakeBack(w, to).balance = w.balance
           /\ TakeBack(w, to).transaction_id = w.transaction_id
BY DEF TakeBack, Wallet

(* What it shows for the receiver. *)
LEMMA GiveBackSame ==
    ASSUME NEW w \in Wallet, NEW from
    PROVE  /\ GiveBack(w, from).balance = w.balance
           /\ GiveBack(w, from).transaction_id = w.transaction_id
BY DEF GiveBack, Wallet

(* A method moves no coins and uses no nonce. *)
LEMMA MethodSame ==
    ASSUME NEW W, Good(W), NEW tx \in Tx, CanApplyMethod(W, tx)
    PROVE  Same(W, ApplyMethod(W, tx))
<1>0. /\ tx.method \in Method /\ tx.from \in Addr /\ tx.to \in Addr
      /\ tx.amount \in Nat /\ tx.roles \in SUBSET Role
  BY TxAssumption, WalletsAssumption
<1>1. W[tx.from] \in Wallet /\ Covered(W[tx.from])
  BY <1>0 DEF Good
<1>2. CASE tx.method = "none"
  BY <1>2 DEF ApplyMethod, Same
<1>3. CASE tx.method = "delegate"
  <2> DEFINE lent == Lend(W[tx.from], tx.to, tx.amount)
             W1 == [W EXCEPT ![tx.from] = lent]
             owed == Borrow(W1[tx.to], tx.from, tx.amount)
             W2 == [W1 EXCEPT ![tx.to] = owed]
  <2>1. lent \in Wallet /\ Covered(lent) /\ Ahead(lent, W[tx.from])
    BY <1>0, <1>1, <1>3, LendGood DEF CanApplyMethod, CanDelegate
  <2>2. lent.balance = W[tx.from].balance /\ lent.transaction_id = W[tx.from].transaction_id
    BY <1>1, LendSame
  <2>3. ApplyMethod(W, tx) = W2
    BY <1>3 DEF ApplyMethod, Delegate
  <2> HIDE DEF lent
  <2>4. Same(W, W1) /\ Good(W1)
    BY <1>0, <2>1, <2>2, PutSame, PutGood
  <2> HIDE DEF W1
  <2>5. W1[tx.to] \in Wallet
    BY <1>0, <2>4 DEF Good
  <2>6. owed.balance = W1[tx.to].balance /\ owed.transaction_id = W1[tx.to].transaction_id
    BY <2>5, BorrowSame
  <2> HIDE DEF owed
  <2>7. Same(W1, W2)
    BY <1>0, <2>4, <2>6, PutSame
  <2> HIDE DEF W2
  <2>8. QED
    BY <2>3, <2>4, <2>7, SameTwice
<1>4. CASE tx.method = "undelegate"
  <2> DEFINE less == TakeBack(W[tx.from], tx.to)
             W1 == [W EXCEPT ![tx.from] = less]
             left == GiveBack(W1[tx.to], tx.from)
             W2 == [W1 EXCEPT ![tx.to] = left]
  <2>1. less \in Wallet /\ Covered(less) /\ Ahead(less, W[tx.from])
    BY <1>0, <1>1, <1>4, TakeBackGood DEF CanApplyMethod, CanUndelegate
  <2>2. less.balance = W[tx.from].balance /\ less.transaction_id = W[tx.from].transaction_id
    BY <1>1, TakeBackSame
  <2>3. ApplyMethod(W, tx) = W2
    BY <1>4 DEF ApplyMethod, Undelegate
  <2> HIDE DEF less
  <2>4. Same(W, W1) /\ Good(W1)
    BY <1>0, <2>1, <2>2, PutSame, PutGood
  <2> HIDE DEF W1
  <2>5. W1[tx.to] \in Wallet
    BY <1>0, <2>4 DEF Good
  <2>6. left.balance = W1[tx.to].balance /\ left.transaction_id = W1[tx.to].transaction_id
    BY <2>5, GiveBackSame
  <2> HIDE DEF left
  <2>7. Same(W1, W2)
    BY <1>0, <2>4, <2>6, PutSame
  <2> HIDE DEF W2
  <2>8. QED
    BY <2>3, <2>4, <2>7, SameTwice
<1>5. CASE tx.method = "register"
  <2> DEFINE named == [W[tx.from] EXCEPT !.state = tx.roles]
  <2>1. ApplyMethod(W, tx) = [W EXCEPT ![tx.from] = named]
    BY <1>5 DEF ApplyMethod, Good
  <2>2. named.balance = W[tx.from].balance /\ named.transaction_id = W[tx.from].transaction_id
    BY <1>1 DEF Wallet
  <2> HIDE DEF named
  <2>3. Same(W, [W EXCEPT ![tx.from] = named])
    BY <1>0, <2>2, PutSame
  <2>4. QED
    BY <2>1, <2>3
<1>6. QED
  BY <1>0, <1>2, <1>3, <1>4, <1>5 DEF Method

(* What sub and add show. *)
LEMMA SubCharged ==
    ASSUME NEW W, Good(W), NEW tx \in Tx, NEW c \in Nat, NEW a \in Addr
    PROVE  /\ Sub(W, tx, c)[a].transaction_id
                = W[a].transaction_id + IF a = tx.from THEN 1 ELSE 0
           /\ Sub(W, tx, c)[a].balance
                = W[a].balance - (IF a = tx.from THEN tx.value + c ELSE 0)
                               + (IF a = tx.to THEN tx.value ELSE 0)
<1> DEFINE w == W[tx.from]
           paid == Pay(w, tx.value + c)
           W1 == [W EXCEPT ![tx.from] = paid]
<1>1. tx.from \in Addr /\ tx.to \in Addr /\ tx.value \in Nat /\ w \in Wallet /\ W[a] \in Wallet
  BY TxAssumption, WalletsAssumption DEF Good
<1>2. /\ paid.balance = w.balance - (tx.value + c)
      /\ paid.transaction_id = w.transaction_id + 1
      /\ "balance" \in DOMAIN paid /\ "transaction_id" \in DOMAIN paid
  BY <1>1 DEF Pay, Wallet
<1>3. /\ W[a].balance \in Nat /\ W[a].transaction_id \in Nat
      /\ "balance" \in DOMAIN W[a] /\ "transaction_id" \in DOMAIN W[a]
  BY <1>1 DEF Wallet
<1>4. Sub(W, tx, c) = [W1 EXCEPT ![tx.to].balance = @ + tx.value]
  BY DEF Sub, Add
<1> HIDE DEF paid
<1>5. DOMAIN W1 = Addr /\ W1[a] = IF a = tx.from THEN paid ELSE W[a]
  BY <1>1 DEF Good
<1> HIDE DEF W1
<1>6. Sub(W, tx, c)[a] = IF a = tx.to THEN [W1[a] EXCEPT !.balance = @ + tx.value] ELSE W1[a]
  BY <1>1, <1>4, <1>5
<1>7. /\ W1[a].transaction_id = W[a].transaction_id + IF a = tx.from THEN 1 ELSE 0
      /\ W1[a].balance = W[a].balance - (IF a = tx.from THEN tx.value + c ELSE 0)
      /\ "balance" \in DOMAIN W1[a] /\ "transaction_id" \in DOMAIN W1[a]
      /\ W1[a].balance \in Int
  BY <1>1, <1>2, <1>3, <1>5
<1>8. CASE a = tx.to
  <2>1. [W1[a] EXCEPT !.balance = @ + tx.value].balance = W1[a].balance + tx.value
    BY <1>7
  <2>2. [W1[a] EXCEPT !.balance = @ + tx.value].transaction_id = W1[a].transaction_id
    BY <1>7
  <2>3. QED
    BY <1>6, <1>7, <1>8, <2>1, <2>2
<1>9. CASE a # tx.to
  BY <1>1, <1>3, <1>6, <1>7, <1>9
<1>10. QED
  BY <1>8, <1>9

(* What an entry shows: nothing, or a transaction that is paid. *)
LEMMA EntryCharged ==
    ASSUME NEW W, Good(W), NEW fee \in Nat, NEW e \in Entry, Fine(fee, e, W)
    PROVE  \/ Worked(fee, e, W) = W
           \/ \E c \in Nat : /\ Charged(W, Worked(fee, e, W), e.tx, c)
                             /\ SubResult(W[e.tx.from], e.tx, c) = 0
<1> DEFINE tx == e.tx
           c == Charge(fee, tx)
<1>1. tx \in Tx /\ tx.from \in Addr /\ tx.size \in Nat /\ FREE_SIZE \in Nat /\ tx.value \in Nat
  BY TxAssumption, WalletsAssumption DEF Entry
<1>2. c \in Nat
  BY <1>1 DEF Charge, Excess
<1>3. CASE e.state = "approve"
  <2>1. CASE SubResult(W[tx.from], tx, 0) = 0
    <3>1. Worked(fee, e, W) = Sub(W, tx, 0)
      BY <1>3, <2>1 DEF Worked
    <3>2. \A a \in Addr :
            /\ Sub(W, tx, 0)[a].transaction_id
                 = W[a].transaction_id + IF a = tx.from THEN 1 ELSE 0
            /\ Sub(W, tx, 0)[a].balance
                 = W[a].balance - (IF a = tx.from THEN tx.value + 0 ELSE 0)
                                + (IF a = tx.to THEN tx.value ELSE 0)
      BY <1>1, SubCharged
    <3>3. \A a \in Addr : W[a].balance \in Nat
      <4> TAKE a \in Addr
      <4>1. W[a] \in Wallet
        BY DEF Good
      <4>2. QED
        BY <4>1 DEF Wallet
    <3>4. Charged(W, Sub(W, tx, 0), tx, 0)
      BY <1>1, <3>2, <3>3 DEF Charged
    <3>5. QED
      BY <2>1, <3>1, <3>4
  <2>2. CASE SubResult(W[tx.from], tx, 0) # 0
    BY <1>3, <2>2 DEF Worked
  <2>3. QED
    BY <2>1, <2>2
<1>4. CASE e.state # "approve"
  <2> DEFINE paid == Sub(W, tx, c)
             done == IF e.state = "accept" THEN ApplyMethod(paid, tx) ELSE paid
  <2>1. SubResult(W[tx.from], tx, c) = 0 /\ (e.state = "accept" => CanApplyMethod(paid, tx))
    BY <1>4 DEF Fine
  <2>2. Worked(fee, e, W) = Add(done, STATE_FEE_WALLET, c)
    BY <1>4 DEF Worked
  <2> HIDE DEF c, tx
  <2>3. Good(paid)
    BY <1>1, <1>2, <2>1, SubGood
  <2>4. \A a \in Addr :
            /\ paid[a].transaction_id
                 = W[a].transaction_id + IF a = tx.from THEN 1 ELSE 0
            /\ paid[a].balance
                 = W[a].balance - (IF a = tx.from THEN tx.value + c ELSE 0)
                                + (IF a = tx.to THEN tx.value ELSE 0)
    BY <1>1, <1>2, SubCharged
  <2> HIDE DEF paid
  <2>5. Same(paid, done) /\ Good(done)
    <3>1. CASE e.state = "accept"
      BY <1>1, <2>1, <2>3, <3>1, MethodSame, MethodGood
    <3>2. CASE e.state # "accept"
      BY <2>3, <3>2 DEF Same
    <3>3. QED
      BY <3>1, <3>2
  <2> HIDE DEF done
  <2>6. ASSUME NEW a \in Addr
        PROVE  /\ Add(done, STATE_FEE_WALLET, c)[a].transaction_id = done[a].transaction_id
               /\ Add(done, STATE_FEE_WALLET, c)[a].balance
                    = done[a].balance + IF a = STATE_FEE_WALLET THEN c ELSE 0
    <3>1. DOMAIN done = Addr /\ done[a] \in Wallet /\ STATE_FEE_WALLET \in Addr
      BY <2>5, WalletsAssumption DEF Good
    <3>2. done[a].balance \in Nat /\ "balance" \in DOMAIN done[a] /\ "transaction_id" \in DOMAIN done[a]
      BY <3>1 DEF Wallet
    <3>3. Add(done, STATE_FEE_WALLET, c)[a]
            = IF a = STATE_FEE_WALLET THEN [done[a] EXCEPT !.balance = @ + c] ELSE done[a]
      BY <3>1 DEF Add
    <3>4. QED
      BY <1>2, <3>2, <3>3
  <2>7. Charged(W, Add(done, STATE_FEE_WALLET, c), tx, c)
    BY <2>4, <2>5, <2>6 DEF Charged, Same
  <2>8. QED
    BY <1>2, <2>1, <2>2, <2>7 DEF tx
<1>5. QED
  BY <1>3, <1>4

-----------------------------------------------------------------------------
(* Sets of transactions that move accounts. *)

(* The sums of Accounts are those of Wallets. *)
LEMMA BankSum ==
    ASSUME NEW f
    PROVE  Bank!SumFunction(f) = SumFunction(f)
<1>1. Bank!SumFunctionOnSet(f, DOMAIN f) = SumFunctionOnSet(f, DOMAIN f)
  BY DEF Bank!SumFunctionOnSet, Bank!FoldFunctionOnSet, Bank!MapThenFoldSet,
     SumFunctionOnSet, FoldFunctionOnSet, MapThenFoldSet
<1>2. QED
  BY <1>1 DEF Bank!SumFunction, SumFunction

(* And so are the numbers of members. *)
LEMMA BankCount ==
    ASSUME NEW S
    PROVE  Bank!Cardinality(S) = Cardinality(S)
BY DEF Bank!Cardinality, Cardinality

(* What Accounts adds up. *)
LEMMA BankSums ==
    ASSUME NEW B, NEW charge
    PROVE  /\ Bank!Paid(B, charge) = SumFunction([tx \in B |-> tx.value + charge[tx]])
           /\ Bank!Received(B) = SumFunction([tx \in B |-> tx.value])
           /\ Bank!Fees(B, charge) = SumFunction([tx \in B |-> charge[tx]])
BY BankSum DEF Bank!Paid, Bank!Received, Bank!Fees

(* The summands f of the part of B in S, and g when B gets x as well. *)
Grows(B, x, S, f, g) ==
    /\ IsFiniteSet(B) /\ x \notin B
    /\ DOMAIN f = B \cap S /\ DOMAIN g = (B \cup {x}) \cap S
    /\ \A y \in B \cap S : g[y] = f[y] /\ f[y] \in Int
    /\ x \in S => g[x] \in Int

(* The sum over the part of a set in S, when the set gets one more member. *)
LEMMA GrowPart ==
    ASSUME NEW B, NEW x, NEW S, NEW f, NEW g, Grows(B, x, S, f, g)
    PROVE  /\ SumFunction(g) = SumFunction(f) + IF x \in S THEN g[x] ELSE 0
           /\ SumFunction(f) \in Int
<1> DEFINE C == B \cap S
<1>0. Grows(B, x, S, f, g)
  OBVIOUS
<1>1. /\ IsFiniteSet(C) /\ x \notin C /\ \A y \in C : g[y] = f[y] /\ f[y] \in Int
      /\ DOMAIN f = C /\ DOMAIN g = (B \cup {x}) \cap S /\ (x \in S => g[x] \in Int)
  BY <1>0, FS_Subset DEF Grows
<1>2. SumFunctionOnSet(g, C) = SumFunctionOnSet(f, C)
  BY <1>1, SumCongruent
<1>3. SumFunction(f) = SumFunctionOnSet(f, C) /\ SumFunctionOnSet(f, C) \in Int
  BY <1>1, SumType DEF SumFunction
<1>4. CASE x \in S
  <2>1. DOMAIN g = C \cup {x} /\ \A y \in C \cup {x} : g[y] \in Int
    BY <1>1, <1>4
  <2>2. SumFunctionOnSet(g, C \cup {x}) = SumFunctionOnSet(g, C) + g[x]
    BY <1>1, <2>1, SumAdd
  <2>3. QED
    BY <1>2, <1>3, <1>4, <2>1, <2>2 DEF SumFunction
<1>5. CASE x \notin S
  <2>1. DOMAIN g = C
    BY <1>1, <1>5
  <2>2. QED
    BY <1>2, <1>3, <1>5, <2>1 DEF SumFunction
<1>6. QED
  BY <1>4, <1>5

(* The transactions of B from a carry the nonces from n on, each once. *)
InTurn(B, a, n) ==
    {tx.nonce : tx \in Bank!From(B, a)} = n .. n + Cardinality(Bank!From(B, a)) - 1

(* What the transactions of B, with these charges, make of the accounts R. *)
Moved(R, W, B, charge) ==
    /\ B \in SUBSET Tx /\ IsFiniteSet(B)
    /\ charge \in [B -> Nat] /\ \A tx \in B : charge[tx] <= tx.fee
    /\ \A a \in Addr :
        /\ InTurn(B, a, R[a].transaction_id)
        /\ W[a].transaction_id = R[a].transaction_id + Cardinality(Bank!From(B, a))
        /\ W[a].balance = R[a].balance - Bank!Paid(Bank!From(B, a), charge)
                                       + Bank!Received({tx \in B : tx.to = a})
                                       + IF a = STATE_FEE_WALLET THEN Bank!Fees(B, charge) ELSE 0

(* No transaction moves nothing. *)
LEMMA MovedNone ==
    ASSUME NEW R, Good(R)
    PROVE  \E charge : Moved(R, R, {}, charge)
<1>1. PICK charge : charge = [tx \in {} |-> 0]
  OBVIOUS
<1>2. charge \in [{} -> Nat] /\ IsFiniteSet({}) /\ Cardinality({}) = 0
  BY <1>1, FS_EmptySet
<1>3. \A f : DOMAIN f = {} => SumFunction(f) = 0
  BY SumEmpty DEF SumFunction
<1>4. \A a : Bank!From({}, a) = {} /\ {tx \in {} : tx.to = a} = {}
  BY DEF Bank!From
<1>5. Bank!Paid({}, charge) = 0 /\ Bank!Received({}) = 0 /\ Bank!Fees({}, charge) = 0
  BY <1>3, BankSums
<1>6. ASSUME NEW a \in Addr
      PROVE  /\ InTurn({}, a, R[a].transaction_id)
             /\ R[a].transaction_id = R[a].transaction_id + Cardinality(Bank!From({}, a))
             /\ R[a].balance = R[a].balance - Bank!Paid(Bank!From({}, a), charge)
                                       + Bank!Received({tx \in {} : tx.to = a})
                                       + IF a = STATE_FEE_WALLET THEN Bank!Fees({}, charge) ELSE 0
  <2>1. R[a] \in Wallet
    BY DEF Good
  <2>2. R[a].balance \in Nat /\ R[a].transaction_id \in Nat
    BY <2>1 DEF Wallet
  <2>3. Bank!From({}, a) = {} /\ {tx \in {} : tx.to = a} = {}
    BY <1>4
  <2>4. {tx.nonce : tx \in {}} = R[a].transaction_id .. R[a].transaction_id + 0 - 1
    BY <2>2
  <2>5. /\ R[a].transaction_id = R[a].transaction_id + 0
        /\ R[a].balance = R[a].balance - 0 + 0 + IF a = STATE_FEE_WALLET THEN 0 ELSE 0
    BY <2>2
  <2>6. QED
    BY <1>2, <1>5, <2>3, <2>4, <2>5 DEF InTurn
<1>7. QED
  BY <1>2, <1>6 DEF Moved

(* The charges and one more. *)
Extends(more, B, charge, tx, c) ==
    more = [t \in B \cup {tx} |-> IF t = tx THEN c ELSE charge[t]]

(* One transaction more: who pays, who receives, the fees. *)
LEMMA PaidMore ==
    ASSUME NEW B \in SUBSET Tx, IsFiniteSet(B), NEW tx \in Tx, tx \notin B,
           NEW charge \in [B -> Nat], NEW c \in Nat,
           NEW more, Extends(more, B, charge, tx, c),
           NEW a
    PROVE  /\ Bank!Paid(Bank!From(B \cup {tx}, a), more)
                = Bank!Paid(Bank!From(B, a), charge) + IF a = tx.from THEN tx.value + c ELSE 0
           /\ Bank!Paid(Bank!From(B, a), charge) \in Int
<1> DEFINE S == {t \in Tx : t.from = a}
           f == [t \in B \cap S |-> t.value + charge[t]]
           g == [t \in (B \cup {tx}) \cap S |-> t.value + more[t]]
<1>1. /\ Bank!From(B, a) = B \cap S /\ Bank!From(B \cup {tx}, a) = (B \cup {tx}) \cap S
      /\ tx \in S <=> a = tx.from
  BY DEF Bank!From
<1>2. \A y \in B \cap S : g[y] = f[y] /\ f[y] \in Int
  BY TxAssumption DEF Extends
<1>3. tx \in S => g[tx] = tx.value + c /\ g[tx] \in Int
  BY TxAssumption DEF Extends
<1>4. SumFunction(f) = Bank!Paid(B \cap S, charge) /\ SumFunction(g) = Bank!Paid((B \cup {tx}) \cap S, more)
  BY BankSum DEF Bank!Paid
<1>5. DOMAIN f = B \cap S /\ DOMAIN g = (B \cup {tx}) \cap S
  OBVIOUS
<1> HIDE DEF f, g, S
<1>6. /\ SumFunction(g) = SumFunction(f) + IF tx \in S THEN g[tx] ELSE 0
      /\ SumFunction(f) \in Int
  <2>1. Grows(B, tx, S, f, g)
    BY <1>2, <1>3, <1>5 DEF Grows
  <2>2. QED
    BY <2>1, GrowPart
<1>7. QED
  BY <1>1, <1>3, <1>4, <1>6

(* One transaction more: who receives. *)
LEMMA ReceivedMore ==
    ASSUME NEW B \in SUBSET Tx, IsFiniteSet(B), NEW tx \in Tx, tx \notin B, NEW a
    PROVE  /\ Bank!Received({t \in B \cup {tx} : t.to = a})
                = Bank!Received({t \in B : t.to = a}) + IF a = tx.to THEN tx.value ELSE 0
           /\ Bank!Received({t \in B : t.to = a}) \in Int
<1> DEFINE S == {t \in Tx : t.to = a}
           f == [t \in B \cap S |-> t.value]
           g == [t \in (B \cup {tx}) \cap S |-> t.value]
<1>1. /\ {t \in B : t.to = a} = B \cap S /\ {t \in B \cup {tx} : t.to = a} = (B \cup {tx}) \cap S
      /\ tx \in S <=> a = tx.to
  OBVIOUS
<1>2. \A y \in B \cap S : g[y] = f[y] /\ f[y] \in Int
  BY TxAssumption
<1>3. tx \in S => g[tx] = tx.value /\ g[tx] \in Int
  BY TxAssumption
<1>4. SumFunction(f) = Bank!Received(B \cap S) /\ SumFunction(g) = Bank!Received((B \cup {tx}) \cap S)
  BY BankSums
<1>5. DOMAIN f = B \cap S /\ DOMAIN g = (B \cup {tx}) \cap S
  OBVIOUS
<1> HIDE DEF f, g, S
<1>6. /\ SumFunction(g) = SumFunction(f) + IF tx \in S THEN g[tx] ELSE 0
      /\ SumFunction(f) \in Int
  <2>1. Grows(B, tx, S, f, g)
    BY <1>2, <1>3, <1>5 DEF Grows
  <2>2. QED
    BY <2>1, GrowPart
<1>7. QED
  BY <1>1, <1>3, <1>4, <1>6

(* One transaction more: the fees. *)
LEMMA FeesMore ==
    ASSUME NEW B \in SUBSET Tx, IsFiniteSet(B), NEW tx \in Tx, tx \notin B,
           NEW charge \in [B -> Nat], NEW c \in Nat,
           NEW more, Extends(more, B, charge, tx, c)
    PROVE  /\ Bank!Fees(B \cup {tx}, more) = Bank!Fees(B, charge) + c
           /\ Bank!Fees(B, charge) \in Int
<1> DEFINE f == [t \in B |-> charge[t]]
           g == [t \in B \cup {tx} |-> more[t]]
<1>1. \A y \in B : g[y] = f[y] /\ f[y] \in Int
  BY DEF Extends
<1>2. g[tx] = c
  BY DEF Extends
<1>3. SumFunction(f) = Bank!Fees(B, charge) /\ SumFunction(g) = Bank!Fees(B \cup {tx}, more)
  BY BankSum DEF Bank!Fees
<1>4. DOMAIN f = B \cap Tx /\ DOMAIN g = (B \cup {tx}) \cap Tx /\ B \cap Tx = B
  OBVIOUS
<1> HIDE DEF f, g
<1>5. /\ SumFunction(g) = SumFunction(f) + IF tx \in Tx THEN g[tx] ELSE 0
      /\ SumFunction(f) \in Int
  <2>1. Grows(B, tx, Tx, f, g)
    BY <1>1, <1>2, <1>4 DEF Grows
  <2>2. QED
    BY <2>1, GrowPart
<1>6. QED
  BY <1>2, <1>3, <1>5

(* The nonces of who sends. *)
LEMMA NoncesMore ==
    ASSUME NEW B \in SUBSET Tx, IsFiniteSet(B), NEW tx \in Tx, tx \notin B, NEW a, NEW n \in Nat,
           InTurn(B, a, n),
           a = tx.from => tx.nonce = n + Cardinality(Bank!From(B, a))
    PROVE  /\ Cardinality(Bank!From(B \cup {tx}, a))
                = Cardinality(Bank!From(B, a)) + IF a = tx.from THEN 1 ELSE 0
           /\ Cardinality(Bank!From(B, a)) \in Nat
           /\ InTurn(B \cup {tx}, a, n)
<1> DEFINE F == Bank!From(B, a)
           G == Bank!From(B \cup {tx}, a)
           k == Cardinality(F)
<1>1. F \subseteq B /\ tx \notin F /\ G = IF a = tx.from THEN F \cup {tx} ELSE F
  BY DEF Bank!From
<1>2. IsFiniteSet(F) /\ k \in Nat
  BY <1>1, FS_Subset, FS_CardinalityType
<1>3. a = tx.from => Cardinality(G) = k + 1
  BY <1>1, <1>2, FS_AddElement
<1>4. a # tx.from => G = F
  BY <1>1
<1> HIDE DEF F, G, k, InTurn
<1>5. {t.nonce : t \in F} = n .. n + k - 1 /\ (a = tx.from => tx.nonce = n + k)
  BY DEF F, k, InTurn
<1>6. CASE a = tx.from
  <2>1. {t.nonce : t \in G} = {t.nonce : t \in F} \cup {tx.nonce}
    BY <1>1, <1>6
  <2>2. n .. n + (k + 1) - 1 = (n .. n + k - 1) \cup {n + k}
    BY <1>2
  <2>3. QED
    BY <1>2, <1>3, <1>5, <1>6, <2>1, <2>2 DEF F, G, k, InTurn
<1>7. CASE a # tx.from
  <2>1. Cardinality(G) = k + 0
    BY <1>2, <1>4, <1>7 DEF k
  <2>2. {t.nonce : t \in G} = n .. n + k - 1
    BY <1>4, <1>5, <1>7
  <2>3. k + 0 = k /\ Cardinality(G) = k
    BY <1>2, <2>1
  <2>4. {t.nonce : t \in G} = n .. n + Cardinality(G) - 1
    BY <2>2, <2>3
  <2>5. Cardinality(G) = Cardinality(F) + IF a = tx.from THEN 1 ELSE 0
    BY <1>2, <1>7, <2>1 DEF k
  <2>6. QED
    BY <1>2, <2>4, <2>5 DEF F, G, k, InTurn
<1>8. QED
  BY <1>6, <1>7

-----------------------------------------------------------------------------
(* An application as one step of Accounts. *)

(* A transaction that sub accepts is the sender's next, and offers the fee. *)
LEMMA SubInTurn ==
    ASSUME NEW w, NEW tx, NEW c, SubResult(w, tx, c) = 0
    PROVE  w.transaction_id = tx.nonce /\ ~ (tx.fee < c)
<1> DEFINE total_sub == tx.value + c
<1>1. /\ TX_REJECT_INSUFFICIENT_FEE # 0 /\ TX_REJECT_INSUFFICIENT_FUNDS # 0
      /\ TX_REJECT_INVALID_NONCE # 0 /\ TX_REJECT_INSUFFICIENT_FUNDS_EXT # 0
      /\ TX_REJECT_FOUNDER_LIMIT # 0
  BY DEF TX_REJECT_INSUFFICIENT_FEE, TX_REJECT_INSUFFICIENT_FUNDS, TX_REJECT_INVALID_NONCE,
     TX_REJECT_INSUFFICIENT_FUNDS_EXT, TX_REJECT_FOUNDER_LIMIT
<1>2. ~ (GetBalance(w) < total_sub)
  BY <1>1 DEF SubResult
<1>3. ~ (w.founder /\ w.used_limit + total_sub > w.limit)
  BY <1>1, <1>2 DEF SubResult
<1>4. ~ (tx.fee < c)
  BY <1>1, <1>2, <1>3 DEF SubResult
<1>5. ~ (w.balance < total_sub)
  BY <1>1, <1>2, <1>3, <1>4 DEF SubResult
<1>6. w.transaction_id = tx.nonce
  BY <1>1, <1>2, <1>3, <1>4, <1>5 DEF SubResult
<1>7. QED
  BY <1>4, <1>6

(* A transaction among those taken in turn has a nonce of theirs. *)
LEMMA NonceTaken ==
    ASSUME NEW B, NEW a, NEW n, InTurn(B, a, n), NEW tx \in Bank!From(B, a)
    PROVE  tx.nonce \in n .. n + Cardinality(Bank!From(B, a)) - 1
<1> DEFINE F == Bank!From(B, a)
           taken == {t.nonce : t \in F}
<1>1. tx.nonce \in taken
  OBVIOUS
<1>2. taken = n .. n + Cardinality(F) - 1
  BY Zenon DEF InTurn
<1> HIDE DEF taken
<1>3. QED
  BY <1>1, <1>2, Zenon

(* A transaction paid is one more that moved the accounts. *)
LEMMA MovedMore ==
    ASSUME NEW R, Good(R), NEW W, Good(W), NEW B, NEW charge, Moved(R, W, B, charge),
           NEW tx \in Tx, NEW c \in Nat, NEW W1, Charged(W, W1, tx, c),
           SubResult(W[tx.from], tx, c) = 0
    PROVE  \E C, more : Moved(R, W1, C, more)
<1>1. /\ B \in SUBSET Tx /\ IsFiniteSet(B)
      /\ charge \in [B -> Nat] /\ \A t \in B : charge[t] <= t.fee
  BY DEF Moved
<1>2. tx.from \in Addr /\ tx.nonce \in Nat /\ tx.fee \in Nat /\ tx.value \in Nat
  BY TxAssumption, WalletsAssumption
<1>3. tx.nonce = W[tx.from].transaction_id /\ c <= tx.fee
  <2>1. W[tx.from].transaction_id = tx.nonce /\ ~ (tx.fee < c)
    BY SubInTurn
  <2>2. QED
    BY <1>2, <2>1
<1>4. ASSUME NEW a \in Addr
      PROVE  /\ R[a].transaction_id \in Nat /\ R[a].balance \in Nat
             /\ W[a].transaction_id \in Nat /\ W[a].balance \in Nat
             /\ Cardinality(Bank!From(B, a)) \in Nat
             /\ InTurn(B, a, R[a].transaction_id)
             /\ W[a].transaction_id = R[a].transaction_id + Cardinality(Bank!From(B, a))
             /\ W[a].balance = R[a].balance - Bank!Paid(Bank!From(B, a), charge)
                                       + Bank!Received({t \in B : t.to = a})
                                       + IF a = STATE_FEE_WALLET THEN Bank!Fees(B, charge) ELSE 0
  <2>1. R[a] \in Wallet /\ W[a] \in Wallet
    BY DEF Good
  <2>2. /\ R[a].transaction_id \in Nat /\ R[a].balance \in Nat
        /\ W[a].transaction_id \in Nat /\ W[a].balance \in Nat
    BY <2>1 DEF Wallet
  <2>3. IsFiniteSet(Bank!From(B, a))
    BY <1>1, FS_Subset DEF Bank!From
  <2>4. Cardinality(Bank!From(B, a)) \in Nat
    BY <2>3, FS_CardinalityType
  <2>5. QED
    BY <2>2, <2>4 DEF Moved
<1>5. tx \notin B
  <2> SUFFICES ASSUME tx \in B
               PROVE  FALSE
    OBVIOUS
  <2>1. tx \in Bank!From(B, tx.from)
    BY DEF Bank!From
  <2>2. tx.nonce \in R[tx.from].transaction_id
                .. R[tx.from].transaction_id + Cardinality(Bank!From(B, tx.from)) - 1
    <3>1. InTurn(B, tx.from, R[tx.from].transaction_id)
      BY <1>2, <1>4, Zenon
    <3>2. QED
      BY <2>1, <3>1, NonceTaken, Zenon
  <2>3. tx.nonce = R[tx.from].transaction_id + Cardinality(Bank!From(B, tx.from))
    BY <1>2, <1>3, <1>4
  <2>4. R[tx.from].transaction_id \in Nat /\ Cardinality(Bank!From(B, tx.from)) \in Nat
    BY <1>2, <1>4
  <2>5. QED
    BY <2>2, <2>3, <2>4
<1>6. PICK more : Extends(more, B, charge, tx, c)
  BY DEF Extends
<1> DEFINE C == B \cup {tx}
<1>7. /\ C \in SUBSET Tx /\ IsFiniteSet(C)
      /\ more \in [C -> Nat] /\ \A t \in C : more[t] <= t.fee
  <2>1. IsFiniteSet(C)
    BY <1>1, FS_AddElement
  <2>2. QED
    BY <1>1, <1>3, <1>6, <2>1 DEF Extends
<1>8. ASSUME NEW a \in Addr
      PROVE  /\ InTurn(C, a, R[a].transaction_id)
             /\ W1[a].transaction_id = R[a].transaction_id + Cardinality(Bank!From(C, a))
  <2>1. a = tx.from => tx.nonce = R[a].transaction_id + Cardinality(Bank!From(B, a))
    BY <1>3, <1>4
  <2>2. /\ Cardinality(Bank!From(C, a))
                = Cardinality(Bank!From(B, a)) + IF a = tx.from THEN 1 ELSE 0
        /\ InTurn(C, a, R[a].transaction_id)
        /\ Cardinality(Bank!From(B, a)) \in Nat
    <3>1. InTurn(B, a, R[a].transaction_id) /\ R[a].transaction_id \in Nat
      BY <1>4
    <3>2. QED
      BY <1>1, <1>5, <2>1, <3>1, NoncesMore, Zenon
  <2>3. W1[a].transaction_id = W[a].transaction_id + IF a = tx.from THEN 1 ELSE 0
    BY DEF Charged
  <2>4. /\ W[a].transaction_id = R[a].transaction_id + Cardinality(Bank!From(B, a))
        /\ R[a].transaction_id \in Nat
    BY <1>4
  <2>5. QED
    BY <2>2, <2>3, <2>4
<1>9. ASSUME NEW a \in Addr
      PROVE  W1[a].balance = R[a].balance - Bank!Paid(Bank!From(C, a), more)
                                       + Bank!Received({t \in C : t.to = a})
                                       + IF a = STATE_FEE_WALLET THEN Bank!Fees(C, more) ELSE 0
  <2> DEFINE p == Bank!Paid(Bank!From(B, a), charge)
             p1 == Bank!Paid(Bank!From(C, a), more)
             r == Bank!Received({t \in B : t.to = a})
             r1 == Bank!Received({t \in C : t.to = a})
             z == Bank!Fees(B, charge)
             z1 == Bank!Fees(C, more)
  <2>1. p1 = p + (IF a = tx.from THEN tx.value + c ELSE 0) /\ p \in Int
    BY <1>1, <1>5, <1>6, PaidMore
  <2>2. r1 = r + (IF a = tx.to THEN tx.value ELSE 0) /\ r \in Int
    BY <1>1, <1>5, ReceivedMore
  <2>3. z1 = z + c /\ z \in Int
    BY <1>1, <1>5, <1>6, FeesMore
  <2>4. W1[a].balance = W[a].balance - (IF a = tx.from THEN tx.value + c ELSE 0)
                                        + (IF a = tx.to THEN tx.value ELSE 0)
                                        + (IF a = STATE_FEE_WALLET THEN c ELSE 0)
    BY DEF Charged
  <2>5. W[a].balance = R[a].balance - p + r + (IF a = STATE_FEE_WALLET THEN z ELSE 0)
    BY <1>4
  <2>6. R[a].balance \in Nat
    BY <1>4
  <2> HIDE DEF p, p1, r, r1, z, z1
  <2>7. W1[a].balance = R[a].balance - p1 + r1 + (IF a = STATE_FEE_WALLET THEN z1 ELSE 0)
    BY <1>2, <2>1, <2>2, <2>3, <2>4, <2>5, <2>6
  <2>8. QED
    BY <2>7 DEF p1, r1, z1
<1>10. Moved(R, W1, C, more)
  BY <1>7, <1>8, <1>9 DEF Moved
<1>11. QED
  BY <1>10

(* While a block is applied, the staged wallets are the committed ones
   moved by the transactions of the block that were paid so far. *)
Committing ==
    phase = "applying" => \E B, charge : Moved(real_wallets, wallets, B, charge)

(* What a step of a walk does to the wallets. *)
LEMMA StepDoes ==
    ASSUME NEW i \in todo, CheckTxApproved(i) \/ CheckTx(i)
    PROVE  /\ Walking
           /\ Fine(block.fee, block.txs[i], wallets)
           /\ wallets' = Worked(block.fee, block.txs[i], wallets)
           /\ UNCHANGED <<real_wallets, phase>>
<1>1. CASE CheckTxApproved(i)
  BY <1>1 DEF CheckTxApproved, Fine, Worked
<1>2. CASE CheckTx(i)
  BY <1>2 DEF CheckTx, Passes, CheckFee, Charge, Fine, Worked
<1>3. QED
  BY <1>1, <1>2

(* No block is applied at first. *)
LEMMA InitCommitting ==
    ASSUME Init
    PROVE  Committing
BY DEF Init, Committing

(* Every step of an application pays one transaction more, or none. *)
LEMMA NextCommitting ==
    ASSUME IInv, Committing, [Next]_vars
    PROVE  Committing'
<1>0. Good(wallets) /\ Good(real_wallets)
  BY PairOf DEF Pair
<1>1. CASE \/ \E b \in ReceivedBlocks, p \in {"checking", "applying"} : ReceiveBlock(b, p)
           \/ StartApplying
  <2>1. wallets' = real_wallets' /\ UNCHANGED real_wallets
    BY <1>1 DEF ReceiveBlock, StartApplying, IInv, DryRunsLeaveNoTrace
  <2>2. \E charge : Moved(real_wallets, real_wallets, {}, charge)
    BY <1>0, MovedNone
  <2>3. QED
    BY <2>1, <2>2 DEF Committing
<1>2. CASE \E i \in todo : CheckTxApproved(i) \/ CheckTx(i)
  <2>1. PICK i \in todo : CheckTxApproved(i) \/ CheckTx(i)
    BY <1>2
  <2>2. /\ Walking /\ Fine(block.fee, block.txs[i], wallets)
        /\ wallets' = Worked(block.fee, block.txs[i], wallets)
        /\ UNCHANGED <<real_wallets, phase>>
    BY <2>1, StepDoes
  <2>3. block.fee \in Nat /\ block.txs[i] \in Entry /\ block.txs[i].tx \in Tx
    BY <2>2, ItemTypes DEF IInv, TypeOK, Block, Walking
  <2>4. CASE phase = "applying" /\ wallets' # wallets
    <3>1. PICK B, charge : Moved(real_wallets, wallets, B, charge)
      BY <2>4 DEF Committing
    <3>2. PICK c \in Nat : /\ Charged(wallets, wallets', block.txs[i].tx, c)
                           /\ SubResult(wallets[block.txs[i].tx.from], block.txs[i].tx, c) = 0
      BY <1>0, <2>2, <2>3, <2>4, EntryCharged
    <3>3. \E C, more : Moved(real_wallets, wallets', C, more)
      BY <1>0, <2>3, <3>1, <3>2, MovedMore
    <3>4. QED
      BY <2>2, <3>3 DEF Committing
  <2>5. CASE ~(phase = "applying" /\ wallets' # wallets)
    BY <2>2, <2>5 DEF Committing
  <2>6. QED
    BY <2>4, <2>5
<1>3. CASE \/ \E tx \in Tx : ReceiveTx(tx)
           \/ StartMaking \/ \E i \in todo : MakeTxRejected(i) \/ MakeTx(i)
           \/ EndMaking \/ MakeRejectedTxBlock
           \/ \E i \in todo : Refuse(i)
           \/ EndChecking \/ EndApplying \/ UNCHANGED vars
  BY <1>3 DEF ReceiveTx, StartMaking, MakeTxRejected, MakeTx, EndMaking, MakeRejectedTxBlock,
     Refuse, EndChecking, EndApplying, EndWalk, walk, vars, Committing
<1>4. QED
  BY <1>1, <1>2, <1>3 DEF Next

(* Only the end of an application changes the committed wallets. *)
LEMMA CommitsAtEnd ==
    ASSUME IInv, [Next]_vars, ~EndApplying
    PROVE  UNCHANGED real_wallets
BY DEF Next, ReceiveTx, StartMaking, MakeTxRejected, MakeTx, EndMaking, MakeRejectedTxBlock,
   ReceiveBlock, StartApplying, CheckTxApproved, CheckTx, Refuse, EndChecking, ClearChanges,
   walk, vars

(* The wallets that an application commits are accounts moved by a block. *)
LEMMA CommitMoves ==
    ASSUME IInv, IInv', Committing, EndApplying
    PROVE  Bank!Next
<1>1. Good(wallets) /\ Good(real_wallets) /\ Good(real_wallets')
  BY PairOf DEF Pair, IInv, CoinsCovered, TypeOK, Good
<1>2. real_wallets' = wallets
  BY PairOf, PairCommitted DEF EndApplying
<1>3. PICK B, charge : Moved(real_wallets, wallets, B, charge)
  BY DEF EndApplying, Committing
<1>4. charge \in Bank!Charges(B)
  <2>1. charge \in [B -> Nat] /\ (\A tx \in B : charge[tx] <= tx.fee) /\ B \subseteq Tx
    BY <1>3 DEF Moved
  <2>2. \A tx \in B : charge[tx] \in 0 .. tx.fee
    BY <2>1, TxAssumption
  <2>3. charge \in [B -> UNION {0 .. tx.fee : tx \in B}]
    BY <2>1, <2>2
  <2>4. QED
    BY <2>1, <2>3 DEF Bank!Charges
<1>5. Bank!InTurn(B)
  <2>1. ASSUME NEW a \in Addr
        PROVE  {tx.nonce : tx \in Bank!From(B, a)}
                    = [b \in Addr |-> real_wallets[b].transaction_id][a]
                        .. [b \in Addr |-> real_wallets[b].transaction_id][a]
                            + Bank!Cardinality(Bank!From(B, a)) - 1
    <3>1. InTurn(B, a, real_wallets[a].transaction_id)
      BY <1>3 DEF Moved
    <3>2. [b \in Addr |-> real_wallets[b].transaction_id][a] = real_wallets[a].transaction_id
      OBVIOUS
    <3>3. QED
      BY <3>1, <3>2, BankCount DEF InTurn
  <2>2. QED
    BY <2>1, Zenon DEF Bank!InTurn
<1>6. [a \in Addr |-> real_wallets'[a].transaction_id]
        = [a \in Addr |-> [b \in Addr |-> real_wallets[b].transaction_id][a]
                            + Bank!Cardinality(Bank!From(B, a))]
  BY <1>2, <1>3, BankCount DEF Moved
<1>7. [a \in Addr |-> real_wallets'[a].balance]
        = [a \in Addr |-> [b \in Addr |-> real_wallets[b].balance][a]
                - Bank!Paid(Bank!From(B, a), charge) + Bank!Received({tx \in B : tx.to = a})
                + IF a = STATE_FEE_WALLET THEN Bank!Fees(B, charge) ELSE 0]
  BY <1>2, <1>3 DEF Moved
<1>8. \A a \in Addr : [b \in Addr |-> real_wallets'[b].delegated_to_sum][a]
                        <= [b \in Addr |-> real_wallets'[b].balance][a]
  BY <1>1 DEF Good, Covered
<1>9. Bank!Apply(B, charge)
  BY <1>5, <1>6, <1>7, <1>8, Zenon DEF Bank!Apply
<1>10. B \in SUBSET Tx
  BY <1>3 DEF Moved
<1>11. QED
  BY <1>4, <1>9, <1>10 DEF Bank!Next

(* The ledger implements Accounts: every block that is applied moves coins,
   fees and nonces as a set of transactions does, and nothing else moves
   them, whatever is made, tried or refused in between. *)
THEOREM LedgerImplementsAccounts == Spec => ImplementsAccounts
<1>1. Init => Bank!Init
  BY DEF Init, Bank!Init
<1>2. IInv /\ IInv' /\ Committing /\ [Next]_vars => [Bank!Next]_(Bank!vars)
  <2> SUFFICES ASSUME IInv, IInv', Committing, [Next]_vars
               PROVE  [Bank!Next]_(Bank!vars)
    OBVIOUS
  <2>1. CASE EndApplying
    BY <2>1, CommitMoves
  <2>2. CASE ~EndApplying
    BY <2>2, CommitsAtEnd DEF Bank!vars
  <2>3. QED
    BY <2>1, <2>2
<1>3. Init => IInv /\ Committing
  BY InitIInv, InitCommitting
<1>4. IInv /\ Committing /\ [Next]_vars => IInv' /\ Committing'
  BY NextIInv, NextCommitting
<1>5. QED
  BY <1>1, <1>2, <1>3, <1>4, PTL DEF Spec, ImplementsAccounts, Bank!Spec
=============================================================================
