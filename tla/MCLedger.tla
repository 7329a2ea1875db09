------------------------------ MODULE MCLedger ------------------------------
(* Instances of Ledger for TLC.  Wallets a and b exchange coins; a is a    *)
(* founder; the fee starts with the second transaction that waits.         *)
EXTENDS Ledger

CONSTANTS a, b, f

MCWallet(balance, founder) == [
    balance |-> balance, transaction_id |-> 1, founder |-> founder,
    used_limit |-> 0, limit |-> IF founder THEN 5 ELSE 0, state |-> {},
    delegate_to |-> << >>, delegated_to_sum |-> 0,
    delegated_from |-> << >>, delegated_from_sum |-> 0]

MCOpening == [w \in Addr |->
    IF w = a THEN MCWallet(4, TRUE) ELSE MCWallet(IF w = b THEN 2 ELSE 0, FALSE)]

MCMinimum == [w \in Addr |-> 1]
MCCommission == <<0, 1, 1, 1, 1>>

MCTx(from, to, value, fee, nonce, size, method, amount) == [
    from |-> from, to |-> to, value |-> value, fee |-> fee, nonce |-> nonce,
    size |-> size, method |-> method, amount |-> amount,
    roles |-> {}]

(* Payments: one byte too long for a free ride, one back that the first
   may have to come before, one to the sender itself that also delegates,
   and one that those coins could pay, which takes back what was not given. *)
MCPayments == {
    MCTx(a, b, 2, 2, 1, 3, "none", 0),
    MCTx(b, a, 3, 1, 1, 1, "none", 0),
    MCTx(a, a, 1, 1, 2, 1, "delegate", 1),
    MCTx(a, b, 1, 1, 3, 1, "undelegate", 0)}

(* What a core records; the oldest blocks hold approved payments. *)
MCEntries == {e \in Entry :
    \/ e.state = "accept"
    \/ e.state = "wrong_data" /\ e.tx.method # "none"
    \/ e.state = "approve" /\ e.tx.method = "none"}

MCReceived == {[fee |-> 0, txs |-> s] : s \in BoundedSeq(MCEntries, 2) \ {<< >>}}
=============================================================================
