------------------------------ MODULE Accounts ------------------------------
(***************************************************************************)
(* What the ledger promises: accounts that change by whole blocks.  A      *)
(* block is a set of transactions; the order they are worked through in    *)
(* does not show.  Each account's transactions carry the next nonces, each *)
(* pays its value and a fee it agreed to, and coins that are locked stay.  *)
(***************************************************************************)
EXTENDS Integers, FiniteSets, Functions

CONSTANTS Addr, STATE_FEE_WALLET, Tx, Opening

VARIABLES balance, nonce, locked

vars == <<balance, nonce, locked>>

Init ==
    /\ balance = [a \in Addr |-> Opening[a].balance]
    /\ nonce = [a \in Addr |-> Opening[a].transaction_id]
    /\ locked = [a \in Addr |-> Opening[a].delegated_to_sum]

From(B, a) == {tx \in B : tx.from = a}

Paid(B, charge) == SumFunction([tx \in B |-> tx.value + charge[tx]])
Received(B) == SumFunction([tx \in B |-> tx.value])
Fees(B, charge) == SumFunction([tx \in B |-> charge[tx]])

(* The next nonces of its sender, each once. *)
InTurn(B) ==
    \A a \in Addr :
        {tx.nonce : tx \in From(B, a)} = nonce[a] .. nonce[a] + Cardinality(From(B, a)) - 1

Apply(B, charge) ==
    /\ InTurn(B)
    /\ nonce' = [a \in Addr |-> nonce[a] + Cardinality(From(B, a))]
    /\ balance' = [a \in Addr |->
            balance[a] - Paid(From(B, a), charge)
                       + Received({tx \in B : tx.to = a})
                       + IF a = STATE_FEE_WALLET THEN Fees(B, charge) ELSE 0]
    /\ \A a \in Addr : locked'[a] <= balance'[a]

(* The fee of a transaction is at most the one it offers. *)
Charges(B) ==
    {charge \in [B -> UNION {0 .. tx.fee : tx \in B}] : \A tx \in B : charge[tx] <= tx.fee}

Next == \E B \in SUBSET Tx : \E charge \in Charges(B) : Apply(B, charge)

Spec == Init /\ [][Next]_vars
=============================================================================
