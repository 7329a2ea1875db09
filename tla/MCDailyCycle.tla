---------------------------- MODULE MCDailyCycle ----------------------------
(* An instance of DailyCycle for TLC.  Wallet v is a node: it delegates to
   itself and to the master wallet, and u, a founder, delegates to it. *)
EXTENDS DailyCycle

CONSTANTS n1, n2, u, v, mn, f, z

MCOpening == [a \in Addr |->
    CASE a = u -> [Plain(9, 1) EXCEPT
                !.founder = TRUE, !.limit = 1,
                !.delegate_to_daly_snapshot = <<<<v, 2>>>>]
      [] a = v -> [Plain(9, 1) EXCEPT
                !.state = Role, !.pretend_common = TRUE, !.soft = Role, !.seed = Role,
                !.delegate_to_daly_snapshot = <<<<v, 1>>, <<mn, 1>>>>,
                !.delegated_from_daly_snapshot = <<<<v, 1>>, <<u, 2>>>>]
      [] a = mn -> [Plain(0, 1) EXCEPT !.delegated_from_daly_snapshot = <<<<v, 1>>>>]
      [] OTHER -> NewWallet]

MCTx(from, to, value, size, nonce, method, amount) == [
    from |-> from, to |-> to, value |-> value, fee |-> 1, nonce |-> nonce,
    size |-> size, method |-> method, amount |-> amount, roles |-> {}]

(* u delegates more to the node, or pays the zero wallet and delegates to it
   what it has from the second day on, and takes something back; v delegates
   to the fee wallet, or gives up being a node, in one of two ways. *)
MCTransactions == {
    MCTx(u, v, 0, 2, 1, "delegate", 1),
    MCTx(u, z, 1, 1, 1, "delegate", 7),
    MCTx(u, v, 0, 1, 2, "undelegate", 0),
    MCTx(v, mn, 0, 1, 1, "undelegate", 0),
    MCTx(v, f, 0, 1, 1, "delegate", 1),
    MCTx(v, v, 0, 1, 2, "register", 0)}

MCReports == {Role \X {v}}
MCAnswers == {[passive |-> [a \in {u, v} |-> IF a = u THEN 2 ELSE 1], active |-> <<v, u>>]}

MCMinimum == [a \in Addr |-> 1]
MCRegion == [a \in Addr |-> "eu"]
MCSeedCap == [r \in Role |-> 1]
MCSoftCap == [r \in Role |-> 3]
MCHardCap == [r \in Role |-> 2]

Symmetry == Permutations(Node)
=============================================================================
