SPECIFICATION Spec
CONSTANTS
    a = a  b = b  f = f
    Addr = {a, b, f}
    STATE_FEE_WALLET = f
    MASTER_WALLETS = {}
    Role = {}
    Opening <- MCOpening
    Tx <- MCPayments
    ReceivedBlocks = {}
    MinimumCoinForging <- MCMinimum
    LIMIT_DELEGATE_TO = 2
    LIMIT_DELEGATE_FROM = 2
    COMISSION_COMMON <- MCCommission
    MAX_TRANSACTION_COUNT = 50
    FREE_SIZE = 2
    STABLE_SORT_SIZE = 1
    MAX_TRANSACTIONS = 2
INVARIANT OwnBlockAccepted
\* a node that refused its own block, or was killed, stops
CHECK_DEADLOCK FALSE
