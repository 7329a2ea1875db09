\* Days of three seconds; two forging blocks and the state blocks behind them.
SPECIFICATION Spec
CONSTANTS
    n1 = n1  n2 = n2
    u = u  v = v  mn = mn  f = f  z = z
    Node = {n1, n2}
    Addr = {u, v, mn, f, z}
    STATE_FEE_WALLET = f
    ZERO_WALLET = z
    TEAM_WALLET = u
    MASTER_WALLET_NODE_FORGING = mn
    MASTER_WALLETS = {mn}
    Role = {"Proxy"}
    Opening <- MCOpening
    Tx <- MCTransactions
    Reports <- MCReports
    Answers <- MCAnswers
    Region <- MCRegion
    MinimumCoinForging <- MCMinimum
    LIMIT_DELEGATE_TO = 3
    LIMIT_DELEGATE_FROM = 3
    FREE_SIZE = 1
    FORGING_POOL = 1000
    FORGING_TEAM_REWARD = 10
    FOUNDER_DAILY_LIMIT_UP = 1
    NODE_SEED_CAP <- MCSeedCap
    NODE_SOFT_CAP <- MCSoftCap
    NODE_HARD_CAP <- MCHardCap
    DAY = 3
    MAX_TIME = 6
SYMMETRY Symmetry
INVARIANTS
    NodesAgree
    StatisticsAgree
    
    OneForgingPerDay

    
\* the last block has been decided, and all nodes have applied it
CHECK_DEADLOCK FALSE
