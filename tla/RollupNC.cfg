SPECIFICATION Spec
CONSTANTS
    Users = {coord}
    coordinator = coord
    Tokens = {t}
    Amounts = {0, 1}
    Txs <- MCTxs
    BAL_DEPTH = 2
    Word = 16
    MaxDeposits = 7
    MaxPaid = 1
    MaxUpdates = 2
INVARIANTS DepositsInOrder NothingLostFromRoot DepositNeverBlocked SubtreesFit
CHECK_DEADLOCK FALSE
