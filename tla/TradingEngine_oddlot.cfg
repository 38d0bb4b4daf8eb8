CONSTANTS
    Tickers = {a}
    InitialCash = 40
    Lot = 2
    TPlusOne = TRUE
    AutoExit = TRUE
    MinimumCommission = 2
    Scale = 10
    BuyRate = 1
    SellRate = 1
    StampRate = 1
    TransferRate = 0
    LastDate = 2
    Backdating = FALSE
    Sizes = {3, 4}
    Prices = {3, 5}
    MaxTrades = 3
SPECIFICATION Spec
INVARIANTS
    HoldingCanBeClosed
CHECK_DEADLOCK FALSE
