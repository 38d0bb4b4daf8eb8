CONSTANTS
    Tickers = {a, b}
    InitialCash = 21
    Lot = 2
    TPlusOne = TRUE
    AutoExit = TRUE
    MinimumCommission = 2
    Scale = 10
    BuyRate = 2
    SellRate = 1
    StampRate = 1
    TransferRate = 0
    LastDate = 3
    Backdating = FALSE
    Sizes = {3, 4}
    Prices = {3, 5}
    MaxTrades = 4
SPECIFICATION TradingSpec
SYMMETRY Symmetry
INVARIANTS
    TypeOK
    SharesAccounted
    StrategiesSayWhatTheyMean
    
PROPERTIES
    SellsSettledShares
    
CHECK_DEADLOCK FALSE
