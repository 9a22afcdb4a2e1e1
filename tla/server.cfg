SPECIFICATION SpecServer
CONSTANTS
    ofClient = ofClient
    ofProxy = ofProxy
    ofPull = ofPull
    Txs <- TxsDef
    Via <- ViaDef
    Cap = 1
    MinTxs = 2
    MaxTxs = 2
    MaxTip = 1
    AnySignal = AnySignal
    ExitSignal = ExitSignal
INVARIANTS
    TypeOKServer
    PanicOnlyInStop
    ConfirmedIsIdle
    NothingLost
PROPERTIES
    OwnBlockIsNew
    EveryoneIsTried
    StopEnds
CHECK_DEADLOCK FALSE
