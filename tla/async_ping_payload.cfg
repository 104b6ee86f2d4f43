\* What is handed to rxfunc.
SPECIFICATION Spec
CONSTANTS
    TxUserErrors <- MCTxUserErrors
    RxUserErrors <- MCRxUserErrors
    Lens <- MCLens
    CloseStatuses <- MCCloseStatuses
    WsCode = 11
    SendFailures = {"Net"}
    ReceiveFailures = {"Timeout"}
    MaxChunks = 2
    Format = "FLAC"
    Channels = 2
INVARIANTS
    OnlyDataToRxfunc
