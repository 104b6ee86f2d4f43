\* mimi_error right after mimi_is_active has returned false.
SPECIFICATION Spec
CONSTANTS
    TxUserErrors <- MCTxUserErrors
    RxUserErrors <- MCRxUserErrors
    Lens <- MCLens
    CloseStatuses <- MCCloseStatuses
    WsCode = 11
    SendFailures = {"Net"}
    ReceiveFailures = {"Timeout"}
    MaxChunks = 2
    Format = "FLAC"
    Channels = 2
INVARIANTS
    ErrorVisibleWhenInactive
