\* The errorno of a failure of the FLAC encoder.
SPECIFICATION Spec
CONSTANTS
    TxUserErrors <- MCTxUserErrors
    RxUserErrors <- MCRxUserErrors
    Lens <- MCLens
    CloseStatuses <- MCCloseStatuses
    WsCode = 11
    SendFailures = {"Net"}
    ReceiveFailures = {"Timeout"}
    MaxChunks = 2
    Format = "FLAC"
    Channels = 2
INVARIANTS
    EncoderErrorIs502
