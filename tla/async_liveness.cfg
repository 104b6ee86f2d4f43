\* Fair threads: what must eventually happen.  PCM, one buffer of audio.
SPECIFICATION FairSpec
CONSTANTS
    TxUserErrors <- MCTxUserErrors
    RxUserErrors = {}
    Lens <- MCSmallLens
    CloseStatuses = {1000}
    WsCode = 11
    SendFailures = {"Net"}
    ReceiveFailures = {"Timeout"}
    MaxChunks = 1
    Format = "PCM"
    Channels = 1
PROPERTIES
    ErrorReachesApi
    ErrorEndsSession
    ServerCloseEndsSession
    ImplementsStreamLife
    ImplementsClientView
