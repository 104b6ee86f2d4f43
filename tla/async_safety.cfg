\* Every interleaving of the four threads, FLAC, two buffers of audio.
SPECIFICATION Spec
CONSTANTS
    TxUserErrors <- MCTxUserErrors
    RxUserErrors <- MCRxUserErrors
    Lens <- MCLens
    CloseStatuses <- MCCloseStatuses
    WsCode = 11
    SendFailures = {"Net"}
    ReceiveFailures = {"Timeout"}
    MaxChunks = 2
    Format = "FLAC"
    Channels = 2
INVARIANTS
    TypeOK
    AudioBeforeBreak
    ReportedErrorIsGenuine
    CleanEndIsNormalClose
    LateCallsBounded
    ClosedIsHonest
    MonitorNeverAbandons
PROPERTIES
    ErrorSticky
    NothingAfterBreak
    KeepsStreamLife
    KeepsClientView
