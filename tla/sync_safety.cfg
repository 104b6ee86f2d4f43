\* Every sequence of calls of the synchronous API.
SPECIFICATION Spec
CONSTANTS
    CloseStatuses <- MCCloseStatuses
    WsCode = 11
    SendFailures = {"WebSocket", "Timeout", "Net", "IO"}
    ReceiveFailures = {"WebSocket", "Timeout", "Net", "IO"}
    MaxSends = 2
INVARIANTS
    SyncTypeOK
    ClosedHasReason
    ZeroIsExplained
PROPERTIES
    QuietAfterCloseReply
