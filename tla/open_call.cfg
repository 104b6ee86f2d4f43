\* Any sequence of mimi_open and mimi_close, with every failure.
SPECIFICATION Spec
CONSTANTS
    WsCode = 6
    MaxOpens = 3
INVARIANTS
    OpenTypeOK
    HandleOrError
    NothingLeftBehind
    NoHandlerIsHidden
CHECK_DEADLOCK FALSE
