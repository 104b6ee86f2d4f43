\* mimi_open without txfunc.
SPECIFICATION Spec
CONSTANTS
    WsCode = 6
    MaxOpens = 3
INVARIANTS
    MissingTxfuncIsReported
CHECK_DEADLOCK FALSE
