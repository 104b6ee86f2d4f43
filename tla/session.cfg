\* Two utterances of up to one InSpeech callback each; every failure, Ctrl-C
\* and the end of recording at any time.
SPECIFICATION FairSpec
CONSTANTS
    MaxUtterances = 2
    MaxInSpeech = 1
    OpenRetries = 3
INVARIANTS
    SessionTypeOK
    MisuseExplained
PROPERTIES
    StraysAreBounded
    BreakTakesAll
    CallbackReturns
    InterruptEnds
