\* One utterance of up to three buffers, two results; with and without a
\* speculative connection.
SPECIFICATION FairSpec
CONSTANTS
    MaxInSpeech = 1
    OpenRetries = 3
    Speculative = {TRUE, FALSE}
INVARIANTS
    StreamTypeOK
    AllAudioBeforeBreak
    StartMisuseExplained
    RingGivenBack
PROPERTIES
    FinalEndsEvent
