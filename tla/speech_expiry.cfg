\* The 60 second monitor closes a stream that mimi_start has started.
SPECIFICATION FairSpec
CONSTANTS
    MaxInSpeech = 1
    OpenRetries = 3
    Speculative = {TRUE, FALSE}
PROPERTIES
    ExpiryOnlyUnstarted
