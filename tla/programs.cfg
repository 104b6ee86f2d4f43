\* The file program with up to two full chunks, the recording programs with
\* up to three samples; Ctrl-C and failures at any time.
SPECIFICATION FairSpec
CONSTANTS
    Progs = {"file", "pa", "ex1"}
    MaxChunks = 2
    MaxSamples = 3
    ChunkSamples = 2
INVARIANTS
    ProgramsTypeOK
    NothingHeldAtExit
    ExitCodeHonest
PROPERTIES
    GracefulClose
    RunEnds
