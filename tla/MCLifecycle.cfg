SPECIFICATION ProcessSpec
CONSTANTS
    Radix = 2
    HEADER_MAGIC <- MCMagic
    PROGRAM_MEMORY_SIZE = 2
    Files <- MCFiles
    Rewrites <- MCRewrites
    Unseekable = 100
    Outside <- FromUser
CHECK_DEADLOCK FALSE
INVARIANTS
    RunsTheFile
    AlterationNoticed
    Balanced
    TerminalRestored
PROPERTIES
    NeverTurnedAway
    StartEnds
    ErrorReported
    SignalEnds
