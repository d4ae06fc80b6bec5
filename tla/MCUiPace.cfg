SPECIFICATION UiFairSpec
CONSTANTS
    RandomSeeds <- MCSeeds
    Syncs <- MCSyncs
    Horizon <- MCHorizon
    PastMemory <- MCPast
    NoPanel = NoPanel
    Programs <- Pacing
    Keys <- OneKey
    PageMoves <- NoMoves
    StartPaused <- Both
    Interrupts = FALSE
    CLOCK_PERIODS_USEC <- FourSpeeds
    SYNC_PERIODS_USEC <- SyncEvery
    UI_UPDATE_PERIOD_USEC = 1
    MAX_UI_SLEEP_USEC = 2
    KEY_UP_DELAY_USEC = 1
    DISPLAY_UPDATE_USEC = 0
    STATUS_UPDATE_USEC = 0
CHECK_DEADLOCK FALSE
PROPERTIES
    KeepsPace
    CyclesCome
