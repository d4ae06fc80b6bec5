SPECIFICATION UiFairSpec
CONSTANTS
    RandomSeeds <- MCSeeds
    Syncs <- MCSyncs
    Horizon <- MCHorizon
    PastMemory <- MCPast
    NoPanel = NoPanel
    Programs <- Picture
    Keys <- NoKeys
    PageMoves <- NoMoves
    StartPaused <- NotPaused
    Interrupts = FALSE
    CLOCK_PERIODS_USEC <- OneSpeed
    SYNC_PERIODS_USEC <- SyncEvery
    UI_UPDATE_PERIOD_USEC = 1
    MAX_UI_SLEEP_USEC = 2
    KEY_UP_DELAY_USEC = 0
    DISPLAY_UPDATE_USEC = 2
    STATUS_UPDATE_USEC = 0
CHECK_DEADLOCK FALSE
PROPERTY PausedScreenFollows
