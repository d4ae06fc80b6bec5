SPECIFICATION UiFairSpec
CONSTANTS
    RandomSeeds <- MCSeeds
    Syncs <- MCSyncs
    Horizon <- MCHorizon
    PastMemory <- MCPast
    NoPanel = NoPanel
    Programs <- Keying
    Keys <- OneKey
    PageMoves <- NoMoves
    StartPaused <- Both
    Interrupts = TRUE
    CLOCK_PERIODS_USEC <- SlowSpeed
    SYNC_PERIODS_USEC <- SyncEvery
    UI_UPDATE_PERIOD_USEC = 1
    MAX_UI_SLEEP_USEC = 2
    KEY_UP_DELAY_USEC = 2
    DISPLAY_UPDATE_USEC = 0
    STATUS_UPDATE_USEC = 1
CHECK_DEADLOCK FALSE
INVARIANTS
    UiTypeOK
    PanelCurrent
    RowsInMemory
PROPERTIES
    KeepsKeys
    AlmostOnTime
    KeysComeUp
