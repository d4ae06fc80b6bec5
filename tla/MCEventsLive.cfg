SPECIFICATION FairSpec
CONSTANTS
    Programs <- MCPrograms
    RandomSeeds <- MCSeeds
    Syncs <- MCSyncs
    Keys <- MCKeys
    PageMoves <- NoPageMoves
PROPERTIES
    PressSeen
    SyncSeen
