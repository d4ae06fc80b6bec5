SPECIFICATION FiguresSpec
CONSTANTS
    NSEC_PER_SEC = 6
    NSEC_PER_USEC = 2
    Modulus = 60
    LastSecond = 4
    Periods <- MCPeriods
    Words <- MCWords
    SizeMax = 1000000
INVARIANTS
    Normalised
    SleepsEnough
    TextFits
    Unambiguous
PROPERTY
    ReadsElapsed
