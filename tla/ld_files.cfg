\* Two days, all the ways to have up to five records in one, a crash; two
\* documents of six nodes; packets of three values in up to 24 bytes.
SPECIFICATION MCSpec
VIEW MCView
CONSTANTS
    DayLen = 5
    MaxAge = 1
    MaxCrashes = 1
    EndTime = 6
    MaxVarNodes = 6
    VarKeys = {"a", "b"}
    VarLeaves <- MCLeaves
    MaxJsonDepth = 2
    PortSize = 24
    IOItems <- MCItems
    MaxIOItems = 3
INVARIANTS IndexSound ReadsWanted ReadsWhatWasWritten
PROPERTIES CurrentMovesOn DocumentsAreWhole
CHECK_DEADLOCK FALSE
