SPECIFICATION FairSpec
CONSTANTS
    BufSize = 3
    Keys = {"tab", "enter", "back"}
    OtherCodes = {}
    ShiftKeys = 1
    ConsoleWidth = 3
    ConsoleHeight = 2
    WarningLength = 1
    MaxWarnings = 1
INVARIANT CursorOnPage
INVARIANT LineIsFromStart
INVARIANT ShiftCatchesUp
PROPERTY IsKeyQueue
PROPERTY KeyIsRead
