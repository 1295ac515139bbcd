\* Documents of every change class for one contract next to a second one; freezes are
\* killed between any two steps, authors wait for a freeze to end.
SPECIFICATION FairSpec
CONSTANTS
    Own = Own
    NoRecord = NoRecord
    NoLayout = NoLayout
    NoFile = NoFile
    Invalid = Invalid
    NoId = NoId
    Ids = {"c1", "c2"}
    Docs <- ReadyDocs
    Authored <- AuthoredValue
    MaxHistory = 3
    ConcurrentEdits = FALSE
    MayCrash = TRUE
INVARIANTS
    TypeOK
    HistoryConforms
    SameMajorCompatible
    NumbersNeverReused
PROPERTIES
    HistoryAppendOnly
    FreezeThenCheckClean
    AcceptedGetsRecorded
    ImplementsLog
